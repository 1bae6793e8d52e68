-------------------------- MODULE ConnectionsProofs --------------------------
(***************************************************************************)
(* Theorems about Connections, for any number of handler threads and       *)
(* connections.  PathsSound of HandlerPaths, which TLC evaluates, is about *)
(* one handler at a time; that the handlers do not disturb each other is   *)
(* proved here.                                                            *)
(***************************************************************************)
EXTENDS HandlerPaths, TLAPS

Types ==
    /\ lent \in [Threads -> SUBSET Connections]
    /\ session \in [Connections -> Pool!Sessions]
    /\ unread \subseteq Connections
    /\ handler \in [Threads -> Handlers \cup {"none"}]
    /\ todo = [t \in Threads |-> todo[t]]
    /\ node \in [Threads -> [1..2 -> Connections \cup {NoConn}]]

Inv == PathsSound /\ Types /\ OnPaths

\* What PathsSound says of one place.
LEMMA PlaceSound ==
    ASSUME Inv, NEW x \in Places
    PROVE  WellFormed(x) /\ SoundAt(x) /\ After(x) \subseteq Places
BY DEF Inv, PathsSound

\* Where a handler is that has something to do.
LEMMA HandlerAt ==
    ASSUME Inv, NEW t \in Threads, handler[t] # "none" \/ todo[t] # <<>>
    PROVE  \E x \in Places : IsAt(t, x)
BY DEF Inv, OnPaths, OnPath

LEMMA StepAt ==
    ASSUME Inv, NEW t \in Threads, NEW x \in Places, IsAt(t, x), todo[t] # <<>>
    PROVE  /\ x.todo # <<>> /\ Head(x.todo) = Step(t)
           /\ Step(t).k \in 1..2 /\ Step(t).do \in Ops
           /\ x.mark \in [1..2 -> Marks]
BY PlaceSound DEF IsAt, Step, WellFormed

\* What the fields of a place are.
LEMMA PlaceFields ==
    ASSUME NEW h, NEW p, NEW m
    PROVE  Place(h, p, m).handler = h /\ Place(h, p, m).todo = p /\ Place(h, p, m).mark = m
BY DEF Place

\* A handler keeps its place where its pointers and its connections are left alone.
LEMMA StaysOnPath ==
    ASSUME Inv, NEW s \in Threads, OnPath(s),
           handler'[s] = handler[s], todo'[s] = todo[s], node'[s] = node[s],
           lent'[s] = lent[s], \A c \in lent[s] : c \in unread' => c \in unread
    PROVE  OnPath(s)'
<1>1. CASE handler[s] = "none"
    BY <1>1 DEF OnPath
<1>2. CASE handler[s] # "none"
  <2>1. PICK x \in Places : IsAt(s, x)
      BY <1>2 DEF OnPath
  <2>2. \A k \in 1..2 : Points(s, k, x.mark[k])
      BY <2>1 DEF IsAt
  <2>3. \A k \in 1..2 : Points(s, k, x.mark[k])'
      BY <2>2 DEF Points, Holding
  <2>4. IsAt(s, x)'
      BY <2>1, <2>3 DEF IsAt
  <2> QED BY <1>2, <2>4 DEF OnPath
<1> QED BY <1>1, <1>2

\* A step of t's handler along its path.
LEMMA AlongPath ==
    ASSUME Inv, NEW t \in Threads, NEW x \in Places, IsAt(t, x), NEW y \in After(x),
           y.handler = x.handler, handler' = handler,
           todo' = [todo EXCEPT ![t] = y.todo],
           \A k \in 1..2 : Points(t, k, y.mark[k])',
           y.mark[1] \in Holding /\ y.mark[2] \in Holding => node'[t][1] # node'[t][2],
           \A s \in Threads \ {t} :
               /\ node'[s] = node[s] /\ lent'[s] = lent[s]
               /\ \A c \in lent[s] : c \in unread' => c \in unread,
           \A s, u \in Threads : s # u => lent'[s] \cap lent'[u] = {}
    PROVE  OnPaths'
<1>1. y \in Places /\ y.handler # "none"
    BY PlaceSound DEF WellFormed
<1>2. todo'[t] = y.todo /\ \A s \in Threads \ {t} : todo'[s] = todo[s]
    BY DEF Inv, Types
<1>3. IsAt(t, y)'
    BY <1>2 DEF IsAt
<1>4. handler'[t] # "none"
    BY <1>1, <1>3 DEF IsAt
<1>5. OnPath(t)'
    BY <1>1, <1>3, <1>4 DEF OnPath
<1>6. ASSUME NEW s \in Threads \ {t}
      PROVE  OnPath(s)'
  <2>1. OnPath(s)
      BY DEF Inv, OnPaths
  <2> QED BY <1>2, <2>1, StaysOnPath
<1> QED BY <1>5, <1>6 DEF OnPaths

\* A step of t's handler that changes nothing but its place.
LEMMA OnlyAlongPath ==
    ASSUME Inv, NEW t \in Threads, NEW x \in Places, IsAt(t, x), NEW p,
           Goes(x, p) \in After(x), todo' = [todo EXCEPT ![t] = p],
           UNCHANGED <<lent, session, unread, handler, node>>
    PROVE  Inv'
<1> PICK y : y = Goes(x, p)
    OBVIOUS
<1>1. y \in After(x) /\ y.handler = x.handler /\ y.todo = p /\ y.mark = x.mark
    BY PlaceFields DEF Goes
<1>2. \A k \in 1..2 : Points(t, k, y.mark[k])'
    BY <1>1 DEF IsAt, Points
<1>3. y.mark[1] \in Holding /\ y.mark[2] \in Holding => node'[t][1] # node'[t][2]
    BY <1>1 DEF IsAt
<1>4. \A s, u \in Threads : s # u => lent'[s] \cap lent'[u] = {}
    BY DEF Inv, OnPaths
<1>5. OnPaths'
    BY <1>1, <1>2, <1>3, <1>4, AlongPath
<1>6. Types'
    BY DEF Inv, Types
<1> QED BY <1>5, <1>6 DEF Inv

----------------------------------------------------------------------------
(* Which places come after one, by what the handler does there.              *)

LEMMA AfterMark ==
    ASSUME NEW x, x.todo # <<>>, NEW op, op = Head(x.todo)
    PROVE  /\ op.do = "get" => Marked(Goes(x, Tail(x.todo)), op.k, "held") \in After(x)
           /\ op.do = "release" => Marked(Goes(x, Tail(x.todo)), op.k, "stale") \in After(x)
           /\ op.do = "select" => Marked(Goes(x, Tail(x.todo)), op.k, "rows") \in After(x)
           /\ op.do = "drain" => Marked(Goes(x, Tail(x.todo)), op.k, "held") \in After(x)
BY DEF After

LEMMA AfterGo ==
    ASSUME NEW x, x.todo # <<>>, NEW op, op = Head(x.todo)
    PROVE  /\ op.do \in {"run", "attempt", "leave", "maybe", "repeat", "risk"} =>
                  Goes(x, Tail(x.todo)) \in After(x)
           /\ op.do \in {"run", "select", "leave"} => Goes(x, op.or) \in After(x)
           /\ op.do = "maybe" => Goes(x, op.or \o Tail(x.todo)) \in After(x)
           /\ op.do = "repeat" => Goes(x, op.or \o x.todo) \in After(x)
BY DEF After

LEMMA MarkedFields ==
    ASSUME NEW x, x.mark \in [1..2 -> Marks], NEW p, NEW k \in 1..2, NEW m \in Marks,
           NEW y, y = Marked(Goes(x, p), k, m)
    PROVE  /\ y.handler = x.handler /\ y.todo = p
           /\ y.mark[k] = m /\ \A j \in 1..2 \ {k} : y.mark[j] = x.mark[j]
BY PlaceFields DEF Marked, Goes

----------------------------------------------------------------------------
(* The steps of a handler.                                                   *)

LEMMA BeginInv ==
    ASSUME Inv, NEW t \in Threads, NEW h \in Handlers, Begin(t, h)
    PROVE  Inv'
<1>1. /\ handler[t] = "none" /\ handler' = [handler EXCEPT ![t] = h]
      /\ todo' = [todo EXCEPT ![t] = Programs[h]]
      /\ lent' = lent /\ session' = session /\ unread' = unread /\ node' = node
    BY DEF Begin, GoTo, poolVars
<1>2. Types'
    BY <1>1 DEF Inv, Types
<1> PICK x : x = Place(h, Programs[h], AllUnset)
    OBVIOUS
<1>3. x \in Places
    BY DEF Inv, PathsSound, Starts
<1>4. /\ x.handler = h /\ x.todo = Programs[h] /\ x.mark = AllUnset
      /\ h # "none"
    BY <1>3, PlaceFields, PlaceSound DEF WellFormed
<1>5. node[t] = Unset
    BY <1>1 DEF Inv, OnPaths, OnPath
<1>6. \A k \in 1..2 : Points(t, k, x.mark[k])'
    BY <1>1, <1>4, <1>5 DEF Points, AllUnset, Unset, Holding
<1>7. handler'[t] = h /\ todo'[t] = Programs[h]
    BY <1>1 DEF Inv, Types
<1>8. IsAt(t, x)'
    BY <1>4, <1>6, <1>7 DEF IsAt, AllUnset, Holding
<1>9. OnPath(t)'
    BY <1>3, <1>4, <1>7, <1>8 DEF OnPath
<1>10. ASSUME NEW s \in Threads \ {t}
       PROVE  OnPath(s)'
  <2>1. handler'[s] = handler[s] /\ todo'[s] = todo[s] /\ OnPath(s)
      BY <1>1 DEF Inv, Types, OnPaths
  <2> QED BY <1>1, <2>1, StaysOnPath
<1>11. OnPaths'
    BY <1>1, <1>9, <1>10 DEF Inv, OnPaths
<1> QED BY <1>2, <1>11 DEF Inv

LEMMA ReturnInv ==
    ASSUME Inv, NEW t \in Threads, Return(t)
    PROVE  Inv'
<1>1. /\ todo[t] = <<>> /\ handler' = [handler EXCEPT ![t] = "none"]
      /\ node' = [node EXCEPT ![t] = Unset]
      /\ lent' = lent /\ session' = session /\ unread' = unread /\ todo' = todo
    BY DEF Return, poolVars
<1>2. Types'
    BY <1>1 DEF Inv, Types, Unset
<1>3. OnPath(t)'
    BY <1>1 DEF Inv, Types, OnPath
<1>4. ASSUME NEW s \in Threads \ {t}
      PROVE  OnPath(s)'
  <2>1. handler'[s] = handler[s] /\ node'[s] = node[s] /\ OnPath(s)
      BY <1>1 DEF Inv, Types, OnPaths
  <2> QED BY <1>1, <2>1, StaysOnPath
<1>5. OnPaths'
    BY <1>1, <1>3, <1>4 DEF Inv, OnPaths
<1> QED BY <1>2, <1>5 DEF Inv

LEMMA NextPollInv ==
    ASSUME Inv, NEW t \in Threads, NextPoll(t)
    PROVE  Inv'
<1>1. /\ handler[t] = "SynServer" /\ todo[t] = <<>>
      /\ todo' = [todo EXCEPT ![t] = Poll]
      /\ UNCHANGED <<lent, session, unread, handler, node>>
    BY DEF NextPoll, GoTo, poolVars
<1>2. PICK x \in Places : IsAt(t, x)
    BY <1>1, HandlerAt
<1>3. Goes(x, Poll) \in After(x)
    BY <1>1, <1>2 DEF IsAt, After
<1> QED BY <1>1, <1>2, <1>3, OnlyAlongPath

\* A connection that nobody has, whose session has no rows.
LEMMA GetInv ==
    ASSUME Inv, NEW t \in Threads, NEW c \in Connections, DoGet(t, c)
    PROVE  Inv'
<1> PICK op, k : op = Step(t) /\ k = op.k
    OBVIOUS
<1>1. /\ todo[t] # <<>> /\ op.do = "get" /\ c \notin unread
      /\ \A s \in Threads : c \notin lent[s]
      /\ lent' = [lent EXCEPT ![t] = @ \cup {c}]
      /\ node' = [node EXCEPT ![t][k] = c]
      /\ todo' = [todo EXCEPT ![t] = Tail(todo[t])]
      /\ session' = session /\ unread' = unread /\ handler' = handler
    BY DEF DoGet, At, Pool!Lend, Pool!IsLent, Proceed
<1>2. PICK x \in Places : IsAt(t, x)
    BY <1>1, HandlerAt
<1>3. /\ x.todo # <<>> /\ Head(x.todo) = op /\ x.todo = todo[t]
      /\ k \in 1..2 /\ x.mark \in [1..2 -> Marks]
    BY <1>1, <1>2, StepAt DEF IsAt
<1>4. \A j \in 1..2 \ {k} : x.mark[j] # "stale"
    BY <1>1, <1>3, PlaceSound DEF SoundAt
<1> PICK y : y = Marked(Goes(x, Tail(x.todo)), k, "held")
    OBVIOUS
<1>5. /\ y \in After(x) /\ y.handler = x.handler /\ y.todo = Tail(todo[t])
      /\ y.mark[k] = "held" /\ \A j \in 1..2 \ {k} : y.mark[j] = x.mark[j]
    BY <1>1, <1>3, AfterMark, MarkedFields DEF Marks
<1>6. Types'
  <2>1. node \in [Threads -> [1..2 -> Connections \cup {NoConn}]]
      BY DEF Inv, Types
  <2>2. node' \in [Threads -> [1..2 -> Connections \cup {NoConn}]]
      BY <1>1, <1>3, <2>1
  <2> QED BY <1>1, <2>2 DEF Inv, Types
<1>7. /\ lent'[t] = lent[t] \cup {c} /\ node'[t][k] = c
      /\ \A j \in 1..2 \ {k} : node'[t][j] = node[t][j]
      /\ \A s \in Threads \ {t} : lent'[s] = lent[s] /\ node'[s] = node[s]
    BY <1>1, <1>3 DEF Inv, Types
<1>8. \A j \in 1..2 : Points(t, j, x.mark[j])
    BY <1>2 DEF IsAt
<1>9. \A j \in 1..2 : Points(t, j, y.mark[j])'
    BY <1>1, <1>4, <1>5, <1>7, <1>8 DEF Points, Holding
<1>10. y.mark[1] \in Holding /\ y.mark[2] \in Holding => node'[t][1] # node'[t][2]
    BY <1>1, <1>3, <1>5, <1>7, <1>8 DEF Points
<1>11. \A s, u \in Threads : s # u => lent'[s] \cap lent'[u] = {}
    BY <1>1, <1>7 DEF Inv, OnPaths
<1>12. /\ todo' = [todo EXCEPT ![t] = y.todo] /\ handler' = handler
       /\ \A s \in Threads \ {t} : /\ node'[s] = node[s] /\ lent'[s] = lent[s]
                                   /\ \A d \in lent[s] : d \in unread' => d \in unread
    BY <1>1, <1>5, <1>7
<1>13. OnPaths'
    BY <1>2, <1>5, <1>9, <1>10, <1>11, <1>12, AlongPath
<1> QED BY <1>6, <1>13 DEF Inv

\* What a handler does something with is its own alone.
LEMMA ItsOwn ==
    ASSUME Inv, NEW t \in Threads, NEW x \in Places, IsAt(t, x), todo[t] # <<>>,
           Step(t).do \in {"release", "drain", "run", "attempt", "select"}
    PROVE  /\ Conn(t) \in lent[t] /\ \A s \in Threads \ {t} : Conn(t) \notin lent[s]
           /\ \A j \in 1..2 \ {Step(t).k} : x.mark[j] \in Holding => node[t][j] # Conn(t)
           /\ Step(t).do \in {"run", "attempt", "select"} => Conn(t) \notin unread
<1> PICK k : k = Step(t).k
    OBVIOUS
<1>1. x.todo # <<>> /\ Head(x.todo) = Step(t) /\ k \in 1..2 /\ x.mark \in [1..2 -> Marks]
    BY StepAt
<1>2. /\ x.mark[k] \in Holding
      /\ Step(t).do \in {"run", "attempt", "select"} => x.mark[k] = "held"
    BY <1>1, PlaceSound DEF SoundAt, Holding
<1>3. Points(t, k, x.mark[k])
    BY <1>1 DEF IsAt
<1>4. Conn(t) = node[t][k]
    BY DEF Conn
<1>5. Conn(t) \in lent[t] /\ (Step(t).do \in {"run", "attempt", "select"} => Conn(t) \notin unread)
    BY <1>2, <1>3, <1>4 DEF Points
<1>6. \A s \in Threads \ {t} : Conn(t) \notin lent[s]
    BY <1>5 DEF Inv, OnPaths
<1>7. \A j \in 1..2 \ {k} : x.mark[j] \in Holding => node[t][j] # Conn(t)
    BY <1>1, <1>2, <1>4 DEF IsAt
<1> QED BY <1>5, <1>6, <1>7

\* A connection is given back, whoever has it.
LEMMA ReleaseInv ==
    ASSUME Inv, NEW t \in Threads, DoRelease(t)
    PROVE  Inv'
<1> PICK op, k, c : op = Step(t) /\ k = op.k /\ c = Conn(t)
    OBVIOUS
<1>1. /\ todo[t] # <<>> /\ op.do = "release"
      /\ lent' = [u \in Threads |-> lent[u] \ {c}]
      /\ todo' = [todo EXCEPT ![t] = Tail(todo[t])]
      /\ session' = session /\ unread' = unread /\ handler' = handler /\ node' = node
    BY DEF DoRelease, At, Proceed
<1>2. PICK x \in Places : IsAt(t, x)
    BY <1>1, HandlerAt
<1>3. /\ x.todo # <<>> /\ Head(x.todo) = op /\ x.todo = todo[t]
      /\ k \in 1..2 /\ x.mark \in [1..2 -> Marks] /\ c = node[t][k]
    BY <1>1, <1>2, StepAt DEF IsAt, Conn
<1>4. /\ c \in lent[t] /\ \A s \in Threads \ {t} : c \notin lent[s]
      /\ \A j \in 1..2 \ {k} : x.mark[j] \in Holding => node[t][j] # c
    BY <1>1, <1>2, ItsOwn
<1> PICK y : y = Marked(Goes(x, Tail(x.todo)), k, "stale")
    OBVIOUS
<1>5. /\ y \in After(x) /\ y.handler = x.handler /\ y.todo = Tail(todo[t])
      /\ y.mark[k] = "stale" /\ \A j \in 1..2 \ {k} : y.mark[j] = x.mark[j]
    BY <1>1, <1>3, AfterMark, MarkedFields DEF Marks
<1>6. Types'
    BY <1>1 DEF Inv, Types
<1>7. lent'[t] = lent[t] \ {c} /\ \A s \in Threads \ {t} : lent'[s] = lent[s]
    BY <1>1, <1>4
<1>8. \A j \in 1..2 : Points(t, j, x.mark[j])
    BY <1>2 DEF IsAt
<1>9. \A j \in 1..2 : Points(t, j, y.mark[j])'
    BY <1>1, <1>3, <1>4, <1>5, <1>7, <1>8 DEF Points, Holding
<1>10. y.mark[1] \in Holding /\ y.mark[2] \in Holding => node'[t][1] # node'[t][2]
    BY <1>3, <1>5 DEF Holding
<1>11. \A s, u \in Threads : s # u => lent'[s] \cap lent'[u] = {}
    BY <1>1 DEF Inv, OnPaths
<1>12. /\ todo' = [todo EXCEPT ![t] = y.todo] /\ handler' = handler
       /\ \A s \in Threads \ {t} : /\ node'[s] = node[s] /\ lent'[s] = lent[s]
                                   /\ \A d \in lent[s] : d \in unread' => d \in unread
    BY <1>1, <1>5, <1>7
<1>13. OnPaths'
    BY <1>2, <1>5, <1>9, <1>10, <1>11, <1>12, AlongPath
<1> QED BY <1>6, <1>13 DEF Inv

\* The rows of a connection begin or end; no other handler has it.
LEMMA RowsInv ==
    ASSUME Inv, NEW t \in Threads, NEW m \in {"held", "rows"}, todo[t] # <<>>,
           NEW op, op = Step(t),
           \/ op.do = "select" /\ m = "rows" /\ unread' = unread \cup {Conn(t)}
           \/ op.do = "drain" /\ m = "held" /\ unread' = unread \ {Conn(t)},
           Proceed(t), UNCHANGED <<lent, session, handler, node>>
    PROVE  Inv'
<1> PICK k, c : k = op.k /\ c = Conn(t)
    OBVIOUS
<1>1. todo' = [todo EXCEPT ![t] = Tail(todo[t])]
    BY DEF Proceed
<1>2. PICK x \in Places : IsAt(t, x)
    BY HandlerAt
<1>3. /\ x.todo # <<>> /\ Head(x.todo) = op /\ x.todo = todo[t]
      /\ k \in 1..2 /\ x.mark \in [1..2 -> Marks] /\ c = node[t][k]
    BY <1>2, StepAt DEF IsAt, Conn
<1>4. /\ c \in lent[t] /\ \A s \in Threads \ {t} : c \notin lent[s]
      /\ \A j \in 1..2 \ {k} : x.mark[j] \in Holding => node[t][j] # c
    BY <1>2, ItsOwn
<1>5. c \in Connections
    BY <1>4 DEF Inv, Types
<1> PICK y : y = Marked(Goes(x, Tail(x.todo)), k, m)
    OBVIOUS
<1>6. /\ y \in After(x) /\ y.handler = x.handler /\ y.todo = Tail(todo[t])
      /\ y.mark[k] = m /\ \A j \in 1..2 \ {k} : y.mark[j] = x.mark[j]
    BY <1>3, AfterMark, MarkedFields DEF Marks
<1>7. Types'
    BY <1>1, <1>5 DEF Inv, Types
<1>8. \A j \in 1..2 : Points(t, j, x.mark[j])
    BY <1>2 DEF IsAt
<1>9. \A j \in 1..2 : Points(t, j, y.mark[j])'
    BY <1>3, <1>4, <1>6, <1>8 DEF Points, Holding
<1>10. y.mark[1] \in Holding /\ y.mark[2] \in Holding => node'[t][1] # node'[t][2]
    BY <1>3, <1>4, <1>6
<1>11. \A s, u \in Threads : s # u => lent'[s] \cap lent'[u] = {}
    BY DEF Inv, OnPaths
<1>12. /\ todo' = [todo EXCEPT ![t] = y.todo] /\ handler' = handler
       /\ \A s \in Threads \ {t} : /\ node'[s] = node[s] /\ lent'[s] = lent[s]
                                   /\ \A d \in lent[s] : d \in unread' => d \in unread
    BY <1>1, <1>4, <1>6
<1>13. OnPaths'
    BY <1>2, <1>6, <1>9, <1>10, <1>11, <1>12, AlongPath
<1> QED BY <1>7, <1>13 DEF Inv

LEMMA StatementInv ==
    ASSUME Inv, NEW t \in Threads, DoStatement(t)
    PROVE  Inv'
<1> PICK op : op = Step(t)
    OBVIOUS
<1>1. /\ todo[t] # <<>> /\ op.do \in {"run", "attempt", "select"}
      /\ unread' = IF op.do = "select" THEN unread \cup {Conn(t)} ELSE unread
      /\ todo' = [todo EXCEPT ![t] = Tail(todo[t])] /\ Proceed(t)
      /\ UNCHANGED <<lent, session, handler, node>>
    BY DEF DoStatement, At, Proceed, poolVars
<1>2. CASE op.do = "select"
    BY <1>1, <1>2, RowsInv
<1>3. CASE op.do \in {"run", "attempt"}
  <2>1. PICK x \in Places : IsAt(t, x)
      BY <1>1, HandlerAt
  <2>2. x.todo # <<>> /\ Head(x.todo) = op /\ x.todo = todo[t]
      BY <1>1, <2>1, StepAt DEF IsAt
  <2>3. Goes(x, Tail(todo[t])) \in After(x)
      BY <1>3, <2>2, AfterGo
  <2> QED BY <1>1, <1>3, <2>1, <2>3, OnlyAlongPath
<1> QED BY <1>1, <1>2, <1>3

LEMMA DrainInv ==
    ASSUME Inv, NEW t \in Threads, DoDrain(t)
    PROVE  Inv'
<1>1. /\ todo[t] # <<>> /\ Step(t).do = "drain" /\ unread' = unread \ {Conn(t)}
      /\ Proceed(t) /\ UNCHANGED <<lent, session, handler, node>>
    BY DEF DoDrain, At, poolVars
<1> QED BY <1>1, RowsInv

\* A statement that fails, and a path chosen: nothing changes but the place.
LEMMA ChooseInv ==
    ASSUME Inv, NEW t \in Threads, DoStatementFails(t) \/ DoChoose(t)
    PROVE  Inv'
<1> PICK op : op = Step(t)
    OBVIOUS
<1>1. /\ todo[t] # <<>> /\ UNCHANGED <<lent, session, unread, handler, node>>
      /\ \/ /\ op.do \in {"attempt", "leave", "maybe", "repeat", "risk"}
            /\ todo' = [todo EXCEPT ![t] = Tail(todo[t])]
         \/ op.do \in {"run", "select", "leave"} /\ todo' = [todo EXCEPT ![t] = op.or]
         \/ op.do = "maybe" /\ todo' = [todo EXCEPT ![t] = op.or \o Tail(todo[t])]
         \/ op.do = "repeat" /\ todo' = [todo EXCEPT ![t] = op.or \o todo[t]]
    BY DEF DoStatementFails, DoChoose, At, Proceed, GoTo, poolVars
<1>2. PICK x \in Places : IsAt(t, x)
    BY <1>1, HandlerAt
<1>3. x.todo # <<>> /\ Head(x.todo) = op /\ x.todo = todo[t]
    BY <1>1, <1>2, StepAt DEF IsAt
<1>4. PICK p : Goes(x, p) \in After(x) /\ todo' = [todo EXCEPT ![t] = p]
    BY <1>1, <1>3, AfterGo
<1> QED BY <1>1, <1>2, <1>4, OnlyAlongPath

----------------------------------------------------------------------------
(* The server of the database, and the process.                              *)

LEMMA SessionInv ==
    ASSUME Inv, NEW c \in Connections, Break(c) \/ Reconnect(c)
    PROVE  Inv'
<1>1. /\ lent' = lent /\ session' \in [Connections -> Pool!Sessions]
      /\ handler' = handler /\ todo' = todo /\ node' = node
      /\ unread' \subseteq unread
    BY DEF Break, Reconnect, Pool!Maintain
<1>2. Types'
    BY <1>1 DEF Inv, Types
<1>3. \A s \in Threads : OnPath(s)'
    BY <1>1, StaysOnPath DEF Inv, OnPaths
<1> QED BY <1>1, <1>2, <1>3 DEF Inv, OnPaths

LEMMA EndInv ==
    ASSUME Inv, ProcessEnds
    PROVE  Inv'
<1>1. Types'
    BY DEF ProcessEnds, Pool!Restart, Types, Unset
<1>2. OnPaths'
    BY DEF ProcessEnds, Pool!Restart, OnPaths, OnPath
<1> QED BY <1>1, <1>2 DEF Inv

LEMMA InitInv == PathsSound /\ Init => Inv
<1> SUFFICES ASSUME PathsSound, Init PROVE Inv
    OBVIOUS
<1>1. Types
    BY DEF Init, Types, Unset, Pool!Sessions
<1>2. OnPaths
    BY DEF Init, OnPaths, OnPath
<1> QED BY <1>1, <1>2 DEF Inv

\* Every step of every handler keeps all handlers on their paths.
LEMMA NextInv == Inv /\ [Next]_vars => Inv'
<1> SUFFICES ASSUME Inv, [Next]_vars PROVE Inv'
    OBVIOUS
<1>1. ASSUME NEW t \in Threads, NEW h \in Handlers, Begin(t, h)
      PROVE  Inv'
    BY <1>1, BeginInv
<1>2. ASSUME NEW t \in Threads, NEW c \in Connections, DoGet(t, c)
      PROVE  Inv'
    BY <1>2, GetInv
<1>3. ASSUME NEW t \in Threads,
             \/ DoRelease(t) \/ DoStatement(t) \/ DoStatementFails(t) \/ DoDrain(t)
             \/ DoChoose(t) \/ Return(t) \/ NextPoll(t)
      PROVE  Inv'
    BY <1>3, ReleaseInv, StatementInv, ChooseInv, DrainInv, ReturnInv, NextPollInv
<1>4. ASSUME NEW c \in Connections, Break(c) \/ Reconnect(c)
      PROVE  Inv'
    BY <1>4, SessionInv
<1>5. CASE ProcessEnds
    BY <1>5, EndInv
<1>6. CASE UNCHANGED vars
  <2>1. Types'
      BY <1>6 DEF vars, Inv, Types
  <2>2. \A s \in Threads : OnPath(s)'
      BY <1>6, StaysOnPath DEF vars, Inv, OnPaths
  <2> QED BY <1>6, <2>1, <2>2 DEF vars, Inv, OnPaths
<1> QED BY <1>1, <1>2, <1>3, <1>4, <1>5, <1>6 DEF Next

LEMMA Invariants == PathsSound /\ Spec => []Inv
BY InitInv, NextInv, PTL DEF Spec

\* Every handler has but known operations left to do.
LEMMA TypesOK ==
    ASSUME Inv
    PROVE  TypeOK
<1>1. \A t \in Threads : \A i \in DOMAIN todo[t] : todo[t][i].do \in Ops
  <2> SUFFICES ASSUME NEW t \in Threads, NEW i \in DOMAIN todo[t]
               PROVE  todo[t][i].do \in Ops
      OBVIOUS
  <2>1. CASE todo[t] = <<>>
      BY <2>1
  <2>2. CASE todo[t] # <<>>
    <3>1. PICK x \in Places : IsAt(t, x)
        BY <2>2, HandlerAt
    <3> QED BY <3>1, PlaceSound DEF IsAt, WellFormed
  <2> QED BY <2>1, <2>2
<1> QED BY <1>1 DEF Inv, Types, TypeOK, Pool!TypeOK

\* The inductive invariant of the handlers: each is on one of its paths with its
\* pointers as marked there, and no connection is lent to two.
THEOREM ConnInvariant == PathsSound /\ Spec => []ConnInv
BY Invariants, TypesOK, PTL DEF Inv, ConnInv

\* The variables of the model of the handlers' connections keep their types.
THEOREM TypeCorrect == PathsSound /\ Spec => []TypeOK
BY Invariants, TypesOK, PTL

\* HoldsWhatItUses for all threads and connections: what SqlPool takes for granted
\* of its callers, that they release and use only what they hold, is true of every
\* handler on every path, whatever the others do.
THEOREM UsersHold == PathsSound /\ Spec => []HoldsWhatItUses
<1>1. ASSUME Inv PROVE HoldsWhatItUses
  <2> SUFFICES ASSUME NEW t \in Threads, todo[t] # <<>>,
                      Step(t).do \in {"release", "run", "attempt", "select", "drain"}
               PROVE  Conn(t) \in lent[t]
      BY DEF HoldsWhatItUses, At
  <2>1. PICK x \in Places : IsAt(t, x)
      BY <1>1, HandlerAt
  <2> QED BY <1>1, <2>1, ItsOwn
<1> QED BY <1>1, Invariants, PTL

\* NeverOutOfStep for all threads and connections: no statement meets the rows of
\* an earlier one, the handler's own or another's.
THEOREM InStepAlways == PathsSound /\ Spec => []NeverOutOfStep
<1>1. ASSUME Inv PROVE NeverOutOfStep
  <2> SUFFICES ASSUME NEW t \in Threads, todo[t] # <<>>,
                      Step(t).do \in {"run", "attempt", "select"}
               PROVE  Conn(t) \notin unread
      BY DEF NeverOutOfStep, At
  <2>1. PICK x \in Places : IsAt(t, x)
      BY <1>1, HandlerAt
  <2> QED BY <1>1, <2>1, ItsOwn
<1> QED BY <1>1, Invariants, PTL

\* A handler that ends, or a process, has given back what its pointers point to.
LEMMA LeavesNothing ==
    ASSUME Inv, [Next]_vars, NEW t \in Threads, handler[t] \notin Leaking,
           handler'[t] # handler[t], NEW k \in 1..2
    PROVE  node[t][k] \notin lent'[t]
<1>1. CASE \E s \in Threads, h \in Handlers : Begin(s, h)
  <2>1. handler[t] = "none" /\ lent' = lent
      BY <1>1 DEF Begin, poolVars, Inv, Types
  <2>2. node[t][k] = NoConn
      BY <2>1 DEF Inv, OnPaths, OnPath, Unset
  <2> QED BY <2>1, <2>2, NoConnAssumption DEF Inv, Types
<1>2. CASE \E s \in Threads : Return(s)
  <2>1. handler[t] \notin {"none", "SynServer"} /\ todo[t] = <<>> /\ lent' = lent
      BY <1>2 DEF Return, poolVars, Inv, Types
  <2>2. PICK x \in Places : IsAt(t, x)
      BY <2>1, HandlerAt
  <2>3. x.mark[k] \notin Holding /\ x.mark[k] \in Marks
      BY <2>1, <2>2, PlaceSound DEF IsAt, SoundAt, WellFormed
  <2>4. Points(t, k, x.mark[k])
      BY <2>2 DEF IsAt
  <2> QED BY <2>1, <2>3, <2>4, NoConnAssumption DEF Points, Marks, Holding, Inv, Types
<1>3. CASE ProcessEnds
    BY <1>3 DEF ProcessEnds, Pool!Restart
<1>4. CASE handler' = handler
    BY <1>4
<1> QED
  <2>1. ASSUME NEW s \in Threads,
               \/ \E c \in Connections : DoGet(s, c)
               \/ DoRelease(s) \/ DoStatement(s) \/ DoStatementFails(s) \/ DoDrain(s)
               \/ DoChoose(s) \/ NextPoll(s)
        PROVE  handler' = handler
      BY <2>1 DEF DoGet, DoRelease, DoStatement, DoStatementFails, DoDrain, DoChoose, NextPoll
  <2>2. ASSUME NEW c \in Connections, Break(c) \/ Reconnect(c)
        PROVE  handler' = handler
      BY <2>2 DEF Break, Reconnect
  <2> QED BY <1>1, <1>2, <1>3, <1>4, <2>1, <2>2 DEF Next, vars

\* OnlyKnownLeaks for all threads and connections: a handler but for those of
\* Leaking returns only after it has given back all that it borrowed.
THEOREM NoOtherLeaks == PathsSound /\ Spec => OnlyKnownLeaks
<1>1. ASSUME Inv, [Next]_vars
      PROVE  [\A t \in Threads :
                 handler[t] \notin Leaking /\ handler'[t] # handler[t] =>
                     \A k \in 1..2 : node[t][k] \notin lent'[t]]_vars
    BY <1>1, LeavesNothing
<1> QED BY <1>1, Invariants, PTL DEF Spec, OnlyKnownLeaks
=============================================================================
