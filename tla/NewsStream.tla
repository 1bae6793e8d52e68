----------------------------- MODULE NewsStream -----------------------------
(***************************************************************************)
(* What the stream of Syn_data promises to the rest of the server: a user  *)
(* that has registered a stream is written to, one message at a time, and  *)
(* only after its flags have been seen set.  They may have been cleared    *)
(* since; a message may be lost with its stream; a process that ends takes *)
(* all streams with it, while the flags are in the database.               *)
(*                                                                         *)
(* Synchronism, the service of iShare_synchronism.cc, implements this      *)
(* specification, and News puts it between the handlers that set and clear *)
(* the flags.                                                              *)
(***************************************************************************)
CONSTANT Members   \* rows of table User

VARIABLES flag,    \* flag[u]: some synchronism_* column of u is not 0
          served,  \* the users with a registered stream
          seen,    \* the users found flagged, and not written to yet
          told     \* the users whose stream has a message under way

vars == <<flag, served, seen, told>>
streamVars == <<served, seen, told>>

TypeOK ==
    /\ flag \in [Members -> BOOLEAN]
    /\ served \subseteq Members
    /\ seen \subseteq Members
    /\ told \subseteq served

Init ==
    /\ flag \in [Members -> BOOLEAN]
    /\ served = {}
    /\ seen = {}
    /\ told = {}

\* The handlers set and clear flags.
WriteFlags ==
    /\ flag' \in [Members -> BOOLEAN]
    /\ UNCHANGED streamVars

Register(u) ==
    /\ u \in Members \ served
    /\ served' = served \cup {u}
    /\ UNCHANGED <<flag, seen, told>>

\* A stream that its client has left.
Drop(u) ==
    /\ u \in served
    /\ served' = served \ {u}
    /\ told' = told \ {u}
    /\ UNCHANGED <<flag, seen>>

See(u) ==
    /\ u \in Members
    /\ flag[u]
    /\ seen' = seen \cup {u}
    /\ UNCHANGED <<flag, served, told>>

\* The message is written, if there is a stream.
Tell(u) ==
    /\ u \in seen
    /\ u \notin told
    /\ seen' = seen \ {u}
    /\ told' = told \cup ({u} \cap served)
    /\ UNCHANGED <<flag, served>>

\* The message has left, for the client or for nowhere.
Deliver(u) ==
    /\ u \in told
    /\ told' = told \ {u}
    /\ UNCHANGED <<flag, served, seen>>

\* The process ends.
Stop ==
    /\ served' = {}
    /\ seen' = {}
    /\ told' = {}
    /\ UNCHANGED flag

Next ==
    \/ \E u \in Members : Register(u) \/ Drop(u) \/ See(u) \/ Tell(u) \/ Deliver(u)
    \/ WriteFlags
    \/ Stop

Spec == Init /\ [][Next]_vars
=============================================================================
