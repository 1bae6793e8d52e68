# A TLA+ verification development of iShareServer

iShareServer (`src/iShare_source/`) is the server of a bill-sharing app: a gRPC
server in C++ in front of a MySQL database. This directory holds TLA+ modules
that model its own code, the TLC configurations that check them on small instances,
and theorems with proofs checked by TLAPS: every invariant and every action
property that the runs check is proved for all values of the constants, and so are
both refinements.

All file names below without a directory are in `src/iShare_source/`.

1. [The system](#1-the-system)
2. [The modules and how they correspond to the code](#2-the-modules-and-how-they-correspond-to-the-code)
3. [The runs: what is checked, bounds, fairness](#3-the-runs)
4. [The proofs](#4-the-proofs)
5. [What disagrees with the repository's own words](#5-disagreements-found)
6. [What is not modelled, and why](#6-what-is-not-modelled)
7. [The plan](#7-the-plan)

## 1. The system

### Components, their state and their operations

| component | state | operations | hard behaviour | what makes it correct |
|---|---|---|---|---|
| **Connection pool** (`mysql_pool.cc`, `Create_sock`/`Close_sock` of `iShare_server.cc`) | a linked list of 30 nodes (`CONN_NUM`), each with a mutex, `sql_state` and a MySQL session; the function-static cursor `last_used` | `sql_pool_create`, `get_sock_from_pool`, `check_sql_sock_normal`, `release_sock_to_sql_pool` | all handler threads scan one list; the cursor has no lock; sessions break, the database goes away | a node is lent to one thread; the mutex of a node nobody uses is free; a lent session works; a call returns |
| **Synchronism service** (`iShare_synchronism.cc`, `iShare_server.h`) | `CallData` objects, the completion queue, `users_` and `mp_` (user to stream) | `CallData::Proceed`, `HandleRpcs` (one thread), `SynServer` (the poller, another) | two threads share two containers with no lock; events of dead streams; clients that reconnect; writes that overlap | one `CallData` waits for the next client; the containers agree; only cancelled streams are deleted, and all of them; news are written |
| **Bills** (`iShare_bill.cc`) | table `Bills`; columns `synchronism_bill` and `synchronism_delete` of `User` | `Create_share`, `Obtain_bills`, `Delete_bill` | several statements a handler and no transaction; a reader clears the flag a writer sets; crashes in between | every member of a bill shows it or will be told |
| **Requests** (`iShare_request.cc`) | tables `Request`, `RequestLog`; column `synchronism_request` | `Send_request`, `Obtain_request`, `Obtain_requestLog`, `Obtain_requestLogHistory`, `Request_response`, `Create_requestLog`, `IgnoreRequestLog`, `MakePayment` | the same, and one column for two kinds of news; two devices of a user answer at the same time | no request disappears, no answer is logged twice, both sides hear of it |
| **Accounts and friends** (`iShare_user.cc`) | tables `User`, `Friends`; column `synchronism_friend` | `Sign_up`, `Login`, `Search_username`, `User_inf`, `Add_friend`, `Delete_friend`, `Reset_Status`, `Update_user_lastModified`, `Send_DeviceToken` | a check and an insert in two statements; connections that are not given back | user names and friendships are unique; friends hear of changes |
| **Settings** (`iShare_setting.cc`) | columns `N_*` and the name of `User` | `Obtain_setting`, `Reset_setting`, `Reset_userInfo`, `Obtain_userInfo` | as above, for the user name | as above |
| **Images** (`iShare_server.cc`) | files | `Send_Img`, `Receive_Img` | two uploads of one name, a download in between, results nobody looks at | a file is one upload, entire |
| **Process** (`main`, `Run`) | none | start, restart by supervisord | what survives a crash: the database, no memory | |
| **Push, log, mail** (`iShare_server.cc`, `iShare_tools.cc`, `iShare_mail.cc`, `src/MMGAPN`) | none | output | none | |

### How they interact

* A **handler** of the synchronous gRPC service borrows a connection, runs its
  SQL statements one by one, each of which commits on its own, and gives the
  connection back. Handlers run in parallel; what they share is the pool and
  the database.
* Handlers **announce** what they did by setting `synchronism_*` columns in the
  rows of the users concerned.
* The **poller** of the Synchronism service reads these columns once a second,
  for each user with a registered stream, and writes to the stream when one of
  them is not 0. It keeps one connection of the pool for itself.
* The **client** that hears of news calls the matching `Obtain_*` handler, which
  reads the rows and clears the column.
* The process **crashes** in many ways (null connection, `GPR_ASSERT`, aborts of
  the gRPC runtime) and is started again by supervisord. Memory is lost, the
  tables stay.

The announcements are the program's own protocol, and the place where the
interesting errors are: a lost announcement is never repeated. Hence the choice
of modules: the pool (everything rests on it), the stream service, the three
families of handlers that announce (bills, requests, friends), and the path from
a handler that announces to the client that hears. Around them are the use all
handlers make of the pool, the user names, and the image files.

## 2. The modules and how they correspond to the code

| module | lines | models |
|---|---|---|
| `ConnectionPool` | abstract specification | what any pool promises to its borrowers |
| `SqlPool` | `mysql_pool.cc`, with `main`, `Create_sock`, `Close_sock` | the pool, access by access; implements `ConnectionPool` |
| `SqlPoolProofs` | | the theorems about `SqlPool` |
| `Connections` (`MCConnections`) | every handler of the four handler files, `SynServer` | what all of them do with connections, over `ConnectionPool` |
| `HandlerPaths` | | the paths through each of these handlers by itself, and the inductive invariant of `Connections` |
| `ConnectionsProofs` | | the theorems about `Connections` |
| `NewsStream` | abstract specification | what the stream promises to handlers and clients |
| `Synchronism` | `iShare_synchronism.cc`, class `CallData` of `iShare_server.h` | the stream service; implements `NewsStream` |
| `SynchronismProofs` | | the theorems about `Synchronism` |
| `BillNews` (`MCBillNews`) | `iShare_bill.cc`, `Reset_Status` | bills and their announcement |
| `News` | | `BillNews`, `NewsStream` and a client, composed |
| `BillNewsProofs` | | the theorems about `BillNews` and `News` |
| `Requests` (`MCRequests`) | `iShare_request.cc` but `MakePayment` | requests, answers and their announcement |
| `RequestsProofs` | | the theorems about `Requests` |
| `Friends` (`MCFriends`) | `Add_friend`, `Delete_friend`, `User_inf`, `Update_user_lastModified`, the end of `Reset_userInfo` | friendships and their announcement |
| `FriendsProofs` | | the theorems about `Friends` |
| `Accounts` (`MCAccounts`) | `Sign_up`, `Login`, the beginning of `Reset_userInfo` | who owns which user name |
| `AccountsProofs` | | the theorems about `Accounts` |
| `Images` (`MCImages`) | `Send_Img`, `Receive_Img` | image files, access by access |
| `ImagesProofs` | | the theorems about `Images` |

The `MC` modules only add a symmetry set. The other modules are checked as
they are, with the constants of the `.cfg`. How they fit together:

```
        Connections ----> ConnectionPool <---- SqlPool
        (all handlers)      (abstract)        (mysql_pool.cc)

   News = BillNews + client ----> NewsStream <---- Synchronism
        (handlers, client)        (abstract)     (iShare_synchronism.cc)
```

"`X` ----> `A`" is a module built on the abstract specification, "`A` <---- `Y`" the
component shown to implement it. `Requests`, `Friends`, `Accounts` and `Images` stand
on their own: what they share with the others is the database, whose
statements each commit alone.

### ConnectionPool and SqlPool

`ConnectionPool` has two variables: what each borrower has (`lent`) and the state
of the session behind each connection. It allows to lend a connection that is
free and works; to take it back; to let sessions break at any time and to
reopen or close those that are **not** lent; and to lose everything in a restart.

`SqlPool` numbers the nodes in the order of creation. Each is pushed at the
front, so `sql_sock_pool->sql_pool` is node `created`, `n->next` is `n - 1` and 0
is `NULL`. `pc[t]` is the place of thread `t` in `get_sock_from_pool`:

| action | code |
|---|---|
| `CreateNode`, `CreateFails` | one turn of the loop of `sql_pool_create`; its failure label, which frees the nodes and leaves the head of the list |
| `Enter`, `EnterDestroyed` | the static cursor is initialised by the first call; `ret = last_used->next` |
| `Guard` | `while (ret != last_used)` and the wrap to the head |
| `TryLock` | `pthread_mutex_trylock`, then the look at `sql_state` |
| `Reconnect`, `ReconnectFails`, `ReconnectNull` | `Close_sock` and `Create_sock` of a marked node; the early return; the node whose session is `NULL` since an earlier failure |
| `PingAnswers`, `PingFails` | `mysql_ping`; the cursor is moved and the node returned, or it is marked and `continue` |
| `DereferenceNull` | what every caller does with a `NULL` result |
| `CheckSqlSockNormal`, `Release` | the borrower's calls |
| `ConnBreaks`, `DbDown`, `DbUp`, `Restart` | MySQL and supervisord (external) |

The cursor is read and written by all threads with no lock: `Guard` reads it anew
each time. An access to memory that is not there ends the process (`down`).

### Synchronism

One number stands for each `CallData` the process creates; `status`, `first`,
`user` are its members, `stream`, `op` and `finished` what the gRPC runtime knows
of it, `cq` the completion queue.

| action | code |
|---|---|
| `NextEvent`, `NextFailed`, `NextDeleted` | `cq_->Next`, `GPR_ASSERT(ok)`, `Proceed` up to the `find`; the first event of a `CallData` spawns the next one |
| `Find`, `InsertUser`, `AssignCall` | the three accesses of the `PROCESS` state to `mp_`, `users_`, `mp_` |
| `ScanEntry`, `ScanNull`, `ScanEnds` | the poller's loop over `mp_`, which collects `cancel_users` |
| `DeleteCall`, `EraseUser`, `EraseEntry`, `ReapEnds` | its loop over `cancel_users` |
| `PollQuiet`, `PollFlagged`, `PollUnknown`, `PollFails`, `PollNoConnection` | its loop over `users_`, one query a user |
| `Push`, `Finish` | `responder_.Write` and `responder_.Finish`; `mp_[user_id]` creates a `NULL` element when there is none |
| `PollEnds` | `sleep(1)` and the next turn |
| `Connect`, `Disconnect`, `OpDone`, `SetFlag`, `ClearFlag`, `Restart` | clients, runtime, handlers, supervisord (external) |

Containers that are changed by one thread while the other iterates are undefined
behaviour in C++. The model keeps the outcomes apart: the iteration meets the
new element, or does not, or the process ends (`DataRace`). `Run` starts one
thread of `HandleRpcs`, and `HandlersAssumption` says so: two of them would race for
`mp_` among themselves, which the comment at `iShare_synchronism.cc:210` ("This can be
run in multiple threads if needed") overlooks. A `CallData` that was
deleted and is used again ends the process; that memory may look intact for a
while is not modelled. In the state `FINISH` `Proceed` would delete the object;
nothing ever sets it, so it has no action.

`ImplementsNewsStream` maps the service to `NewsStream`: a user is `served` when
`mp_` leads to a live `CallData`, `seen` when the poller is about to write to it,
`told` while the write is outstanding. What it forbids is a write to a stream of
another user and one without a flag that was seen set. It says nothing against a second
write before the first has left: that aborts in the gRPC runtime, and since the end of
the process is `Stop`, the refinement accepts it (section 5 has it as an error).

### Connections

A handler is a value: the sequence of what it does with its connections, with
`Leave`, `Maybe` and `Repeat` for its branches and loops, and in `or` what it does on
the way out when a statement fails. Each definition can be held against
its handler line by line. The actions `DoGet`, `DoRelease`, `DoStatement`, ... are
the interpreter. The session of a connection is out of step while rows of a
`mysql_use_result` are unread on it; the next `get_sock_from_pool` finds that by its
ping. `HoldsWhatItUses` discharges what `SqlPool` takes for granted of its threads:
they release and mark what they hold. A call borrows two connections at most; one
that a call of `Leaking` keeps stays lent, which `SqlPool` allows, since nothing
forces its threads to release.

`HandlerPaths` follows each handler by itself. A *place* is what remains of its
program and the mark of each of its two pointers (not set, held, held with rows, given
back); `Places` is the set of all places, 211 of them. `PathsSound` says of every
place that what the handler does next is sound there, and that the places after it
are places too. This is a closed formula, which TLC evaluates as the first part of
`ConnInv`; the rest says that in every state each thread's handler is at a place and
its pointers are what the marks say. Section 4 tells what it is for.

### BillNews, Requests and Friends

These modules have one action per SQL statement, `pc[t]` being the next one of the
handler in thread `t`, and one action for each way a statement fails, where the
handler then skips something. Reads whose result is only used for push messages
are left out; a handler's reads that decide something are part of the action
that uses them.

In `BillNews` and `Friends` the variable `view` is what the client shows, and it changes
when the answer is complete. `Obtain_bills` has three steps: `ObtainSelect` reads the rows
and writes them to the call, without a look at what `Write` returns; `ObtainClear` (or
`ObtainClearFails`) sets the column to 0; `ObtainReply` is the `Status::OK` that completes the
answer, or `ReplyLost` the broken call. Between these steps anything else may happen: a
bill is created, another answer overtakes this one, the process ends. An answer to "all"
replaces what the client shows (`Shown`), one to a limited request adds to it.

The variable `excused` is a history variable: it records a pair (user, bill) at the
moment one of the known reasons for losing the announcement applies, and forgets it
when the client is right about the bill after all. The properties then say that **no
announcement is lost for any other reason**, which is the strongest statement that
holds of this code. The known reasons are

1. the handler that announces fails or dies between its two statements
   (`CreateFlagFails`, `DeleteFlagFails`, `Crash`);
2. a reader of the same user has read the rows before and clears the flag after
   the announcement (`Overtaken`);
3. bills only: the reader asked for fewer rows than there are, or the client calls
   `Reset_Status` while it still shows a deleted bill;
4. bills and friends: the answer is lost, by a broken call or the end of the process, when
   its flag is cleared already (`LostWith`);
5. bills and friends: an older answer arrives after a newer one and undoes it, or, with a
   deleted bill, after the `Reset_Status` that dealt with the deletion (`Undone`);
6. requests only: the reader asked for the other kind of news, which clears the
   same column, or marks as read what it was not sent.

Each reason of `BillNews` is needed: without it TLC finds a run in which the news are lost that way.
Deletions suffer from 1, 3 and 5 only, since no reader clears `synchronism_delete`.

`Requests` does not follow an answer so far. `sentReq` and `sentLog` are what was ever
written to a call of the client: `Write` was called (`iShare_request.cc:229`, `:325`), and
nobody looked at its result. `RequestsAnnounced` and `AnswersAnnounced` are about what
happens up to there; an answer that is lost on its way counts as sent (section 6).
There `excused` holds triples, and forgets what is sent. The field `of` of a log, the request
that it answers, is a history field too: table `RequestLog` has no such column, no
action reads it, and `NoRequestLost` and `LoggedOnce` are what it is for.

`Friends` is the same once more for `synchronism_friend`, with a version for what
can change about a user, a handler that tells one friend after the other, and a
reader that collects its answer in several statements, clears the flag, and only
then answers. Its known reasons also include statements whose connection dies after the
database has carried them out.

`Requests` treats the two types of request of the protocol, `friendInvite` and
`payment`, alike, as the code does but for the text of its push message. The
sender and the receiver of a request are different users.

A statement that fails has no effect. When a connection is lost after the server
has executed a statement, its effect stays and the handler leaves as after a
failure. In `BillNews` and `Requests` that is the statement followed by the failure
of the next one, since the handlers leave alike; of a last statement it is the
statement itself. In `Friends` and `Accounts`, where the next statement does not
always fail alike, such statements are alternatives of their own
(`LostButDone`, and the second halves of `InfFails`, `SignInsertFails`, `ResetFails`).

### News

`News` extends `BillNews` by the variables of `NewsStream`. Its actions pair an action
of one with a stutter, or with `WriteFlags`, of the other: the poller looks at the
flags and writes, the message arrives or is lost, the client asks for all bills, a
thread takes the call, and its answer arrives (`AnswerArrives`) or is lost
(`LoseAnswer`). Streams come and go, the process crashes.

### Accounts

`raced` holds the names that two handlers found free at the same time, `disturbed`
the handlers whose name another handler gave or took between their last two
statements. Names are equal when the database says so, which ignores case; that
the first SELECT of `Login` is `binary` makes no difference to that. No statement of
the repository creates the tables, so no unique index is assumed.

### Images

A file is the sequence of its blocks. `fwrite` hands over whole blocks and `fclose`
the rest; `w+` empties the file at once. `alone` and `stored` are history variables:
whether another upload of the name overlapped, and what a client was told is
stored.

## 3. The runs

Two users, threads or connections more than the minimum add states of the same
shape; the bounds are chosen so that every action fires and every property can
be broken by a plausible change of the code (`PROJECT.json`, `mutants`).

| run | checks | result and what it shows |
|---|---|---|
| `SqlPool_safety` | `ExclusiveLease`, `NoLockLeak`, `PoolInv`, `ImplementsConnectionPool`, `GetReturnsIfFree` (liveness) | hold. Two threads with up to two leases each, three nodes, sessions that break, outages, failed creation, restarts. A call returns if one node stays free and nothing else moves: the retry after a failed ping ends. |
| `SqlPool_race` | `ExhaustedOnlyByDemand` | **violated**: two threads that want one connection each, of three; one is told that there is none. |
| `SqlPool_spin` | `GetReturnsWhenExhausted` (liveness) | **violated**: all nodes lent and the cursor at the head; the scan never ends. |
| `Connections_use` | `ConnInv` (with `PathsSound`), `HoldsWhatItUses`, `NeverOutOfStep`, `OnlyKnownLeaks` | hold. Each handler by itself on all its paths; any two of the 24 handlers and the poller at a time, three connections, any statement failing. |
| `Synchronism_server` | `OneAcceptor`, `NoDanglingEntry`, `ContainersAgree`, `SyncInv`, `ImplementsNewsStream`, `ReapsOnlyCancelled`, `EntryNotReplaced`, `CancelledReaped`, `FlaggedPushed` | hold. One existing and one unknown user, two streams a process. |
| `Synchronism_again` | `OpenStreamRegistered` (liveness) | **violated**: a client reconnects before its old stream is reaped. |
| `BillNews_losses` | `OnlyKnownLosses`, `OnlyKnownStaleBills`, `BillInv` | hold. Two handlers, two users, two bills, limited and full reads, failures, crashes, answers that are lost after their flag is cleared or overtake each other. |
| `News_delivery` | `NewsTypeOK`, `BillArrives`, `DeletedBillGoes` (liveness) | hold. Two handlers, one client that asks for all bills, two bills, lost messages and answers, reconnections, crashes. |
| `Requests_news` | `NoRequestLost`, `LoggedOnce`, `RequestInv`, `RequestsAnnounced`, `AnswersAnnounced`, `NewsInv` | hold. Two handlers, two users, one request, two logs, failures, crashes, late and double answers. |
| `Friends_news` | `FriendsInv`, `FriendsHear`, `TwiceOnlyByRace` | hold. Two handlers, three users, any friendships to begin with, four calls, failures, lost answers, crashes. |
| `Accounts_names` | `TypeOK`, `SharedOnlyByRace`, `AnswersOwner` | hold. Two handlers, three names, three accounts, failures, crashes. |
| `Images_overlap` | `ImageInv`, `StoredWhole`, `SentWhole` | hold. Three handlers on one file, three images, two of them long, broken streams, failing writes and reads, crashes. |

`PoolInv`, `SyncInv`, `BillInv`, `RequestInv`, `NewsInv`, `FriendsInv`, `ImageInv` and `ConnInv` are
the inductive invariants of the proofs. All but `RequestInv` contain the type
invariant of their module, `TypeOK` (`NewsInv` by way of `TypeInv`), which is therefore not
listed apart. `FriendsInv` is inductive together with `RowInv` and `TypeInv` of the proof. They are checked like the others, so that a plausible change of the
code is seen to break them too.

### The bounds, and why they are enough

* `ConnNum` 3 (`main` asks for `CONN_NUM`, 30; 2 in `SqlPool_spin`), `MaxHeld` 2: a scan passes over a locked
  node, a free one and the wrap at the end of the list in one call. A handler
  holds at most two connections. The safety properties are proved for every
  value.
* `Connections`: two threads, three connections: two handlers that hold two each
  do not fit, so that they also wait for each other. A handler meets others through
  sessions and connections only, so pairs show all there is to see.
* `MaxCalls` 3: the bound leaves one unborn `CallData` to be spawned, so two
  streams are served by a process - enough for a stream and its successor - and
  a restart begins again with three.
* `Handlers` 1: what `Run` starts, and an assumption of the module.
* `LongestPath` 12 of `HandlerPaths` is no bound on what is looked at: `PathsSound` fails
  if a step leads from a place to what is not one, that is, if 12 were too few.
* One undelivered event per `CallData`: the tag of all operations of one object
  is the same, and the handler tells them apart by nothing but `ok`.
* `MaxBills` 2: two answers differ by a bill that is new or deleted, and overtake each
  other. `Limits` {1} in `BillNews_losses`: a limited read leaves out an older bill. `Limits`
  {} in `News_delivery`: what a limited read loses is excused in `BillNews`, where it is
  checked, and here it would only multiply the states.
* `MaxRequests` 1, `MaxLogs` 2, `MaxDirect` 1: one request answered twice, or one
  log of a client's own and one answer; readers of both kinds overtake them. The
  client's own log comes first, which loses nothing: the last step of
  both handlers is one and the same.
* `News`: one client and its stream. Clients of different users meet only in the
  poller, which gives each its turn, and in the bills they share, which `BillNews`
  checks with two.
* `MaxCalls` 4 of `Friends`: a change, a reader it overtakes, a second change and
  the reader that should put it right; three users, so that a list of friends has two.
* `MaxUsers` 3, `Names` 3 in `Accounts`: two accounts that swap names while a third
  one signs up.
* `Images`: one name, since files share nothing; a short image, and two long ones
  that spoil each other and the short one.
* Symmetry of users, threads, connections and images is used where a run checks no
  liveness. In `Accounts`, `Friends`, `Connections` and `Images` the sets are treated
  alike by every definition (`MCImages` permutes the two long images only).

No configuration switches deadlock checking off: sessions, clients and requests
keep arriving in every state. In `Friends`, where the number of calls is bounded, the
step `Quiet` stands for the calls that would follow.

### Fairness

* `SqlPool`: `WF(Scan(t))`. A thread inside `get_sock_from_pool` is a thread of
  the operating system and keeps running. Nothing is assumed of releases (the
  poller never releases, two error paths of handlers forget to), of the database
  or of restarts. `GetReturnsIfFree` asks in its premise that other threads stop
  taking connections: without it a scan may find its node taken forever, and it
  asks that no session breaks, since a new failure makes a new retry.
* `Synchronism`: `WF` of each handler thread's step, of the poller's step and of
  `OpDone` of each operation: both loops run forever, and gRPC completes every
  operation it has begun. Nothing is assumed of clients, of flags and of
  restarts. `FlaggedPushed` asks in its premise that the user's queries do not
  fail forever.

* `News`: `WF` of each handler's next statement, of the poller's look at a flagged
  user (`FlaggedPushed` of `Synchronism` is what justifies it: the poller reaches every
  registered user) and of its write; `SF` of the arrival of messages (not all of them
  are lost), of the answer to a waiting client (gRPC gives the calls that wait
  threads in turn) and of the arrival of answers to "all" (not all of them are lost
  either). Nothing is assumed of clients otherwise, of failures or of
  crashes; the properties ask in their premise that the client has a stream from some
  time on.

`CancelledReaped` and `FlaggedPushed` accept the end of the process (`down`) as an
outcome: after it streams are gone, and the flags are still in the database for
the streams that come.

## 4. The proofs

### The connection pool

`SqlPoolProofs` proves, for every set of threads, every `ConnNum` and every
`MaxHeld`:

| theorem | statement |
|---|---|
| `PoolInvariant` | `Spec => []PoolInv` |
| `TypeCorrect` | `Spec => []TypeOK` |
| `MutualExclusion` | `Spec => []ExclusiveLease` |
| `NoLockLeaks` | `Spec => []NoLockLeak` |
| `Refinement` | `Spec => ImplementsConnectionPool`, that is, `SqlPool` implements `ConnectionPool` |

Assumptions: `ConnNumAssumption` (`ConnNum` is a positive natural number; `main` asks
for `CONN_NUM`, which is 30) and `NoThreadAssumption` (the owner of an unlocked mutex is not a thread).

**The inductive invariant.** `ExclusiveLease` says nothing of the mutexes that
enforce it, so it is not inductive: a scan could lock and lend a node that is
lent already. `PoolInv` is the conjunction of

* `TypeOK`;
* `Leased`: a lent node is locked by its borrower and has a session;
* `Examining`: a thread that reconnects or probes a node owns its mutex and has
  not been lent it; a reconnected node is marked; a probed one has a session;
* `PoolPhase`: nothing is lent, and no scan runs, unless creation is complete;
* `NullIsMarked`: a node without a session is marked `DB_DISCONN`, so the scan
  reconnects it before it probes or lends it - the reason why a failed
  reconnection does not lead to a ping on a `NULL` session;
* `NoLockLeak`: a locked node is lent to, or under examination by, its owner.

`NextPoolInv` takes the actions one by one. The two that need thought are
`TryLock` (a free mutex means, by `Leased`, that the thread does not have the node) and
`DbDown` (sessions break, but none becomes `NULL`). `MutualExclusion` follows from
`Leased` at once: two borrowers would both own one mutex.

**The refinement.** `lent` is mapped to `held` and `session` to `sock`.
`PingAnswers` is the abstract `Lend` (by `Examining` and `Leased` the node is lent to
nobody, and its ping was answered), `Release` is `GiveBack`, `Restart` is `Restart`;
creation, reconnection and the environment are `Maintain`, where `Leased` and
`Examining` show that only sessions nobody has are replaced; all else is a stutter.

### The requests

`RequestsProofs` proves, for all users, any number of handlers, requests and logs,
with or without `Faults`:

| theorem | statement |
|---|---|
| `RequestInvariant` | `Spec => []RequestInv` |
| `NoneLost` | `Spec => []NoRequestLost` |
| `NoneLoggedTwice` | `Spec => []LoggedOnce` |
| `TypeCorrect` | `Spec => []TypeOK` |
| `NewsInvariant` | `Spec => []NewsInv` |
| `RequestsAreAnnounced` | `Spec => []RequestsAnnounced` |
| `AnswersAreAnnounced` | `Spec => []AnswersAnnounced` |

Assumption: `BoundsAssumption` (the three bounds are natural numbers, two of them
positive).

`NoRequestLost` needs to know that a handler deletes a request only after it has
logged the answer (`LoggedBeforeDelete`). `LoggedOnce` needs three facts
(`OneAnswer`), each but for requests in `again`: two handlers do not answer one
request; what a handler is about to log is not logged; a request that is logged
and still in its table is about to be deleted. The third is what an answer
that begins late relies on, and a handler that fails or dies between `INSERT` and
`DELETE` breaks it - this is why it adds the request to `again`. `StoreOK` is the
part of the types that this argument uses. The lemma `Elsewhere` takes care of all the
steps that neither write nor delete what these facts speak of.

The types in full also count the logs against their bound. A handler that has read a
request may write its log many steps later, so the bound holds only because a place
is kept for it: `PlaceForAnswers`, that the logs written and those that handlers are
about to write together are not more than `MaxLogs`.

The announcements fail to be inductive at the statement that clears the column:
nothing says of the flag it clears that it is of no use. `RequestsTold` and `AnswersTold`
say it by not counting a flag (`Flagged`) that a handler is about to clear. A reader
that begins makes this true because what it leaves out is excused at the latest when
the announcement is overtaken, and `HandlerKnows` adds that what it remembers was sent.

### Bills and the composition

`BillNewsProofs` proves, for all users, any number of handlers and bills, with or
without `Faults`:

| theorem | statement |
|---|---|
| `BillInvariant` | `Spec => []BillInv` |
| `TypeCorrect` | `Spec => []TypeOK` |
| `BillsAnnounced` | `Spec => []OnlyKnownLosses` |
| `DeletionsAnnounced` | `Spec => []OnlyKnownStaleBills` |
| `NewsTypeCorrect` | `NewsSpec => []NewsTypeOK` |
| `BillsAnnouncedInNews` | `NewsSpec => []OnlyKnownLosses` |

Assumptions: `BillsAssumption` and `LimitsAssumption` (a limit is one of `1..MaxBills`).

`Informed` says of a member of a bill that it shows it, is flagged, is about to be flagged,
or is about to be shown it (`AboutToShow`): an answer that has the bill is under way, with
its flag cleared. `OnlyKnownLosses` is that or an excuse. The clear is again the step
that needs an invariant. `ReaderInformed` says what an `Obtain_bills` owes between its SELECT
and its UPDATE: each bill of its user is among its rows, or shown, or it came after the
SELECT and is still to be announced, or it is excused. It does not say that the rows have
arrived, since nothing in the code does. So the clear leaves the answer itself as what
keeps the member informed, and the step after it has to account for it: when the answer
arrives it may leave out what is shown (`Undone`, where `AllIsAll` and `AllExcusesNothing` are
why an answer that nothing overtook does not), and when it is lost what it alone
would have shown is excused (`LostWith`, lemma `LostAreWrong`). `ExcusedAreWrong` says that an
excuse stands for a wrong screen, so that no excuse outlives its reason and hides a later
loss; without it an excuse once given would make the properties say nothing of that pair
ever after. `KnowsCreated` adds that ids are given once, so that nobody shows a bill
that does not exist yet. For `News`, `NewsSteps` shows that
each of its steps is one of `BillNews` or leaves its variables alone, so that `BillInv`
holds there as well.

### The stream service

`SynchronismProofs` proves, for all users and any number of streams:

| theorem | statement |
|---|---|
| `SyncInvariant` | `Spec => []SyncInv` |
| `TypeCorrect` | `Spec => []TypeOK` |
| `StillAccepts` | `Spec => []OneAcceptor` |
| `EntriesLive` | `Spec => []NoDanglingEntry` |
| `SameUsers` | `Spec => []ContainersAgree` |
| `OnlyCancelledReaped` | `Spec => ReapsOnlyCancelled` |
| `EntryKept` | `Spec => EntryNotReplaced` |
| `Refinement` | `Spec => ImplementsNewsStream` |

Assumptions: `CallsAssumption`, `UsersAssumption`, `AbsentAssumption` and
`HandlersAssumption` (one thread of `HandleRpcs`).

The two threads remember what they read and use it later, so `SyncInv` says, for each
of their places, what is still true of it:

* `HandlerKnows`: the `CallData` that the handler is about to register is alive, its user has
  no entry in `mp_`, and is in `users_` once it has been put there;
* `PollerKnows`: a user on the list `cancel_users` still has the entry that was found
  cancelled; the one at hand is deleted, then out of `users_`; users in the query loop
  are still in `users_`;
* `ContainersDiffer`: `users_` and `mp_` differ by the user being entered and the one being
  erased, and no other;
* `CallsKnown`: only a `CallData` that a client has called has operations and events; one
  with an operation outstanding is deleted or registered under its user.

All of it is said of a process that is up; `FreshInv` shows that a start makes it
true, whatever ended the process before. `ReapsOnlyCancelled` and `EntryNotReplaced`
follow from `PollerKnows` and `HandlerKnows`: between finding a stream cancelled and
deleting it, the handler thread cannot put another in its place, since it registers
only users without an entry. The refinement takes the actions one by one:
`AssignCall` is the abstract `Register`, `EraseEntry` and `DeleteCall` are `Drop` or a
stutter, `PollFlagged` is `See`, `Push` is `Tell`, `OpDone` is `Deliver`, and every end of the
process is `Stop`.

### Friendships and user names

| module | theorem | statement |
|---|---|---|
| `FriendsProofs` | `StoredOnce` | `Spec => []TwiceOnlyByRace` |
| | `TypeCorrect` | `Spec => []TypeOK` |
| | `NewsInvariant` | `Spec => []FriendsInv` |
| | `FriendsAreTold` | `Spec => []FriendsHear` |
| `AccountsProofs` | `NamesUnique` | `Spec => []SharedOnlyByRace` |
| | `TypeCorrect` | `Spec => []TypeOK` |
| | `OwnerAnswered` | `Spec => []AnswersOwner` |

for all users, names, handlers and bounds, with or without `Faults`. Assumptions:
`CallsAssumption` and `ThreadsAssumption` (a process has finitely many threads) of
`Friends`, `UsersAssumption` and `NobodyAssumption` of `Accounts` (the marks of no account
and no answer are neither names nor ids).

`TwiceOnlyByRace` and `SharedOnlyByRace` are about what is stored only, and the danger
comes from what handlers know. `OneRow` therefore adds, of a pair that is not raced,
that one `Add_friend` at most is about to insert it, and that there is no row while one
is. `OneHolder` says the same of names, with one more case: a handler of
`Reset_userInfo` may be about to take a name that its own user has, and then nobody
else has it. `NoNewRow` and `NoNewName` treat all steps that insert nothing at once,
`CheckRow` and `NewTaker` the look that makes a second handler a race, `InsertRow` and
`TakeName` the statement that takes. `TypeOK` of `Friends` says that a pair has no more
rows than there are handlers; that needs `RowsFit`, which counts the handlers that are
about to insert one as well.

`FriendsHear` needs to know what a `User_inf` that is still reading will find:
`ReadersHear` says that its answer will be right, or that more is still to come. Then
the flag that it clears is of no use, and the answer that it is about to give is
right at least as long as nobody changes anything; who does will tell, or excuses the pair.
`OthersKnow`, `StillComing` and `HearsAnyway` collect what a handler's step leaves true of
the others.

`AnswersOwner` rests on `Remembers`: between its last two statements a handler's account
still holds the name that is looked up, or the handler is disturbed. `Renamed` shows
that each statement that gives a name away disturbs just those that relied on it.

### Images

`ImagesProofs` proves `TypeCorrect`, `ImageInvariant` (`ImageInv`), `Stored` (`StoredWhole`) and
`Sent` (`SentWhole`), for any handlers, names and images. Assumptions: `LongAssumption`
and `MarksAssumption` (what stands for no image, zeros and garbage is no image).

What a client was told is stored must be in the file, so one has to know of an upload
that is alone on its file what the file holds after each block (`Written`), and of a
reader what it has read so far (`SoFar`). `NoOther` says that no other handler is
writing to that file. Both properties are about uploads that nothing overlapped and whose
failures the client is told of: what `Send_Img` does to a file when two uploads overlap or
a write fails is behaviour of the model, and excepted from them. A file has two blocks at most; the lemmas `ShortIsSeq` to `PutNext`
say so once and reduce a write to the replacement of a block.

### The use of connections

`ConnectionsProofs` proves, for any number of threads and connections:

| theorem | statement |
|---|---|
| `ConnInvariant` | `PathsSound /\ Spec => []ConnInv` |
| `TypeCorrect` | `PathsSound /\ Spec => []TypeOK` |
| `UsersHold` | `PathsSound /\ Spec => []HoldsWhatItUses` |
| `InStepAlways` | `PathsSound /\ Spec => []NeverOutOfStep` |
| `NoOtherLeaks` | `PathsSound /\ Spec => OnlyKnownLeaks` |

Assumption: `NoConnAssumption`.

The programs of the handlers are constants, and there are finitely many places in
them, so what has to be said of one handler by itself is a matter of calculation:
`PathsSound`. It mentions no thread, no connection and no other constant of the module;
`Connections_use` evaluates it for the programs as they are, and a change to them that
loses a connection makes it false. What is left to prove is that the handlers
do not disturb each other: no action of one thread changes what the mark of another
thread's pointer says (`StaysOnPath`), because no connection is lent to two threads; that
each action leads along a path (`OnlyAlongPath`, `AlongPath`); and that a session with
rows left on it, which a handler has given back, is not lent before it is replaced
(`GetInv`). The properties follow from `SoundAt` of the place a thread is at.

### What is only model-checked

The liveness properties `GetReturnsIfFree`, `CancelledReaped`, `FlaggedPushed`, `BillArrives`
and `DeletedBillGoes`: fairness is out of the prover's reach. `PathsSound` is evaluated, not
proved: the places are the value of a recursive function on sequences of records,
which the provers cannot unfold. The three runs that find a violation have nothing
to prove.

## 5. Disagreements found

`PROJECT.json` lists them with the lines they contradict; in short:

* The pool says "exhausted" with connections free (`SqlPool_race`), spins when it
  is exhausted (`SqlPool_spin`), and does not wait for the database though
  `mysql_pool.cc:109` says the process should. Every caller then dereferences
  `NULL`.
* `GPR_ASSERT(ok)` and overlapping writes end the server; `src/iShare.err:3` holds
  the message of the second. A quick reconnection leaves a client with a stream
  that is never served (`Synchronism_again`).
* Announcements are lost without any failure: a bill created, or a log written,
  between the SELECT and the UPDATE of a reader. They are lost by failures between
  two statements, too, and with an answer that does not arrive, since `Obtain_bills`
  and the other readers ignore what `Write` returns and clear the flag.
* `Delete_friend` and `Obtain_requestLog` keep a connection when a statement fails;
  `Reset_userInfo` frees a result twice; `Send_Img` answers "Get image" whatever
  happened to the image.
* The padding loop of `src/Tools/bills_transfer.cpp` stops half-way, or never.
* `Obtain_requestLogHistory` returns the received logs only, where the protocol
  says all.

Four statements that the code does not meet are kept in the modules without a run
of their own: `AssertOkHolds` and `OneWriteOutstanding` of `Synchronism`, `NoBillMissed`
of `BillNews`, `ReadWasSent` of `Requests`. Each gives its counterexample within
seconds when it is added as an `INVARIANT` to the `.cfg` of its module, with one user
and `Faults = FALSE` where the module has it.

## 6. What is not modelled

* `check_sock_from_pool`: never called. `RunServer`, `SayHello`, `TimeTest`, the
  commented-out `Syn`: not used, or without state.
* `syn.cc`, `iShare_log.h`: not part of the build.
* `iShare.pb.*`, `iShare.grpc.pb.*`, in `iShare_source` and again in `test_client`:
  generated from `iShare.proto`. They are about four fifths of the lines of the
  repository's implementation, and hold nothing of its own logic. `src/MMGAPN`:
  third-party.
* Push messages, log and mail: output without state.
* `src/Tools`: sequential programs that were run once. `src/test_client`: a
  sample that calls one method.
* In `Requests`, the way of an answer to the client: a row counts as sent when `Write` was
  called. That a lost answer of `Obtain_request` or `Obtain_requestLog` loses its news, as one of
  `Obtain_bills` does, is therefore not among the reasons of `Requests`, and
  `RequestsAnnounced` and `AnswersAnnounced` do not say that a client has got anything.
* Parts of an answer: a call that breaks half-way shows nothing of it in `BillNews` and
  `Friends`, and a client shows an answer when it is complete. The client program is not
  in the repository; that an answer to "all" replaces what it shows and a limited one adds
  to it is an assumption.
* Devices of one user apart: they share the columns of one row, and `view` is what they
  show together. News that one device has fetched and another has not are not
  told to the other by this server, and no property says they are.
* Uploads that overlap, and failures that `Send_Img` does not report: `Images` has these
  steps, and `StoredWhole` and `SentWhole` except what they spoil. The findings name the lines.
* What a memory error does (a result freed twice at `iShare_setting.cc:155`) beyond
  ending the process - a double free is a possible end of the process in `Accounts`, which the
  properties tolerate and do not rule out - and the text of SQL statements.
* `MakePayment` but for its use of its connection: each of its updates sets one
  column of one bill to the value the client sent, tells nobody and may be
  repeated, so there is nothing it could break half-way. The values of the
  settings, device tokens, the search for names: one statement each.

## 7. The plan

The modules that were planned are written, and their safety and action properties are
proved. Worth adding next:

1. that `SqlPool`'s threads may be the handlers: the premise of its `Release` and
   `CheckSqlSockNormal` (a thread has what it releases, and two at most) as a theorem
   about `Connections`;
2. that `News` is at each step one of `NewsStream`, as a theorem, so that the refinement
   of `Synchronism` carries over to it;
3. the facts that the liveness properties rest on and that are no matter of fairness, as
   action properties: what is owed stays owed until it is served.
