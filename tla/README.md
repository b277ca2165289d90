# Verification of the WeChat server

TLA+ modules, TLC runs and TLAPS proofs about the server in `src/socket服务端/`,
a Windows C++ program that answers a WeChat official account and its web pages
(nginx in front of it ends https and forwards http), and mails alarms of
tracked bikes. `PROJECT.json` names the source lines of every definition.

    tlc -workers 2 -config MCThreadPool_pool.cfg MCThreadPool.tla
    tlapm ThreadPool_proofs.tla
    tlapm TaskPool_proofs.tla
    tlapm MessagePath_proofs.tla
    tlapm Connections_proofs.tla
    tlapm Accounts_proofs.tla
    tlapm Handlers_proofs.tla
    tlapm MailSession_proofs.tla
    tlapm Background_proofs.tla

## 1. Inventory

How a request travels:

    client -> nginx -> accept thread -> IOCP worker -> m_SocReUnit (global)
        -> work pool (10 threads) -> HardData on the thread's stack, m_SaveQueueSQL
        -> save pool (20 threads) -> handler (MySQL, web file, WeChat API) -> closesocket

Beside it run the alarm thread (every 5 s), the token thread (every 30 min)
and the console loop of `_tmain`.

| component | state | operations | what is hard | what makes it correct |
|---|---|---|---|---|
| **Thread pools** `MyThreadPool.cpp`, `MyThread.cpp`, `MyQueue.cpp`, `MyStack.cpp`, `MyList.cpp` | task queue, stack of idle threads, list of active threads; task pointer and event of each thread | `addTask`, `SwitchActiveThread`, `threadProc`, `SaveDatathreadProc` | three containers with a lock each and no lock over two of them; callers under a lock that finishing threads do not take | no task lost or run twice, no thread lost or woken at work, no task left beside sleeping threads |
| **Message path** `SocketTCP.cpp:404-474`, `TestTask.cpp:707-782`, `3960-4131`, `SaveQueue.cpp` | `m_SocReUnit`, `m_SaveQueueSQL`, one `HardData` on the stack of each work thread, two locks | `IOCP_Run` (receive), `taskRecClientProc`, `RecClientData`, `SaveClientData`, `taskSaveSQL`, `JieXiWeiXin` | data is passed in globals while a task carries none; overtaking between two pools; aborted receives | a request is answered once, on its own socket, with its own bytes |
| **IOCP server** `SocketTCP.cpp` | completion port, set of contexts, listening socket, worker threads | `Create`, `Listen`, `IOCP_Run`, `closeAllClient`, `Close` | a socket closed by the save thread and again by the worker, handles used again, shutdown of the port and a new start | a context is in one hand and deleted once, the workers stay |
| **Accept and start-up** `socket服务端.cpp` | locks, events, threads | `_tmain`, `socket_accept_thread` | locks initialised after the threads that take them; recovery after a failed accept | no lock is used before it exists |
| **Web accounts** `TestTask.cpp:1161-1541`, `5297-5929` | tables `weixin_user`, `user_bike`, `forget_code`, `unbind_code` | register, change, bind, unbind, make codes | several statements without a transaction, 20 threads, a flag carried over between checks | one account per name, one owner per card, old and new account change together |
| **Device commands** `TestTask.cpp:3172-3775`, `4637-4866` | one row of `set_card_alarm`, `set_motor_lock`, `set_device_open` each | `WX_SetAlarmLock`, `WX_SetTableMotorLock`, `WX_SetTableDeviceOpen` | every command overwrites the same row; name and bikes of the sender are read in two statements | a command that was confirmed stands until a later one replaces it |
| **Alarm mail** `TestTask.cpp:172-202`, `6385-6606` | table `card_alarm` | `WX_CheckAlarmThread`, `Email_Send_CardAlarmToUser` | select, mail and delete are apart; the row deleted is not the row selected; the process may die in between | each alarm that is to be sent is mailed to the owner of its card, and removed once mailed |
| **Mail client** `CSmtp.cpp`, `socket服务端.cpp:694-772` | socket, `m_bConnected`, the place in the dialogue | `Email_SMTP_send_simple`, `Send`, `ConnectRemoteServer`, `SayQuit`, the destructor | a server that refuses, answers late, in parts or not at all; exceptions, of which one leaves a destructor | a mail is accepted whole or not at all, a session ends |
| **Access token** `TestTask.cpp:205-227`, `6015-6183` | global `WX_access_token` | `WX_GetTokenThread`, `WX_GetAccessTokenMsg`; its reader `WX_SendAlarmTemplateMsg` | no lock, no terminating zero | a reader sees one token, the newest |
| **Messages and pages** `TestTask.cpp:423-1159`, `1543-3091`, `4868-5295` | the socket handles of the requests | `JieXiWeiXin`, `WX_GetMsgContent`, `http_send_response`, `WX_PostDataHandle`, `WX_SetMotorLock` and the others that ask for an openid | up to three `closesocket` by the handlers of one handle and a late one by a worker, when another connection may have it; answers in pieces | one reply to each request, to its own client, with what is true |
| **Helpers** `TestTask.cpp:232-251`, `3860-3873`, `4008-4071`, `4914` | none | `DateCompare`, `urldecode`, `GetPostVauleFromKey` | equal times, order of the records | a list shows the newest record of each bike |
| **APP server** `SocketAPP.cpp`, `RecAPP.cpp`, `mSQLSave.cpp` | - | - | - | dead: `_tmain` has its start-up commented out |
| **Libraries** `json`, `OpenSSL-*`, `mysql*`, and the old demo `main.cpp` | - | - | - | not this program's logic |

The hazards of each component, with their lines and the properties aimed at
them, are in `PROJECT.json`.

## 2. Modules

### ThreadPool, TaskPool

`TaskPool` is the promise of a pool: a task handed in by `addTask` is queued,
leaves the queue in order, is begun by one thread and finished once. It does
not promise that a queued task is dispatched, because the code does not.

`ThreadPool` is the code. The variables are the members of the classes:

| variable | code |
|---|---|
| `taskq`, `idle`, `active` | `m_TaskQueue`, `m_IdleThreadStack` (top first), `m_ActiveThreadList` |
| `mTask`, `event`, `tpc`, `hand` | `m_pTask`, `m_hEvent`, the position of each thread, its local `pTask` |
| `lock` | `m_RECdataLock` (work pool) or `mSaveDataLock` (save pool), held by a caller for all of `addTask` |
| `cpc`, `chand`, `cthread` | the position of a caller in `addTask` and its locals |
| `halted` | an `assert` failed; no build configuration defines `NDEBUG` |
| `submitted`, `done` | history: calls made, executions ended |

Every task is the same `CTestTask` object, so a task is named by the number of
its call. A container operation is one critical section of that container and
one action; everything between two of them interleaves. The body of a task
takes and releases the callers' lock once (`BodyEnterLock`, `BodyLeaveLock`).
Left out: `pushFront` (no caller passes `HIGH`; note that the code tests the
constant, `else if(HIGH)`), `GetNewTask` and `destroyThreadPool` (never called).

### MessagePath

Composes the two pools (two instances of `TaskPool`) with the IOCP workers and
the bodies of the two kinds of task. The model numbers the completions in the
order in which they take `m_RECdataLock`; every buffer field holds the number of
the completion it was written from, so a mixed-up message is visible as unequal
numbers, and an interrupted `memcpy` as `Torn`.

| variable | code |
|---|---|
| `link`, `closed` | the pending `WSARecv` of a connection, `closesocket` by the server |
| `recData`, `recLen`, `recSock`, `recLock` | `m_SocReUnit`, `m_RECdataLock` |
| `kpc`, `klen`, `ksock` | a work thread and the arguments of `RecClientData` |
| `slotData`, `slotSock` | `mdata` of `SaveClientData`; it outlives the call, for its address is queued |
| `saveQ`, `saveLock` | `m_SaveQueueSQL`, `mSaveDataLock` |
| `spc`, `sptr`, `ssock`, `sdata` | a save thread, `pd`, and `sClient`, `WebData` of `JieXiWeiXin` |
| `replies` | history: which message was answered with which bytes |
| `oneAtATime` | chosen at the start: clients act at any time, or only when all that the last act caused is over (`Settled`) |

Facts of the environment it relies on:
- `closesocket` on a socket with a pending overlapped receive makes
  `GetQueuedCompletionStatus` return `FALSE` with 0 bytes and the key. The tests
  at `SocketTCP.cpp:346-399` do not cover that combination; the worker goes
  on to `RECV_POSTED` and passes on an empty message (`Receive`).
- A compiler for x86 reads the arguments `SocketNum, RecData, DataLen` from
  right to left. The properties that hold do not depend on it: the bytes are
  copied after both.
- The stack memory of `mdata` keeps its content until the same thread enters
  `SaveClientData` again. Frames in between are smaller than the 100 kB local
  of `RecClientData` that lies above it.

Not in the model: which handler answers (`Handlers`; here each ends in one
`closesocket`), the content of a request, a handle used again for a new
connection (`Connections`, `Handlers`).

### Connections

The life of a connection: the accept thread makes an `IOCPContextKey`, puts it
in the set and posts the first receive; the workers take the completions; save
threads close the socket of every message they answer; a failed accept leads to
`closeAllClient` and a new start. A message between the worker and the save
thread, which is the subject of `MessagePath`, is one pending answer here.

| variable | code |
|---|---|
| `ctx`, `keys` | the `IOCPContextKey` of a connection, `m_setIOCPKEY` |
| `port` | the queue of `m_CompletionPort` |
| `wpc`, `wkey` | a worker in `IOCP_Run`, and its `pIOCPContext` |
| `apc`, `listening` | the accept thread in `socket_accept_thread` and `closeAllClient`; whether `Create` and `Listen` succeeded |
| `jobs`, `ends` | messages on their way to or in a handler; messages whose handler has returned, before `closesocket` in `JieXiWeiXin` |
| `sock`, `owner`, `peer`, `pend` | the system: the handle of a connection, what a handle stands for, the other end, the pending receives |

Facts of the environment: completions are handed out in the order of their
queue; `closesocket` aborts the pending receives, each of which completes with
`FALSE`, 0 bytes and the key, and so does a broken connection; the end of a
connection completes with `TRUE` and 0 bytes; a completion carries the key of
the socket the receive was posted on; the system may give a closed handle to the
next connection at any time.

The last is what makes this hard, for a worker posts the next receive by handle: on a
handle given again it posts it for the new connection. The two are then `crossed`, and
about a crossed context the program promises nothing (`conn_stalekey`); the properties say
what it does promise about all others, and what can lead to a deleted one.
`crossed`, and `forgotten` for a first `WSARecv` that failed, are history: no guard reads
them. A context that has been deleted is taken to keep its content until the
worker that holds it is done; `Handlers` does not assume that.

Note the two `break`s in `TestSet`: after the end of a connection
(`SocketTCP.cpp:381`) it leaves the worker's loop, after an error of `WSARecv`
(`SocketTCP.cpp:455`) it leaves only the `switch`. Handlers either close the
socket themselves (`WX_GetMsgContent`) or leave it to `JieXiWeiXin`
(`http_send_response`); `JieXiWeiXin` closes it in both cases. Not in the model:
the branch `SEND_POSTED`, which no completion reaches since no `WSASend` is
posted, and the use of one `OVERLAPPED` for all receives.

### Accounts, AtomicAccounts

`AtomicAccounts` is what a user of the pages is promised: registering, asking
for a code, changing the account and binding a card each happen as a whole or
not at all, names are unique, a card has one owner, a code serves once.

`Accounts` is the code: twenty save threads, each with a connection of its own
to MySQL, no transactions. One action is one SQL statement and what the handler
does with its result; any statement may fail.

| variable | code |
|---|---|
| `user`, `bike` | rows of `weixin_user` and `user_bike`; `by` is the request that wrote the row, for the properties |
| `code` | `forget_code`, `unbind_code` |
| `command` | `set_card_alarm`, `set_motor_lock`, `set_device_open`; `card_id` is the constant 12345, so each has one row |
| `arg`, `at`, `found`, `ret` | the parameters of a request, the statement it has reached, the user name it has read, what its handler returned |
| `failures` | statements that have failed |
| `met` | history: pairs of requests that were under way together |
| `orderly` | chosen at the start: `TRUE` restricts who comes when (`Orderly`), as users do who use the pages one by one |

Facts it keeps: a `SELECT` without `ORDER BY` may give any row; the age of a code
must lie between 0 and 300 seconds, both excluded, so that a code there is may
always be refused; binding does not notice that the account is missing, for
`getsucess` is still `TRUE` from the statement before (`TestTask.cpp:5835`); the
name of a change is not looked for. Each exception in the properties is one of
these, or requests under way together, or a failed statement. Under `orderly`
none of them applies and `Accounts` implements `AtomicAccounts`: a change takes
effect with its first update.

Not in the model: a request that gets no connection to the database (it returns
with nothing done), missing form parameters, and the closing of connections: a
registration that is refused (`TestTask.cpp:5394`) leaves its own open.

### Mailer, MailSession

`Mailer` is what `Email_SMTP_send_simple` promises its caller: when it returns, it does so
without a word on whether the server took the mail; the server may take it
later; or the process ends, and then the mail was taken. It does not promise to return.

`MailSession` is the dialogue: the client sends a command, waits for the reply,
throws when it is not the valid one, when none comes in time or when the
connection fails.

| variable | code |
|---|---|
| `phase`, `step` | where the client is, and the command of `command_list` it is at, `QUIT` the last |
| `connected`, `threw` | `m_bConnected`; an exception has been caught and `DisconnectRemoteServer` called |
| `toServer`, `toClient` | the two directions of the connection |
| `part` | a part of a reply or of the handshake has come |
| `server`, `body`, `accepted` | the server (external): what it is doing, the data read, the mails it has taken |

The server may refuse any command, answer after the client has given up, in
parts, or not at all. `ReceiveResponse` calls `ReceiveData` until a last line has
come, and each call, like each turn of the loops of `ReceiveData_SSL` and
`OpenSSLConnect`, waits for `recv_timeout` anew (`CSmtp.cpp:2205`, `2101`): `part` says
that something has come which is not the whole, and `ReceivePart` takes it and
waits again. So a session ends unless the server goes on with parts for ever
(`HeldByParts`). A `connect` that succeeds at once makes `ConnectRemoteServer` return
before greeting and login (`CSmtp.cpp:817`). `DisconnectRemoteServer` sends QUIT,
also into the data of a mail that broke off; thrown from the destructor, its
exception ends the process. Not in the model: TLS but for its failure and the waits
of its handshake, MIME and base64, attachments, logins other than `AUTH LOGIN`, and whether the socket is
closed (it is not when QUIT fails).

### AccessToken

The buffer `WX_access_token` without a lock: its front, where every token has
bytes, and its back, where only the long ones have. `tpc`, `signal` are
`WX_GetTokenThread` and its event, `rpc`, `gotFront`, `gotBack` the formatting of the
token into a request. The copy has no terminating zero, so after a short token
the end of a longer one stands; `ReadIsNewest` names that case, and the read
during a copy.

### Background

Composes the alarm thread over the table `card_alarm` with `Mailer` (whose steps
it takes while in the mail) and `AccessToken` (read for the push), with
statements that fail, and the death and restart of the process.

| variable | code |
|---|---|
| `owned` | cards in `user_bike` |
| `alarm`, `rows` | all alarms raised; those still in `card_alarm` |
| `apc`, `list` | the thread; the rows of its `SELECT` it has still to go through |
| `tried`, `mailed` | history: mailed or found without owner; mails accepted |
| `deaths` | how often the process has died |

The `SELECT` has the rows in the order of `card_id`, the number of the row
(`InOrder`). `DELETE ... ORDER BY time LIMIT 1` removes the oldest row of the card,
any of the oldest when times are equal. The return -5 of
`Email_Send_CardAlarmToUser`, for an `email` that is no string, is left out: `getNullStr`
makes a string of whatever the row holds, so it is not reached.

### Handlers

What becomes of a request in the save thread, from `JieXiWeiXin` on: the handler
is found, replies or does not, and the handle is closed by the handler, by
`WX_GetMsgContent` and by `JieXiWeiXin`, and in the end by the IOCP worker whose
receive was aborted or failed, while the system gives a closed handle to the
next connection.

| variable | code |
|---|---|
| `pc`, `kind` | where the thread of each request is; which of the handlers it has come to |
| `sock`, `owner` | `sClient`; the connection a handle stands for |
| `got` | what has come to each client, and from which request |
| `cut`, `left` | history: connections closed by another's handler or worker, or by `closeAllClient`; clients that left |
| `pend`, `again`, `closing` | receives pending on a connection; completions of a context after which a worker posts the next receive, and those after which it closes and deletes |
| `deleted` | contexts deleted |
| `data`, `list` | records of the bikes as read, and as merged for the reply |
| `silent`, `stored`, `pieces` | nothing to answer with; orders in the table; pieces of the WeChat server's answer without an openid |

Handlers of one shape are one kind: the three lists by name, the two requests for
a code, the three orders. `Merge` is one turn of the loop of the lists by name, with
`DateCompare`, and `Merged` the loop. The statements of the handlers are in `Accounts`; here a statement
succeeds or fails where the reply depends on it. A handle closed once too often may also be
one of the server's other sockets (to MySQL, to the WeChat or mail server): left
out, the model has client connections only.

The workers are those of `Connections`, without the order of the port, which does not matter
here: a completion is a number beside its context. `Leave` is the client alone; the
worker comes later (`WorkerCloses`), closes `clientSocket` of the context whoever has
that handle by then, and deletes the context. It comes after every request, for the
`closesocket` of its handler aborts the pending receive, and the next `WSARecv` (`Post`)
fails, or is posted on the connection that has the handle now. Of a context deleted
before, `clientSocket` may read as any handle (`HandleOf`). `CloseAll` is `closeAllClient`
once the workers have gone. A request that is answered on a connection which
another's handler or worker closes is in `cut`. That the set of contexts is not empty when a
worker looks is `WorkersStay` of `Connections`. A bound: a client sends one request on a
connection.

## 3. Runs

| run | question | bounds |
|---|---|---|
| `pool` | types; every task in one place; `addTask` pops a thread that is parked; every thread accounted for; `ThreadPool` implements `TaskPool`; a task is run unless the process aborts or all threads park beside it; such a backlog is worked off after the next call | 2 threads, 2 callers, 6 calls: queue longer than the pool, both callers waiting, threads reused, a backlog of two before the next call |
| `pool_assert` (violated) | the assert in `assignTask` | 2 threads, 1 caller, 3 calls |
| `path_safety` | types and critical sections; no socket answered with older bytes; one queued pointer for each save task; requests sent one at a time are each answered once, with their own bytes | 3 connections, 1 IOCP worker, 2 work and 2 save threads; 2 events at any time or 3 one at a time, and the aborted receives they cause |
| `path_queued` (violated) | the comment that queued data is safe under the lock | 2 connections, 2 IOCP workers, 1 work thread |
| `conn_safety` | types; each context that was not crossed in one hand; a completion or worker has a deleted context only after two were crossed; no worker leaves by itself | 3 connections at a limit of 2 on 2 handles, 2 workers, 2 messages, 1 failed accept |
| `conn_liveness` | `closeAllClient` ends; contexts of closed sockets are deleted, sockets of deleted contexts closed | 2 connections on 2 handles, 2 workers, 1 message, 1 failed accept |
| `conn_stalekey` (violated) | the comment that the key points to an instance | 2 handles, 3 connections, no failed accept |
| `accounts` | types; a card bound once, a name taken once, a code used once; what a user was told stands; bikes have owners; orderly use is atomic | 2 users, names and cards, 3 requests, 2 at a time, 1 failed statement, at most 1 account at the start |
| `mail` | types; a mail accepted whole; replies read in step; `MailSession` implements `Mailer`; a session ends unless parts come for ever | 5 data blocks, one session after the other |
| `alarms` | types; no alarm to be sent is deleted untried; none mailed twice without a reason; the token read is the newest; every alarm goes unless a mail or a push never returns | 1 card, 2 alarms, 1 failed statement, 1 death |
| `alarm_deleted` (violated) | the comment that the alarms which were pushed are deleted | 1 card, 2 alarms |
| `requests` | types; who is answered, how often and by whom; whether anyone is left without an answer; the page tells what was stored; a list shows the newest records | 1 handle; 3 requests for codes or with orders, one of a client that sends nothing, or 1 of any other kind; 2 bikes, 2 names, 2 times, 1 piece |

What the violated runs show:
- *assert*: a finishing thread sees one task in the queue; before it pops, the
  caller of `addTask` finds a thread idle and pops that task; the finishing
  thread pops `NULL` and the assert in `assignTask` ends the process.
- *queued*: a work thread writes its next message over the `HardData` whose
  address it queued, before the save thread has read it.
- *stalekey*: a save thread closes the socket of a context whose worker is about
  to post the next receive, and the accept thread is given the same handle for
  a new connection: the receive is posted there. The new context has two receives pending;
  after the first of them to end it is deleted, and the second completes with
  its address. That this is the only way to a deleted key is what `conn_safety` shows
  (`DeletedKeyWasCrossed`).
- *alarm_deleted*: a card has an old row with `send = 0` and a newer one with
  `send = 1`; the newer one is selected and mailed, the older one is deleted, and
  the newer one is there to be mailed again five seconds later.

What the passing runs allow by name, because the code does it:
- `RunOrLeftBehind`: a finishing thread sees an empty queue, `addTask` pushes and
  finds nobody idle, the thread parks, and the task waits for the next call. So
  the comment that a thread parks only when the queue is empty is not to be
  relied on; `BacklogDrains` says what is.
- `EachAnsweredOnce` holds when a client waits until the aborted receive of the
  request before has also gone through. A client that only waits for its answer
  is not covered: the empty message of the connection before can overwrite its own.
- `OneHandler`, `NothingLeaks`: the first `WSARecv` fails (its result is ignored,
  `socket服务端.cpp:136`) and the context stays in the set until `closeAllClient`, in nobody's
  hand; and connections that were crossed. `WorkersStay` has no exception.
- `CardBoundOnce`, `NameTakenOnce`: two requests under way together can both find
  the card or the name free; a change of account does not look at all.
- `BikesHaveOwners`: a card bound to a name without an account; a change that
  stopped between its two updates.
- `RepliesInStep`: a late reply is taken for the answer to QUIT, and the greeting
  for the answer to MAIL after a connect that succeeded at once.
- `TriedBeforeDeleted`, `MailedAgainForReason`: alarms of the same time, failed
  statements, the death of the process, a row that was not to be sent.
- `SessionEnds`, `EveryAlarmGoes`: a server that sends parts for ever (`TIME_IN_SEC` bounds
  the wait for one part; `COUNTER_VALUE`, "how many times program will try to receive
  data", is not used), and for the alarms the
  same of the mail as a whole and of the push, whose receive has no timeout.
- `AnsweredOnce`: each piece of the WeChat server's answer without an openid sends
  `wxshibai.html`, and the piece that has it sends the page after all.
- `StrayedAfterClose`, `ServedOrClosed`: a second `closesocket` of a handler, or the one of a
  worker that comes later still, closes the connection that has the handle by then; `closeAllClient`
  closes those of requests under way; a client leaves. A reply goes astray or
  a client goes without only in these ways, or for want of something to answer with: never
  because its own handler or worker closed too early.

Bounds. Each is a constant of its module.
- `MaxCalls` (calls of `addTask`): with two threads, two calls put both to work,
  two more make a backlog, a fifth wakes a thread, and a sixth meets it on its way.
  What does not depend on liveness is proved for every number of threads and calls.
- `MaxEvents`, `MaxTurns` (clients act, by sending or `Reset`, while fewer
  completions are known). Two connections are enough to mix two messages,
  and an aborted receive gives each one a second completion; a mixture of three
  adds no new pair; the third is for requests one at a time. Two threads of a
  kind are enough for two to be between any two steps. One IOCP worker suffices
  in `path_safety`, for workers write under one lock, in the order of which
  messages are numbered; the other runs have two.
- `MaxAccepts`, `MaxSends`, `MaxRestarts` (connections, messages, failed accepts)
  and `MaxKeys` (`MAX_HARD_TCP_NUM`, 10000 in the code): a third connection is
  needed to be refused at the limit, two workers to be at two connections at
  once, or one at a handle the other has just closed; a second failed accept
  would start from the same state as the first.
- `NumThreads`, `MaxRequests`, `MaxFailures`, `MaxUsers` of `Accounts`: two requests
  under way make every pair of statements interleave; the third follows on what
  two have left behind, such as a change that asks, changes and changes again.
  One command table stands for the three, which share no row.
- `NumBlocks`: the first, the last and inner blocks of a mail.
- `MaxAlarms`, `MaxFailures`, `MaxDeaths` of `Background`: two alarms of a card are
  needed for the row deleted not to be the row mailed. Cards are independent:
  every statement names one. With three alarms the invariants hold too (1.85
  million states).
- `MaxBikes`, `MaxTime`, `MaxPieces`, `Kinds` of `Handlers`: two records of a bike in
  either order and of equal or different time; one piece before the answer. A handle used
  again needs two connections, a third to be hit by the late closes of both. `Kinds` are the
  kinds of which there may be several requests, any other comes alone: requests for codes and
  orders are between them answered by a handler that closes, by one that leaves it to its
  caller, late, in pieces, and not at all. The others go the same ways, and the proofs, for
  any `Kinds`, have them beside each other too.

Symmetry is used for what has no order: connections and workers, users, names
and cards, requests and handles; never in a run with a liveness property, nor for
pool threads, whose stack has an order.

Deadlock is checked except where the system may stop because its input is
bounded: `accounts`, `requests` (no more requests), `alarms`, `alarm_deleted` (no
more alarms, or the process is down for good).

Fairness. The Windows scheduler runs every ready thread, so each thread's step
is weakly fair.
- `ThreadPool`: each thread and each caller; entering the callers' lock too,
  although a critical section is not handed over in order: the number of calls
  is bounded, so a waiting thread cannot be overtaken for ever. `EnterLock` fair
  means that clients go on sending until the bound, which is what "another call
  arrives" in `BacklogDrains` needs.
- `Connections`: each worker, each save thread and the accept thread while it has
  something to do of itself. For save threads this assumes that handlers return,
  that is, that the database and the WeChat server they call answer or close.
  Nothing is assumed of clients, and no accept need ever come or fail.
- `MailSession`: the client only. It waits in `select` with a timeout, so that its
  next step is always enabled; nothing is assumed of the server, which may keep it waiting
  by sending parts.
- `Background`: the alarm thread while it depends on nobody (`AlarmThreadAlone`). That the
  mail and the push return is not assumed: either may hold the thread for ever, and
  `EveryAlarmGoes` names both. Of the statements only `MaxFailures` fail, so that a `DELETE`
  that is tried again succeeds in the end.

No property of `MessagePath`, `Accounts` and `Handlers` is a liveness property.

## 4. Proofs

Every property of a passing run is also a theorem, for all values of the
constants, but for the six that are liveness properties (see the end of this
section). A module of proofs assumes what its component's `ASSUME` says, and
nothing else unless said below. A property is seldom inductive by itself; each
part below says from which inductive invariant it follows.

### ThreadPool, TaskPool

From `ThreadPoolAssumption` (at least one thread; callers, threads and the free
owner are different):

| theorem | property |
|---|---|
| `TypeCorrect` | `TypeOK` |
| `PoppedThreadParked` | `PoppedThreadIsParked` |
| `ThreadsAccounted` | `ThreadAccounted` |
| `TasksInOnePlace` | `TaskInOnePlace` |
| `PoolRefinement` | `ImplementsTaskPool`: `ThreadPool` implements `TaskPool` |
| `OnePlaceAlways`, `FifoQueueAlways` (`TaskPool_proofs`) | a task of `TaskPool` is in one place; its queue has the order of the calls |

For `ThreadPool` two strengthenings are proved, in order:
1. `ControlInv`. `LockInv`: the lock's owner is the one caller inside `addTask`,
   or the one body inside its section; `CallerInv`: what a caller holds in each
   position, and that a stack found not empty stays so until it pops;
   `ThreadInv`: what a thread holds in each position; and `ThreadAccounted`. The
   last is what makes a popped thread a parked one.
2. `TaskInv`, on top of it. `QueueInv`: the queue holds the last calls, in
   order; `HolderInv`: no two hands hold one task, and none that is queued or
   done; `Held`: a task that has left the queue is in a hand or done. It gives
   `ExactlyOnePlace`, and with it each step is mapped to a step of `TaskPool`:
   a push to `Submit`, a pop by either consumer to `Dispatch`, `Wake` to `Begin`,
   the end of a body to `Finish`, all others to stuttering.

`TaskPool_proofs` proves the promise itself from `PoolInv`: the queue is the last
calls in order, and what is off it is dispatched, running or done, in one of the
three. Its lemmas about the four actions are used again below, for the two pools of
`MessagePath`.

### MessagePath

From `MessagePathAssumption` (at least one thread in each pool; the values
`Torn` and `Free` are none of the others):

| theorem | property |
|---|---|
| `TypeCorrect` | `TypeOK` |
| `NeverOlderBytesAlways` | `NeverOlderBytes` |
| `SaveTaskPerDatumAlways` | `SaveTaskPerDatum` |
| `EachAnsweredOnceAlways` | `EachAnsweredOnce` |

`PathInv` follows a message through its stations. `RecInv`: with the lock free,
`m_SocReUnit` is all of the newest completion and there has been a work task for
every completion; with the lock held, its owner is at the newest one, and the
fields are of that or of the one before according to its position. `WorkTasks`
and `SaveTasks`: both pools keep `PoolInv`, and a thread that is not parked runs
a task. `SlotInv`: the bytes of a `HardData` are never older than its socket,
which is so because a thread reads the length and the socket first and copies the bytes
last; and what is in the queue has a socket. `SaveInv`: what a save thread has
read is therefore not older either.

`SaveTaskPerDatum` counts: a push comes before its call of `addTask`, both under
`mSaveDataLock`, and each save thread pops once for each task it runs (`Popping`).

`EachAnsweredOnce` is about messages that come one at a time. `Serial` adds the
premise that under `oneAtATime` the system is in one of the phases that a single
message goes through (`Phase`: at rest, with a worker, waiting for a work
thread, with one, stored, handed over, waiting for a save thread, with one), in
each of which all other threads rest and both queues hold nothing else, and
that the replies so far are sound (`RepliesSound`). The receive that the reply
aborts is the next to go through.

### Connections

From `ConnectionsAssumption` (there are finitely many workers):

| theorem | property |
|---|---|
| `TypeCorrect` | `TypeOK` |
| `OneHandlerAlways` | `OneHandler` |
| `DeletedKeyWasCrossedAlways` | `DeletedKeyWasCrossed` |
| `WorkersStayAlways` | `WorkersStay` |

Nothing is assumed of the handles the system gives. `ConnInv` is about the contexts that
were not crossed. `OwnerInv`: an open socket is that of the connection which was given
its handle last. `PlaceInv`: a context is in one place, a pending
receive, a packet in the port or the hands of a worker, unless it is not made yet,
deleted or forgotten, and then it is in none. It holds because the worker that posts
the next receive has the only claim on its context, and posts it for another connection
only by crossing the two. `KeysInv`: the set holds the live contexts but for
those that a worker is about to delete.

`WorkersStay` holds for crossed connections too, which `ConnInv` says nothing of, so it has an
invariant of its own, `StayInv`. A crossed context may have several receives, or none, and the set may
lack it; but whoever comes from a receive towards the set, a pending receive, a packet or
a worker before `Erase`, can be given a context of its own that is still in the set
(`EachHasAKey`, an injection). A worker that looks at the set therefore finds at
least its own there. Only a worker told to end, while `closeAllClient` waits,
is gone (`ExitInv`).

### Handlers

From `HandlersAssumption` (`None` is neither a request nor a handle), for any
requests of any kinds, and any numbers of handles, bikes, times and pieces:

| theorem | what |
|---|---|
| `TypeCorrect` | `TypeOK` |
| `StrayedAfterCloseAlways` | `StrayedAfterClose` |
| `ServedOrClosedAlways` | `ServedOrClosed` |
| `DoneIsClosedAlways` | a request that is over has no connection open |
| `AnsweredOnceAlways` | `AnsweredOnce` |
| `PageIsTrueAlways` | `PageIsTrue` |
| `ListShowsNewestAlways` | `ListShowsNewest` |

1. `SocketInv` says who has which handle (`HandlesFit`); what the workers have of a
   connection (`WorkersFit`): while its client is there and its handler has not closed
   it, nothing of its own context is about to close it; that up to a handler's own first
   `closesocket` its connection is open, or its client has left, or another has closed it
   (`OpenBefore`: a reply is sent only there, which is what keeps it from going
   astray otherwise); and that behind it the request has been answered or is known
   not to be (`ServedAfter`). The actions are first sorted by what they do to the
   sockets (one that answers, one that gives up, one that goes on, one that
   closes), and the invariant is proved for each sort, for `Arrive`, `Send` and `Leave`, and
   for the workers' `Post`, `WorkerCloses` and `CloseAll`, the close of a handle being one lemma
   for whoever does it.
2. `RepliesInv`, on top of it. `SpokenAfter`: who has sent something is done with
   its reply, or has told of a piece of the WeChat server's answer;
   `CountedReplies`: there is at most one reply for each piece, and one more when the
   handler is behind it; `TrueSoFar`: the page that answers an order says whether
   it is in the table, where nothing is put later (`OrderAsks`).
3. `ListsInv` adds `ListTypes` and `ListShowsNewest`. What `Merged` computes is shown
   by induction over the number of records taken so far: the names merged are those
   of these records, each once, each with a record that none of them is newer
   than. The lemma `EveryNatural` states the induction for a set of naturals, for the
   library's theorem takes an operator and cannot be instantiated here; it follows
   from the library's `WFMin`.

### Accounts

From `AccountsAssumption`, for any users, cards, requests and threads and any
number of failing statements. It asks that the empty value is no name, token or card,
and that the numbers of requests are not names, for rows there at the start are
known by their names and others by the request that wrote them:

| theorem | property |
|---|---|
| `TypeCorrect` | `TypeOK` |
| `CardBoundOnceAlways` | `CardBoundOnce` |
| `NameTakenOnceAlways` | `NameTakenOnce` |
| `CodeUsedOnceAlways` | `CodeUsedOnce` |
| `ConfirmedStandsAlways` | `ConfirmedStands` |
| `BikesHaveOwnersAlways` | `BikesHaveOwners` |
| `AtomicRefinement` | `ImplementsAtomic`: orderly use implements `AtomicAccounts` |

The types need to know which handler a statement belongs to (`KindAt`), for only
some requests bring a card or a name. All others rest on `OrderInv`: requests
are numbered as they begin, a request meets all that begin while it is under
way, and every row was written by a request that had begun.
- `CardsInv`: while a request is about to insert a card it found free, whoever has
  bound that card since is one it has met; `NamesInv` says the same of names. A
  change of account renames without looking; what it overwrites is older than
  it, or was written by a request it has met.
- `CodesInv`: a code in the table was given to its user by a request that is over
  and later than every change the user has made (`GivenInv`), and a change that
  has looked its code up was given one later than the changes before it
  (`UsedInv`). So two changes with one code were under way together.
- `StandsInv`: what a user was told stands, or a later request of the kind that
  replaces it has come. A code about to be written over may have been used
  meanwhile, by a change of the same user (`CodeStandsInv`).
- `OwnersInv`: ids are of one account (`IdsInv`), the name a change has read is the
  name the account has until it renames it (`ReadInv`), and the name a card is bound
  to was there or a change took it away (`BindingInv`); the exceptions are carried along
  by name.
- `OrderlyInv`: under `orderly` the tables are `Tidy`: rows differ in token, name and card,
  requests under way have no user, name or card in common, what a request has
  seen stays true until it has used it (`Seen`), and every bike is its owner's or is
  about to be moved. Each step is then mapped to one of `AtomicAccounts`: the `INSERT` of an
  account to `Register`, that of a code to `Ask`, the first update of a change to
  `Change`, the `INSERT` of a bike to `Bind`, all others to stuttering.

### MailSession

From `MailAssumption` (a mail has at least one block, the header):

| theorem | property |
|---|---|
| `TypeCorrect` | `TypeOK` |
| `AcceptedWholeAlways` | `AcceptedWhole` |
| `RepliesInStepAlways` | `RepliesInStep` |
| `MailerRefinement` | `ImplementsMailer`: `MailSession` implements `Mailer` |

That a mail is accepted whole rests on what is on its way to the server, so the
inductive invariant `SessionInv` has three forms, for what the server has got to.
`BeforeData`: nothing behind DATA is on its way but a QUIT, and nobody has told the
client to go on. `DuringData`: what has been read and what is on its way, one
after the other, are the blocks and the end without a gap, as far as the client
has got, with at most a QUIT at the very end; the end is therefore read only
behind all the blocks, and a QUIT becomes data behind which nothing comes.
`AfterData`: only a QUIT can follow. The client's actions are first sorted: what
it does on an exception (`Thrown`) and on the valid reply (`Proceeds`).

`StepInv` is about the replies. While the client is at a step before QUIT
(`InStep`), the two directions are empty when it sends, and hold the command or its reply
when it waits; the exception is the greeting after a connect that succeeded at
once (`AtOnce`), which fails the first command. `Ended`: a client that quits without
having caught an exception, or dies, has had its mail accepted; so a return of the client
is one of `Mailer`, and the end of the process too.

### Background

From `BackgroundAssumption` (the bounds are naturals), for any cards:

| theorem | property |
|---|---|
| `TypeCorrect` | `TypeOK` |
| `TokenReadIsNewestAlways` | `TokenReadIsNewest` |
| `TriedBeforeDeletedAlways` | `TriedBeforeDeleted` |
| `MailedAgainForReasonAlways` | `MailedAgainForReason` |

`TokenInv`: while nothing is copied the buffer is the newest token, but for the
end of a longer one. `AlarmsInv` is about the table. `ListInv`: what is left of the
`SELECT` is in order and without gaps. `CoverInv`: each row still to go through
can be given a row of its own that `DELETE` may take for it, of its card and not later; so
`DELETE` never runs ahead of the mails by more than the ties. `SkippedInv`: an
alarm that went by untried cost a failed statement, and no two the same one.
`MailedInv`: an alarm gone through whose row is still there has a `Reason` for it:
a failed statement, a death, or another row of its card, not later, that was taken in
its place and was not to be sent or has the same time.

### Only model-checked

`ShutdownEnds` and `NothingLeaks` (`Connections`), `BacklogDrains` and
`RunOrLeftBehind` (`ThreadPool`), `SessionEnds` (`MailSession`) and
`EveryAlarmGoes` (`Background`): they need fairness, and with it `ENABLED`, which the
proof system does not handle. They stay with TLC, on the bounds above.

## 5. Not modelled

- The order in `_tmain`, which starts the accept thread and the workers before it
  initialises the two locks they take: it matters in the first instants only.
- Formatting and parsing: the text of messages and pages, MIME, base64,
  `urldecode`, `GetPostVauleFromKey`; the lengths of replies (the one to `echostr` has
  a body two bytes longer than its `Content-Length`, `TestTask.cpp:836`).
- Returns for want of a connection to the database or of a form parameter, which
  come before anything is done.
- A request that comes in two segments; the shared `OVERLAPPED`; a double
  `mysql_close` (`TestTask.cpp:1503`); what the MySQL library does when it is ended by one
  thread while others use it.
- Dead code: the APP server (its start-up is commented out), `WX_check_userID`,
  `WX_Send_SetCardAlarm`, `WX_Send_CardAlarmToUser`, `ResponseNewsMsg`, `WX_AddCustom`,
  `http_req_send`, `SaveHardStateInfo`, `SaveGPSData`, `SaveBaseStationData`,
  `FindByteBuff`, `DataS_Compare`, `GetNewTask`, `destroyThreadPool`, the branch
  `SEND_POSTED`; and `main.cpp`, an old demo that is not built.
- The vendored libraries (JsonCpp, OpenSSL, the MySQL headers), which are most
  of the lines of the repository.

## 6. Plan

1. **Startup**: the order in `_tmain` against the threads it has started.
2. Proofs: the parts of the liveness properties that are safety: that a thread of
   `ThreadPool` which is not parked has an action to take, and the same of the
   client of `MailSession`.
