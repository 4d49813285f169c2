# A TLA+ model of CxxDBC

CxxDBC is a C++ database client with one API for MySQL, PostgreSQL, Oracle and SQL Server/Sybase.
An application uses `EConnection`, statements and a connection pool. A connection either calls a
database plugin in its own process (direct mode) or speaks a small package protocol over a socket to
`lite_dbproxy`, which runs the plugin for it (proxy mode). The repository's own code is about 8,500
lines; the rest is vendored (Tars RPC, driver headers).

This directory holds TLA+ modules for its concurrent and stateful parts, TLC configurations that check
them on small instances, and TLAPS proofs for every size of the instance.

## The system

| Component | State | Operations | Talks to |
|---|---|---|---|
| Connection pool (`EConnectionPool`) | `idleConnections` (blocking FIFO), `allConnections` (array with capacity), `lock`, `closed` | `getConnection`, a handle's `close`, `close` | many application threads share it; it owns `EConnection`s |
| Connection (`EConnection`) | `isConnected`, `autoCommit`, parameters | `connect`, `close`, transactions, savepoints, large objects | one `EDBHandler` |
| Wire client (`EDBHandler`, `S2R`) | a socket, or a plugin object | one request and its reply at a time, with uploads and downloads | the proxy, byte streams |
| Proxy session (`DBProxyServer::onConnection`) | `database`, the request at hand, a channel | a fiber reads requests, an executor thread runs them and uses the same socket for streams | client, plugin |
| Proxy process (`main.cpp`: `doAction`, `startDBProxy`) | pid file, listening socket, signal handlers | start, restart, stop, kill | other processes of itself, by signals and the pid file |
| Plugin base (`EDatabase`) | `m_AutoCommit`, `m_CursorID`, error | dispatch by message type, savepoints as SQL | the four plugins |
| Plugins (`EDatabase_pgsql`, `_mysql`, `_oracle`, `_freetds`) | driver connection, current result | execute, batch update, fetch, commit, large objects | the database |
| Statements and result sets | the request under construction, the current result set, cursor id | `execute`, `getMoreResults`, `next`, `close` | a connection |
| esql, metadata, tests | | | the API |

How they interact: the application's threads meet in the pool's queue and lock. A connection and the
proxy meet on two byte streams on which packages carry no number. Within the proxy, the fiber waits on
a channel for the executor, and both use the socket, never at once. The mode of a transaction exists
three times, as a flag of the client's object, as a flag of the plugin, and in the database.

What is hard, and what correctness means there:

* **Pool**: interleavings of `poll`, the size test, `connect` under the lock, `take` and `reclaim`;
  exceptions in `connect` and in the middle of `close`. Correct: a physical connection has one owner,
  none is lost, the capacity holds, a waiting thread has something to wait for, settings do not leak
  from one borrower to the next, and the pool never stalls.
* **Proxy session**: replies paired by order only, streams abandoned half way by either side, timeouts
  between a head and its body, exceptions that skip the channel. Correct: a call gets the reply to its
  own request, a stream arrives whole and in its place, calls return, sessions end.
* **Transactions**: three copies of one mode, savepoints, failing statements, lost connections.
  Correct: the copies agree, what the application was told is undone is never committed and what it
  was told is permanent is.
* **Result sets**: stale cursor ids, stale result sets of a statement, failed fetches. Correct: rows
  come from the statement's own result, each once, and a failure is not an end.
* **Batch updates**: numbers of results that are counted by the plugin and told by nobody, streams that
  are paired with rows by order. Correct: result *i* is about SQL *i*, a row gets its own streams.
* **Process**: restart over the pid file while sessions drain, signals that arrive before a server is
  ready. Correct: the pid file names the server, a stop reaches it and cuts no session, a restart comes
  to serve.

`PROJECT.json` lists these hazards at their lines, with the properties that watch over them.

## The modules

### ConnectionPool

Threads are in positions of the code (`pc`): before the lock, in `connect`, in `take`, with a handle,
between restoring the parameters and `reclaim`, in the pool's `close`. A step is what happens between
two points at which another thread can be seen: a queue operation, entering or leaving `SYNCBLOCK`,
the end of a connect, a request or a reply. `call` is the request a thread waits for: `S2R` takes no
lock. `link` is the state of a connection's socket; `Reply` may break it and the code keeps it.

`EReentrantLock`, `ELinkedBlockingQueue` and `EArrayList` come from CxxJDK, which is not in this
repository; they are used through their documented behaviour (a mutual exclusion lock, an atomic FIFO,
an iterator). `allConnections` is a set since its order decides nothing; `close` visits it in any order,
which includes the code's.

`Busy` distinguishes applications. With `Busy = TRUE` they close the pool at any moment and use a
statement after the handle it was created from. With `FALSE` they do neither, as the repository's tests
(`test_connect_pool`). The properties of ownership and capacity hold for both, `OneRequestPerConnection`
and `ClosedPoolIsClosed` for the second kind only: nothing in the code stops the first.

### ConnectionLeases

What a pool promises, without queue, lock or sockets: connections made, leased to at most one caller,
made at most `MaxConns` times, and a caller is refused only while one could still have been made.
`ConnectionPool!ImplementsLeases` maps `made` to `all`, `lease` to `handle` and `asking` to the threads
between a missed poll and their answer.

### ProxySession

One client and its session: `c2s` and `s2c` are the bytes on their way, as heads and pieces of bodies,
so that a reader that is out of step reads a piece as a head, as in the code ("flag error"). The client
(`cpc`) writes a head, a body and its streams package by package, so that the proxy may act, time out
or end in between. The fiber and its executor are `spc`. The plugin is whatever may finish, give up
before it has read all streams, or fail: `TaskGivesUp` stands for "params error", a failing prepare,
`lo_open` or `mysql_stmt_send_long_data`.

A reply is two writes of the fiber (`WriteHead`, `WriteReply`) and two reads of the client (`RecvHead`,
`RecvReply`), as in the code, since what happens between them matters: `S2R` creates its reply object
before it reads the body, and its `catch(...)` reports "socket error" only while there is none. A socket
that breaks before the head gives an error (`RecvFails`), one that breaks behind it an empty reply
(`RecvCut`), whose missing ERRCODE reads as `ES_SUCCESS`. A reset may overtake what the proxy has written
(`Reset`): after a plugin that gave up with stream packages unread, the error reply itself can be cut so
and be told as a success. The fiber's loop ends when the server is disposed (`GoOn`).

A large object on its way back is written package by package too (`TaskWriteFull`, `TaskWriteEnd`),
while the client may read what is there already.

Two things are modelled as the code has them: a stream's reader does not look at a head's type, which
produces a finding, and the heads of a large object on the way back are built with shifted arguments
(`ProxyHead`), which makes a download of several packages end in a socket error and nothing worse.

Of CxxJDK and CxxConet it is assumed that a read at the end of the stream returns a negative count or
throws, that a read timeout throws, that a write to a closed socket throws, and that a task that throws
is dropped by its thread pool without writing the channel.

### SerialCalls

What a session promises its client, without packages, streams or threads: calls are worked on one at a
time, in their order and each at most once; a call that returns gets the first reply on its way, which no
other call has got and whose work is over. Until a call ends in an error it is the caller's own, none is
passed over, and the proxy works only while the caller waits. A call may also return nothing, as if it
had succeeded (`ReturnNothing`), but only of a session that is `over` and, until an error, only if its own
work was begun: that is all the code promises of a reply that is cut. After an error replies may be lost,
and calls may get the reply of an earlier one, as the code has it. `ProxySession!ImplementsCalls` maps
`caller` to the client's positions, `begun` and `working` to the request of the fiber and its executor,
`replies` to the bodies of replies on the wire and `over` to the end of the fiber.

### TxSession

One `EConnection`, the plugin that serves it and the database. `Plugins` selects among four. PostgreSQL
and FreeTDS send BEGIN, COMMIT and ROLLBACK themselves and keep a flag; MySQL uses the library's calls;
Oracle keeps a flag and passes it as the mode of every execution. Savepoints are SQL of the plugin base
(`EDatabase`), but for FreeTDS, which has its own and lets them fail.

The databases are external: PostgreSQL aborts a transaction in which a statement fails and answers
COMMIT with success; the others undo the statement only (a deadlock's victim, where InnoDB rolls back
the whole transaction, is left out); Oracle has no RELEASE SAVEPOINT, and a successful execution in its
auto-commit mode commits all that came before; SQL Server ignores the name in `commit tran` and refuses
it without a transaction; all drop the transaction of a lost connection.

Opening and closing fail as in the code: a failed `connect()` leaves `isConnected` false and a socket
behind (`ConnectFails`); `close()` ends the link and then throws if the reply is an error, with
`isConnected` still true (`CloseThrows`), which Oracle's does when its database is gone (`RollbackFails`).
A call whose connection to the database or to the proxy breaks while it ends a transaction may have
committed or not (`EndLost`). Replies are whole or lost here; the cut reply of `ProxySession`, which is
told as a success whatever it said, is left out, so `promised` and `undone` are what whole replies say.

`told`, `marks`, `promised` and `undone` are what the application learns from calls that return or
throw; the properties relate it to `work` and `durable`, what the database does. `excused` holds the
updates made while client, plugin and database were in different modes, or rolled back to a savepoint
the database did not know; `spoiled` those in an aborted transaction that was committed and those that
Oracle's `setAutoCommit(true)` left open; `released` says that `releaseSavepoint` of FreeTDS has ended
the transaction. Each property names what it excepts; the section on divergences below says which of them
have a run of their own.

### ResultCursor

Statements of one connection and the plugin's single `m_Result`. `resultSet` is the client's side (the
rows sent so far, the end mark, the current row), `m_Result`, `m_CursorID` and `wire` the plugin's. The
plugins differ in `onExecute` and `onMoreResult` only, one operator each; `createDataset` and the check
of the cursor id are the same code in all of them. What SQL answers is its numbers of rows (`Programs`).

External: libpq holds a whole result; OCCI has a cursor for each output parameter; a MySQL connection
holds the results of a procedure call with a closing status until all were asked for, and refuses
commands before. `Garbage` are the values of the members `row_offset` and `rows_size` that the Oracle
plugin's second constructor initializes with themselves.

`reading` is the application's view: which result of which program it reads (`Begun`), the rows it got
up to the first `false` of `next()`, whether something else happened on the connection since
(`touched`), and whether the result is one with an uninitialized offset or limit (`garbled`). A
statement without a result set, and a plugin without a result, have the value `None`. `next()` past the end is a step (it starts again with the
last data set); the rows it repeats are not counted. Left out: prepared procedure calls with MySQL
(commented out in the tests), failures of the transport (in `ProxySession`) and of the database in the
middle of a result, result sets used after their connection was closed, FreeTDS.

### BatchUpdate

One batch of an `EUpdateStatement`. The application builds `items`, SQLs and rows of parameters
(`AddSql`, `AddRow`, `Bind`), then `onUpdate` of the plugin goes through them (`at`, `sqlIndex`) and
writes `reply`, the entries that `getUpdateCount`, `getFirstFailed` and `getFailures` read. An action is
what the plugin does with one SQL or one row: run it, fail to prepare it, find its parameters misbound,
stop because of an earlier failure. The four plugins differ in when they prepare, in what they skip
after a failed prepare (`BatchCount`: pgsql the rows, mysql the parameters of the first row, freetds
always 2) and in where the iterator over the streams of a row starts (`Start`).

An item is a record of what the code looks at: whether it starts an SQL, the placeholders of the SQL, the
number of parameters bound, and which of `streamParams` are among them. The contents of SQL and values
decide nothing here. Streams have identities 1, 2, ... in the order of `bind`. Behind the proxy they are the packages of the
connection, which are consumed by reading; in the client they are a list, and an iterator that starts
again gives streams that were read before and are empty now. `stored` is what the rows got. The entries
carry a ghost field `of`, the items they are about.

A count of 1 stands for any number of affected rows. FreeTDS hands `CS_ROW_COUNT` on as it is, which is
-1 for a statement without a count (DDL), so its successes may be counted -1 (`RowCounts`): the client
takes such an entry for a failure, while the plugin's `hasFailed` stays false. FreeTDS also ignores a
prepare the server rejects (`create_prepare_stmt` skips the result); its rows then fail one by one, and
`PrepareFails` is, for FreeTDS, a failure inside the client library only.

External: a SQL succeeds or fails. Left out: conversion of values and placeholders, and a stream that is
read half (its effect on the connection is in `ProxySession`).

### ServerRestart

The commands of an operator are processes `Pids` with a main thread (`pc`) and, once started as a
server, a worker (`worker`). Main's positions are those of `doAction`: read the pid file, signal,
unlink, load the configuration, store the pid, spawn the worker, install the handlers of SIGQUIT and
then SIGTERM, join. The worker creates `dbserver`, tries to listen up to three times, serves, drains and
ends. `TakeSignal` may strike a process at any position: without a handler, or with `dbserver` still
null, it dies.

External: one process holds the port; `shutdown()` of the acceptor closes it and lets sessions end,
`dispose()` ends them; what `shutdown()` does to an acceptor that does not listen yet is left open
(both outcomes). The 100 ms sleeps are interleavings. The operator gives one command at a time as far as
the pid file is concerned (`FileAtRest`; the old server may drain for as long as it likes), and starts
no server beside one nobody told to stop: two starts at once overwrite each other's pid file and nothing
in the code keeps an operator from it.

The histories `early` (a signal taken before the server was ready), `late` (a third attempt to listen
that failed on the port of a server told to stop) and `crashed` are what the properties excuse.

## What the runs check

| Run | Instance | Shows |
|---|---|---|
| `pool_busy` | 3 threads, 3 identities, capacity 2, `Busy`; symmetry over threads and connections (safety only) | ownership, no leak, capacity, blocking only when full, restored parameters |
| `pool_quiet` | 3 threads, 2 identities, capacity 2, not `Busy`, fair | no interleaved requests, a closed pool is closed, the pool never stalls, it implements `ConnectionLeases` |
| `session` | 3 requests, 2 streams, 2 packages each, fair | a call never returns another's reply, nothing left over, streams whole; it implements `SerialCalls`; sessions end, calls return |
| `tx` | 4 plugins, 3 updates, 3 savepoints, 2 connects | modes agree, database and application agree about every update, with the exceptions each property names |
| `cursor` | 3 plugins, 2 statements, 3 executions, up to 3 rows, 2 results, fetch sizes 0 and 2; symmetry over statements | each result set gives its own rows in order, ends early only after other calls, all results are seen |
| `batch` | 4 plugins, client and proxy, 3 items, 2 parameters | numbers, first failure and sums are right where the plugin's counting allows it; nothing runs after a failure; rows get their own streams |
| `restart` | 3 commands, 1 session per server, fair threads | the pid file names the server, a stop cuts no session and stops the server, a restart serves |
| `session_cut` | as `session`, 1 package | finding: a request read as stream data |
| `tx_commit` | as `tx`, pgsql and mysql | finding: commit of an aborted transaction succeeds |
| `tx_release` | freetds, 2 updates, 2 savepoints, 1 connect | finding: releasing a savepoint commits the transaction |
| `cursor_sync` | as `cursor` | finding: MySQL refuses commands after a procedure call |
| `batch_number` | mysql, proxy | finding: a failed prepare shifts all later numbers |

Bounds. Three threads on two connections is the least pool in which one thread waits in `take`, while
another connects and a third holds; a third identity shows that a third connection is never made. In a
session, the third request shows what the first left behind for the second and the second for the third;
two streams of two packages are the least at which order within and between streams shows, and zero
packages the empty stream. Two connects are the least for a reconnect; three updates with three
savepoints give two nested partial rollbacks with an update in each interval. Two statements displace
each other's results, and a third execution lets the first come back; three rows in data sets of two (or
of one, which is what 0 means) end inside a data set and at its border, an empty result and a second
result of one row cover the rest. Three items give an SQL, its second row and a following SQL, which is
where a wrong skip shows; two parameters make their number differ from that of the rows and let one row
have two streams. Three commands are the least for a restart of a server that was itself restarted, or
for a stop that meets a restart's successor while the first server still drains. The largest instances are `batch` with 2.4 million
distinct states, `session` with 1.1 million and depth 44, and `tx` with 440,000. The bounds are guards
of `Call`, `Update`, `SetSavepoint`, `Connect`, `ConnectFails`, `Execute`, `AddSql`, `AddRow`, `Bind`, `TaskWriteFull`
and `OpenSession`, and the range of `Pids`; they cap inputs and the size of data only.

Fairness. In the pool: threads run, a free lock is entered by a thread that waits, `connect` and
requests are answered, and a handle is closed in the end (strong fairness, as its owner may keep making
requests in between; without it no pool can serve a waiting thread). Single threads may still starve,
because neither the lock nor the queue is fair, so `NeverStalls` speaks of answers to any thread. In a
session: streams deliver, bytes arrive, the database answers (a large object's last package is written,
`TaskWriteEnd`), the proxy's threads run, and an executor that waits for a stream in silence meets the
timeout of its socket (`TaskTimesOut`; the configured `socket_timeout`). No fairness is put on new calls,
on a client that vanishes, on a plugin that gives up, on a proxy that dies or on the fiber's timeouts.
`CallsReturn` speaks of a call from wherever it writes or waits until it is over: a download that is stuck
between two packages would violate it. Of the processes: main and worker threads run; signals may stay undelivered, operators,
clients and crashes are free.

Deadlock is checked in the pool, where some step is always possible, and switched off elsewhere: sessions
end, executions, updates and commands are bounded, a batch has an end.

### Divergences

Five runs show a disagreement of the code with its documents as a counterexample: `session_cut`,
`tx_commit`, `tx_release`, `cursor_sync` and `batch_number`. The models have the following ones too. They
have no run of their own: the properties except them, in words and in the formula, and so do not catch
them.

* An object that is connected again keeps `autoCommit = FALSE` while its new session commits every
  statement by itself, against `EConnection.hh:261-263`. `WorkIsWhatWasTold` and `UncommittedIsNotDurable`
  speak of the time before a second connect, `ModesAgree` names it.
* `rollback(savepoint)` with a savepoint that was released, or that the database never had, is told as a
  success; `EConnection.hh:384-387` and `:398-400` say that it throws. What it reported undone is `excused`.
* `setAutoCommit(true)` of Oracle commits nothing by itself, and what was open may be lost;
  `EConnection.hh:280-282` says that the transaction is committed. `PromisedIsDurable` excepts it (`spoiled`).
* A failed fetch, and one of a result set that another statement displaced, looks like the end of the
  rows; `EStatement.hh:22-26` allows the result sets of different statements to be read interleaved.
  `EndMeansAll` excepts it (`touched`).
* `getFirstFailed()` is -1 when nothing failed, where `EUpdateStatement.hh:63` says 0; `FirstFailedIsFirst`
  asks only that it names no item. `getFailures()` is the negative of the number of failed records that
  `:68` documents; `ResumeAccountsForAll` takes it with its sign. A FreeTDS success may be counted -1 and be
  taken for the first failure, which both properties of the numbers allow.
* A reply cut between head and body is told as a success (`RecvCut`). `RepliesMatch` allows it for the last
  call of a session that has ended.
* A call whose executor threw waits for ever, as nothing applies the client's timeout (`"hung"` in
  `SessionEnds` and `CallsReturn`).
* `getResultSet()` returns an old result set after an update; result sets of Oracle's cursors have
  uninitialized offsets (`garbled`).
* With resume, the rows after a skipped one are given its streams; in direct mode rows of different SQLs
  (MySQL: any two rows) share the first streams (`StreamsInReach`).
* A restart whose configuration or tests fail, or whose third attempt to listen meets the old server
  (`late`), leaves nobody serving; a signal before the server is ready kills it (`early`).

## What is proved

Every theorem holds for all values of the module's constants that its assumptions admit: any threads, any
finite set of connections and any capacity; any numbers of requests, streams, packages, updates,
savepoints, connects, statements, executions, items, parameters, processes and sessions. Each proof
module strengthens the properties to an inductive `Inv`, proves `Init => Inv` and
`Inv /\ [Next]_vars => Inv'` with one step per action, and concludes with PTL.

`ConnectionPoolProofs`: `TypeCorrect`, `ConnectionsHaveOneOwner`, `NoConnectionIsLost`,
`CapacityRespected`, `WaitersHaveSomethingToWaitFor`, `BorrowersGetDefaults`. Ownership is not inductive
alone: `Inv` adds that a handle is held exactly in the positions that have one (`Placement`), that the
thread in `connect` has the lock and found room, so that the size test is still true when the connection
is added (`InSyncBlock`), and that what is about to be reclaimed has its defaults. The delicate steps are
`Take` and `PollHit` (the head of the queue leaves it, lemma `HeadAndTail`) and `Reclaim` (what is
appended is new to the queue, lemma `AppendNew`). `PoolImplementsLeases`: initial states map to initial
states, and under `Inv` every step maps to a step of `ConnectionLeases` or a stutter: a successful poll
or take is `Grant`, a new connection `GrantNew`, a failed one `Refuse`, a missed poll `Ask`, `reclaim`
`GiveBack`. `QuietUseIsExclusive` and `QuietCloseIsComplete`, for applications with `~Busy`, use
`QuietInv`: a caller owns the connection it calls on, no one else is active while the pool closes, and
the connections already visited are closed.

`ProxySessionProofs`: `TypeCorrect`, `RepliesArePaired`, `ProxyIsInStep` (fiber and executor work only on
the request their client waits for, until its first error), `WiresAreClean`. The invariant
has two parts. `Form` holds always: what the client writes is a sequence of whole packages up to the one
it is writing (`Written`), replies of the proxy are heads followed by their bodies (`Answers`), but for the last
head on the wire while the fiber is between its two writes or has ended there (`Halves`), a fiber
that has read a head finds a request behind it (`Bodies`). `Paired` holds until the first socket error
and says where the one exchange is: at rest, stuck behind a session that ends, request coming, body
entering, served, or replied, each with what may be on the two wires. That a reply answers its own
request is the case "replied", and every action moves from one case to the next. The streams of an
upload and the packages of a large object are of any length, so that the cases speak of all positions of
the wires and not of fixed prefixes.

`ProxyStreamProofs`: `StreamsArriveWhole`. The client and the executor go through the streams of an
upload with the same positions: nothing, the announced number, the inside of a stream, its end. A package
is a move from one position to the next (`Opens`, `Asks`, `Announces`, `Streams`, `Ends`), and `OnTheWay`
says that the packages on the wire are a way of such moves from the position the executor has reached to
the one the client has. The client's writing makes the way longer at its end, the executor's reading
shorter at its beginning, and what the executor has put in the database is always the part of the stream
behind its position. That holds until the application's stream throws (`cut`); so does `StreamsHoldData`,
the promise that the run `session_cut` refutes after a `cut`.

`ProxyCallsProofs`: `CallsAreSerial`, the refinement of `SerialCalls`, and `NobodyWaitsInVain`. Both hold
for sessions with any number of errors, where `Paired` says nothing any more. What is left then is order:
`InOrder` says that the bodies of requests on one wire and of replies on the other have rising numbers,
and that all of the former are later than what the fiber has read, all of the latter no later. Every step
only drops pieces in front, cuts off an end or appends a piece with a higher number, so this survives
misread heads, lost pieces and bodies read as stream data; it is what makes a request be worked on at
most once and a reply be given at most once. Until the first error `Inv` gives the rest of each abstract
step (the caller's own reply, no call passed over); a cut reply is a `ReturnNothing` because its head was
read, so its call's work had begun, and because only an ended session resets. `NobodyWaitsInVain` is the safety half of
`CallsReturn`: a client that waits has something to read, or the proxy something to do, or the session
has ended. Its invariant `Attended` says that a fiber that has read everything and reads on has its last
reply on the wire as the last two pieces, behind heads that announce no more than follows (`Overlong`).

`TxSessionProofs`: `TypeCorrect`, `FlagMatchesTheDatabase`, `ClientAndPluginAgree`,
`UndoneWorkStaysUndone`, `NothingCommitsEarly`, `CommittedWorkIsDurable`,
`TransactionHasWhatWasTold`. `Inv` relates the modes of
client, plugin and database (`Modes`), orders the numbers of updates and savepoints (`Numbers`,
`SavesGrow`, `MarksGrow`), matches each savepoint of the application with the one the database has
(`SavesMatch`), and says that what was told is in the transaction and what was undone is not
(`ToldIsThere`, `ToldInAuto`, `UndoneIsNotThere`): a commit makes permanent the whole of `work`, so the
promise depends on what `work` holds after any nesting of partial rollbacks.
On top of `Inv`, `WorkIsTold` says the converse, that nothing else is in the transaction, and that what is
there is in the order it was made; with `ToldIsThere` it gives `WorkIsWhatWasTold`.
`NothingCommitsEarly` follows from `EarlyIsExcused`: what is committed before the application says so was
made while the modes disagreed, which takes a second connect or a savepoint released with FreeTDS.
`CommittedWorkIsDurable` follows from `PromisedOrSpoiled` and, for MySQL and FreeTDS, from the fact that
nothing is ever spoiled there (`NothingSpoiled`): for these two plugins it is the sentence of
`EConnection.hh` that `tx_commit` refutes for PostgreSQL, without exception.

`ResultCursorProofs`: `TypeCorrect`, `RowsAreItsOwn`, `EndIsTheEnd`, `NoResultIsSkipped`,
`FetchHasAResult`, `StatementsAreReusable` (where `cursor_sync` finds no counterexample: all plugins but
MySQL). `Inv` says that no two result sets name the same cursor (`Cursors`) and, for
each statement (`Good`), how the rows it was sent, its current row and the plugin's position add up to
what the application has read. The lemmas about `CreateDataset` state which rows a data set holds and
what a missing end mark means, for any offset, limit and fetch size.

`BatchUpdateProofs`: `TypeCorrect`, `BatchStopsAtFailure`, `FirstFailedIsRight`, `CountsAreNumbered`,
`NothingIsLost`, `StreamsReachTheRow`.
`Inv` has the shape of a batch (`Formed`), the plugin's place in it (`Position`), what was executed before
it (`Executed`, `FirstFailure`) and how the numbers of the entries stand to the items (`Counted`,
`Numbered`), the latter only where the plugin skips by rows or has not skipped yet. `NothingIsLost` is about
the sum that `getFailures` returns, a function defined by recursion over the entries. The library's
induction theorems cannot be used with these provers; in their place the section on the sum argues by the
least index for which a statement fails (`MinIn`, from the well-foundedness of the natural numbers), first
that such a function exists and then what an appended entry adds to it (`Failed`). With that, `Accounted`
says that successes and failures make up what the plugin has behind it. `StreamsReachTheRow` uses
`StreamInv`: the streams of the items follow one another in the list (`Listed`), and, in a batch that has
not failed, the iterator stands behind those of the rows before this one, or of the rows of this SQL in a
plugin that starts its list again (`Placed`).

`ServerRestartProofs`: `TypeCorrect`, `PidFileNamesTheServer`, `QuitIsGraceful`, `SignalledServersStop`.
`Inv` says that one command at most is at the pid file (`OneAtFile`), how main and worker correspond
(`Threads`), what the file may name meanwhile (`FileNamesRunning`, `FileNamesStored`, `TargetIsFile`),
that all other servers were told to stop (`OthersTold`) and how a server that was told is ending
(`PendingWasTold`, `Stopping`).

Assumptions are those of the modules' constants only (`None` is not an element, the capacity and the
bounds are natural numbers, plugins are of the known ones, programs are sequences of numbers of rows).

Only model-checked are the liveness properties, which are out of the prover's reach: `NeverStalls`,
`SessionEnds`, `CallsReturn`, `RestartServes`. Every other property of the passing runs has a theorem.

## Not modelled

* **FreeTDS result cursors**: the plugin interleaves its rows with ct-lib's pending results and cancels;
  a model would have to invent that protocol. Its transactions and batches are modelled.
* **Conversions**: placeholders (`alterSQLPlaceHolder`), bound values and columns, character sets. They
  are functions on text without state; the models abstract the data they act on.
* **Prepared procedure calls with MySQL** (commented out in the tests), failures of the database in the
  middle of a result, result sets used after their connection was closed, named savepoints (the
  application answers for the name).
* **Database metadata** (two strings written at open), **configuration** (read once at start), logging,
  the message dump of debug builds, `esql` (terminal input and output), the loading of plugins and the
  destructors at the end of the process.
* **Tars transport and TLS**: alternatives chosen at compile time, from a vendored library.

Most of the repository's lines are vendored: the Tars client, the headers of Oracle's instant client, of
MySQL and of PostgreSQL. None of it is modelled but through the behaviour the plugins rely on, which each
module lists as external.

## Plan

Done: `ConnectionPool` and `ConnectionLeases`, `ProxySession`, `TxSession` for four plugins,
`ResultCursor` for three, `BatchUpdate` (with the stream parameters of batches), `ServerRestart`, and the
proofs of each.

Left, in the order of their worth: a composition of `ConnectionPool` with `ProxySession`, in which a
broken link is the end of a session; the FreeTDS result cursors, once the behaviour of ct-lib they rely on has a description to model from.
