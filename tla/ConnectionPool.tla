--------------------------- MODULE ConnectionPool ---------------------------
(***************************************************************************)
(* EConnectionPool: application threads share at most MaxConns physical    *)
(* connections.  getConnection() polls the FIFO queue idleConnections; on  *)
(* a miss it takes the pool's lock and opens a new connection if the list  *)
(* allConnections is below its capacity; otherwise it releases the lock    *)
(* and blocks in idleConnections.take().  The caller gets a handle, a      *)
(* PooledConnection, whose close() restores the connection's parameters    *)
(* and puts the physical connection back into the queue.  The pool itself  *)
(* is closed by walking allConnections under the lock.                     *)
(*                                                                         *)
(* A thread's position in the code is pc[t]:                               *)
(*   "out"      outside the pool, without a handle                         *)
(*   "lock"     in getConnection, poll() found nothing, before SYNCBLOCK   *)
(*   "connect"  in getConnection, in SYNCBLOCK, in EConnection::connect    *)
(*   "take"     in getConnection, in idleConnections.take()                *)
(*   "hold"     owns a handle                                              *)
(*   "reclaim"  in the handle's close(), parameters restored, before       *)
(*              reclaim()                                                  *)
(*   "poolLock" in EConnectionPool::close(), before SYNCBLOCK              *)
(*   "closing"  in EConnectionPool::close(), in SYNCBLOCK                  *)
(***************************************************************************)
EXTENDS Naturals, Sequences, FiniteSets, Functions

CONSTANTS
  Threads,           \* application threads that share the pool
  Conns,             \* identities of physical connections
  MaxConns,          \* the constructor's maxconns
  None,              \* no connection, or no thread
  Busy               \* BOOLEAN: the application closes the pool while other
                     \* threads use it, and uses statements after closing
                     \* the handle they were created from

ASSUME ConnsAssumption == None \notin Conns /\ IsFiniteSet(Conns)
ASSUME ThreadsAssumption == None \notin Threads
ASSUME MaxConnsAssumption == MaxConns \in Nat
ASSUME BusyAssumption == Busy \in BOOLEAN

VARIABLES
  pc,                \* the position of each thread
  handle,            \* the physical connection of the thread's handle
  stmts,             \* the connections the thread has statements on
  call,              \* the connection the thread has a request outstanding on
  lock,              \* the thread that is in SYNCBLOCK
  idle,              \* idleConnections
  all,               \* allConnections, as a set: its order decides nothing
  unvisited,         \* what the iterator of EConnectionPool::close() has left
  closed,            \* EConnectionPool::closed
  link,              \* the physical connection's socket
  params             \* its encoding and timeouts: the pool's, or a caller's

vars == <<pc, handle, stmts, call, lock, idle, all, unvisited, closed, link, params>>

Positions == {"out", "lock", "connect", "take", "hold", "reclaim", "poolLock", "closing"}
Links     == {"none", "open", "broken", "closed"}

IdleSet == Range(idle)

Init ==
  /\ pc        = [t \in Threads |-> "out"]
  /\ handle    = [t \in Threads |-> None]
  /\ stmts     = [t \in Threads |-> {}]
  /\ call      = [t \in Threads |-> None]
  /\ lock      = None
  /\ idle      = <<>>
  /\ all       = {}
  /\ unvisited = {}
  /\ closed    = FALSE
  /\ link      = [c \in Conns |-> "none"]
  /\ params    = [c \in Conns |-> "default"]

(* A thread that waits for a reply does nothing else. *)
At(t, position) == pc[t] = position /\ call[t] = None

Goto(t, position) == pc' = [pc EXCEPT ![t] = position]

-----------------------------------------------------------------------------
(* getConnection()                                                         *)

(* A disciplined application asks for nothing once the pool is closing, as *)
(* the test does, which joins its threads before pool.close().             *)
MayAsk == Busy \/ (~closed /\ \A t \in Threads : pc[t] \notin {"poolLock", "closing"})

(* Mutant: peek() in place of poll().                                      *)
PeekIdle(t) ==
  /\ At(t, "out")
  /\ MayAsk
  /\ idle # <<>>
  /\ handle' = [handle EXCEPT ![t] = Head(idle)]
  /\ Goto(t, "hold")
  /\ UNCHANGED <<stmts, call, lock, idle, all, unvisited, closed, link, params>>

PollHit(t) ==
  /\ At(t, "out")
  /\ MayAsk
  /\ idle # <<>>
  /\ handle' = [handle EXCEPT ![t] = Head(idle)]
  /\ idle' = Tail(idle)
  /\ Goto(t, "hold")
  /\ UNCHANGED <<stmts, call, lock, all, unvisited, closed, link, params>>

PollMiss(t) ==
  /\ At(t, "out")
  /\ MayAsk
  /\ idle = <<>>
  /\ Goto(t, "lock")
  /\ UNCHANGED <<handle, stmts, call, lock, idle, all, unvisited, closed, link, params>>

(* Mutant: the lock guards the size check only, connect() runs outside.    *)
CheckThenConnectUnlocked(t) ==
  /\ At(t, "lock")
  /\ lock = None
  /\ Cardinality(all) < MaxConns
  /\ Goto(t, "connect")
  /\ UNCHANGED <<handle, stmts, call, lock, idle, all, unvisited, closed, link, params>>

(* Mutant: <= for <.                                                       *)
EnterUpToCapacity(t) ==
  /\ At(t, "lock")
  /\ lock = None
  /\ Cardinality(all) <= MaxConns
  /\ lock' = t
  /\ Goto(t, "connect")
  /\ UNCHANGED <<handle, stmts, call, idle, all, unvisited, closed, link, params>>

(* size() < capacity(): the lock is kept while the connection is opened.   *)
EnterBelowCapacity(t) ==
  /\ At(t, "lock")
  /\ lock = None
  /\ Cardinality(all) < MaxConns
  /\ lock' = t
  /\ Goto(t, "connect")
  /\ UNCHANGED <<handle, stmts, call, idle, all, unvisited, closed, link, params>>

(* Mutant: the pool is thought full one connection too early.              *)
EnterFullEarly(t) ==
  /\ At(t, "lock")
  /\ lock = None
  /\ ~(Cardinality(all) + 1 < MaxConns)
  /\ Goto(t, "take")
  /\ UNCHANGED <<handle, stmts, call, lock, idle, all, unvisited, closed, link, params>>

(* Full: the lock is left at once.                                         *)
EnterFull(t) ==
  /\ At(t, "lock")
  /\ lock = None
  /\ ~(Cardinality(all) < MaxConns)
  /\ Goto(t, "take")
  /\ UNCHANGED <<handle, stmts, call, lock, idle, all, unvisited, closed, link, params>>

ConnectOk(t, c) ==
  /\ At(t, "connect")
  /\ c \notin all
  /\ link' = [link EXCEPT ![c] = "open"]
  /\ all' = all \cup {c}
  /\ params' = [params EXCEPT ![c] = "default"]
  /\ handle' = [handle EXCEPT ![t] = c]
  /\ lock' = None
  /\ Goto(t, "hold")
  /\ UNCHANGED <<stmts, call, idle, unvisited, closed>>

(* Mutant: the exception leaves SYNCBLOCK without unlocking.               *)
ConnectFailKeepsLock(t) ==
  /\ At(t, "connect")
  /\ Goto(t, "out")
  /\ UNCHANGED <<handle, stmts, call, lock, idle, all, unvisited, closed, link, params>>

(* connect() throws: the new object is dropped and the lock is left.       *)
ConnectFail(t) ==
  /\ At(t, "connect")
  /\ lock' = None
  /\ Goto(t, "out")
  /\ UNCHANGED <<handle, stmts, call, idle, all, unvisited, closed, link, params>>

Take(t) ==
  /\ At(t, "take")
  /\ idle # <<>>
  /\ handle' = [handle EXCEPT ![t] = Head(idle)]
  /\ idle' = Tail(idle)
  /\ Goto(t, "hold")
  /\ UNCHANGED <<stmts, call, lock, all, unvisited, closed, link, params>>

-----------------------------------------------------------------------------
(* The handle                                                              *)

(* setClientEncoding, setConnectTimeout, setSocketTimeout.                 *)
SetParams(t) ==
  /\ At(t, "hold")
  /\ params' = [params EXCEPT ![handle[t]] = "custom"]
  /\ UNCHANGED <<pc, handle, stmts, call, lock, idle, all, unvisited, closed, link>>

(* createCommonStatement: the statement is bound to the physical           *)
(* connection, not to the handle.                                          *)
CreateStatement(t) ==
  /\ At(t, "hold")
  /\ stmts' = [stmts EXCEPT ![t] = @ \cup {handle[t]}]
  /\ UNCHANGED <<pc, handle, call, lock, idle, all, unvisited, closed, link, params>>

(* The statement object is destroyed.                                      *)
DropStatement(t, c) ==
  /\ pc[t] \in {"out", "hold"}
  /\ call[t] = None
  /\ c \in stmts[t]
  /\ stmts' = [stmts EXCEPT ![t] = @ \ {c}]
  /\ UNCHANGED <<pc, handle, call, lock, idle, all, unvisited, closed, link, params>>

(* A request on the physical connection: through the handle (commit,       *)
(* rollback, savepoints, large objects) or through a statement.            *)
Request(t, c) ==
  /\ pc[t] \in {"out", "hold"}
  /\ call[t] = None
  /\ \/ c = handle[t] /\ pc[t] = "hold"
     \/ c \in stmts[t] /\ (Busy \/ c = handle[t])
  /\ call' = [call EXCEPT ![t] = c]
  /\ UNCHANGED <<pc, handle, stmts, lock, idle, all, unvisited, closed, link, params>>

Reply(t) ==
  /\ pc[t] \in {"out", "hold"}
  /\ call[t] # None
  /\ call' = [call EXCEPT ![t] = None]
  /\ \/ UNCHANGED link
     \/ \* "socket error": S2R reports the failure and keeps the socket open
        /\ link[call[t]] = "open"
        /\ link' = [link EXCEPT ![call[t]] = "broken"]
  /\ UNCHANGED <<pc, handle, stmts, lock, idle, all, unvisited, closed, params>>

(* Mutant: close() reclaims without restoring.                             *)
CloseKeepsParams(t) ==
  /\ At(t, "hold")
  /\ Goto(t, "reclaim")
  /\ UNCHANGED <<handle, stmts, call, lock, idle, all, unvisited, closed, link, params>>

(* PooledConnection::close(), or its destructor.                           *)
RestoreParams(t) ==
  /\ At(t, "hold")
  /\ params' = [params EXCEPT ![handle[t]] = "default"]
  /\ Goto(t, "reclaim")
  /\ UNCHANGED <<handle, stmts, call, lock, idle, all, unvisited, closed, link>>

(* Mutant: conn = null before reclaim(conn).                               *)
ReclaimNull(t) ==
  /\ At(t, "reclaim")
  /\ handle' = [handle EXCEPT ![t] = None]
  /\ idle' = Append(idle, handle'[t])
  /\ Goto(t, "out")
  /\ UNCHANGED <<stmts, call, lock, all, unvisited, closed, link, params>>

(* Mutant: broken connections are dropped but stay in allConnections.      *)
ReclaimHealthyOnly(t) ==
  /\ At(t, "reclaim")
  /\ idle' = IF link[handle[t]] = "open" THEN Append(idle, handle[t]) ELSE idle
  /\ handle' = [handle EXCEPT ![t] = None]
  /\ Goto(t, "out")
  /\ UNCHANGED <<stmts, call, lock, all, unvisited, closed, link, params>>

Reclaim(t) ==
  /\ At(t, "reclaim")
  /\ idle' = Append(idle, handle[t])
  /\ handle' = [handle EXCEPT ![t] = None]
  /\ Goto(t, "out")
  /\ UNCHANGED <<stmts, call, lock, all, unvisited, closed, link, params>>

-----------------------------------------------------------------------------
(* EConnectionPool::close()                                                *)

Quiescent == \A t \in Threads : pc[t] = "out" /\ call[t] = None

PoolClose(t) ==
  /\ At(t, "out")
  /\ Busy \/ Quiescent
  /\ Goto(t, "poolLock")
  /\ UNCHANGED <<handle, stmts, call, lock, idle, all, unvisited, closed, link, params>>

PoolCloseEnter(t) ==
  /\ At(t, "poolLock")
  /\ lock = None
  /\ lock' = t
  /\ unvisited' = all
  /\ Goto(t, "closing")
  /\ UNCHANGED <<handle, stmts, call, idle, all, closed, link, params>>

(* conn->close() of a connection whose socket is closed returns at once.   *)
PoolCloseSkip(t, c) ==
  /\ At(t, "closing")
  /\ c \in unvisited
  /\ link[c] = "closed"
  /\ unvisited' = unvisited \ {c}
  /\ UNCHANGED <<pc, handle, stmts, call, lock, idle, all, closed, link, params>>

(* Otherwise DBCLOSE is sent and its reply awaited.                        *)
PoolCloseSend(t, c) ==
  /\ At(t, "closing")
  /\ c \in unvisited
  /\ link[c] # "closed"
  /\ call' = [call EXCEPT ![t] = c]
  /\ UNCHANGED <<pc, handle, stmts, lock, idle, all, unvisited, closed, link, params>>

(* The socket is closed whatever the reply says ...                        *)
PoolCloseOk(t) ==
  /\ pc[t] = "closing"
  /\ call[t] # None
  /\ link[call[t]] = "open"
  /\ link' = [link EXCEPT ![call[t]] = "closed"]
  /\ unvisited' = unvisited \ {call[t]}
  /\ call' = [call EXCEPT ![t] = None]
  /\ UNCHANGED <<pc, handle, stmts, lock, idle, all, closed, params>>

(* Mutant: closed = true also on the way out of an exception.              *)
PoolCloseThrowMarksClosed(t) ==
  /\ pc[t] = "closing"
  /\ call[t] # None
  /\ link' = [link EXCEPT ![call[t]] = "closed"]
  /\ call' = [call EXCEPT ![t] = None]
  /\ unvisited' = {}
  /\ closed' = TRUE
  /\ lock' = None
  /\ Goto(t, "out")
  /\ UNCHANGED <<handle, stmts, idle, all, params>>

(* ... and a failure is thrown out of the loop, past closed = true.        *)
PoolCloseThrow(t) ==
  /\ pc[t] = "closing"
  /\ call[t] # None
  /\ link' = [link EXCEPT ![call[t]] = "closed"]
  /\ call' = [call EXCEPT ![t] = None]
  /\ unvisited' = {}
  /\ lock' = None
  /\ Goto(t, "out")
  /\ UNCHANGED <<handle, stmts, idle, all, closed, params>>

PoolCloseDone(t) ==
  /\ At(t, "closing")
  /\ unvisited = {}
  /\ lock' = None
  /\ closed' = TRUE
  /\ Goto(t, "out")
  /\ UNCHANGED <<handle, stmts, call, idle, all, unvisited, link, params>>

-----------------------------------------------------------------------------
GetConnection(t) ==
  \/ PollHit(t) \/ PollMiss(t) \/ EnterBelowCapacity(t) \/ EnterFull(t)
  \/ (\E c \in Conns : ConnectOk(t, c)) \/ ConnectFail(t) \/ Take(t)

UseHandle(t) ==
  \/ SetParams(t) \/ CreateStatement(t) \/ Reply(t)
  \/ (\E c \in Conns : DropStatement(t, c) \/ Request(t, c))

CloseHandle(t) == RestoreParams(t) \/ Reclaim(t)

ClosePool(t) ==
  \/ PoolClose(t) \/ PoolCloseEnter(t) \/ PoolCloseOk(t) \/ PoolCloseThrow(t)
  \/ PoolCloseDone(t)
  \/ (\E c \in Conns : PoolCloseSkip(t, c) \/ PoolCloseSend(t, c))

Next == \E t \in Threads :
  GetConnection(t) \/ UseHandle(t) \/ CloseHandle(t) \/ ClosePool(t)

Spec == Init /\ [][Next]_vars
-----------------------------------------------------------------------------
(* Properties                                                              *)

TypeOK ==
  /\ pc \in [Threads -> Positions]
  /\ handle \in [Threads -> Conns \cup {None}]
  /\ stmts \in [Threads -> SUBSET Conns]
  /\ call \in [Threads -> Conns \cup {None}]
  /\ lock \in Threads \cup {None}
  /\ idle \in Seq(Conns)
  /\ all \in SUBSET Conns
  /\ unvisited \in SUBSET Conns
  /\ closed \in BOOLEAN
  /\ link \in [Conns -> Links]
  /\ params \in [Conns -> {"default", "custom"}]

(* Two handles never share a physical connection, and a physical           *)
(* connection in the idle queue is in it once and behind no handle: what   *)
(* poll, take and reclaim together must preserve for any number of         *)
(* threads.                                                                *)
OneOwner ==
  /\ \A t, u \in Threads : handle[t] # None /\ handle[t] = handle[u] => t = u
  /\ IsInjective(idle)
  /\ \A t \in Threads : handle[t] \notin IdleSet

(* No physical connection leaks: each one that was opened is idle or       *)
(* behind a handle, even when connects fail, links break or pool closes    *)
(* throw.  A leaked one would count against the capacity for ever.         *)
NoLeak == \A c \in all : c \in IdleSet \/ \E t \in Threads : handle[t] = c

(* getMaxConnections() bounds the open connections although the size is    *)
(* checked and the connection added with a connect() in between.           *)
WithinCapacity == Cardinality(all) <= MaxConns

(* A thread blocks in take() only when the pool is at its capacity, so     *)
(* that a connection it can wait for exists; a failed connect() of another *)
(* thread cannot strand it.                                                *)
BlocksOnlyWhenFull == \A t \in Threads : pc[t] = "take" => Cardinality(all) >= MaxConns

(* A borrower never inherits the encoding or the timeouts the previous one *)
(* set: close() restores them before other threads can see the connection. *)
IdleHasDefaults == \A c \in IdleSet : params[c] = "default"

(* S2R has no lock: a second thread on the same physical connection would  *)
(* interleave its request with the first one's and read its reply.  Holds  *)
(* for an application that uses statements only while it has the handle    *)
(* and closes the pool when its threads are done.                          *)
OneRequestPerConnection ==
  \A t, u \in Threads : call[t] # None /\ call[t] = call[u] => t = u

(* After a pool close that returned normally no connection is open, even   *)
(* if an earlier attempt threw half way.  For the same applications.       *)
ClosedPoolIsClosed == closed => \A c \in all : link[c] = "closed"

(* Fairness: threads run, a free lock is taken by one of its waiters, the  *)
(* network answers, and the application closes each handle in the end,     *)
(* however many requests it makes first.  Neither the lock nor the queue   *)
(* is fair: one thread may starve on them while others are served.         *)
Fairness == \A t \in Threads :
  /\ WF_vars(EnterBelowCapacity(t) \/ EnterFull(t))
  /\ WF_vars((\E c \in Conns : ConnectOk(t, c)) \/ ConnectFail(t))
  /\ WF_vars(Take(t))
  /\ WF_vars(Reply(t))
  /\ SF_vars(RestoreParams(t))
  /\ WF_vars(Reclaim(t))
  /\ WF_vars(PoolCloseEnter(t))
  /\ WF_vars(PoolCloseOk(t) \/ PoolCloseThrow(t))
  /\ WF_vars(PoolCloseDone(t))
  /\ WF_vars(\E c \in Conns : PoolCloseSkip(t, c) \/ PoolCloseSend(t, c))

FairSpec == Spec /\ Fairness

Answers == \E t \in Threads :
  \/ handle[t] = None /\ handle'[t] # None
  \/ pc[t] = "connect" /\ pc'[t] = "out"

(* The pool never stalls: while threads keep waiting in getConnection,     *)
(* answers keep being given, a handle or the exception of connect().       *)
NeverStalls ==
  []<>(\A t \in Threads : pc[t] \notin {"lock", "take"}) \/ []<><<Answers>>_vars

Asking == {t \in Threads : pc[t] \in {"lock", "connect", "take"}}

Leases == INSTANCE ConnectionLeases WITH made <- all, lease <- handle, asking <- Asking

(* The pool implements the abstract one.                                   *)
ImplementsLeases == Leases!Spec
=============================================================================
