------------------------ MODULE ConnectionPoolProofs ------------------------
(***************************************************************************)
(* Proofs about ConnectionPool, for any finite set of connections, any set *)
(* of threads and any capacity.  The inductive invariant is Inv: the types *)
(* and, in named parts, who may be where.                                  *)
(***************************************************************************)
EXTENDS ConnectionPool, FiniteSetTheorems, TLAPS

(* A thread has a handle exactly while it is in "hold" or "reclaim", and   *)
(* handles and the queue name only connections of the pool.                *)
Placement ==
  /\ \A t \in Threads : handle[t] # None <=> pc[t] \in {"hold", "reclaim"}
  /\ \A t \in Threads : handle[t] # None => handle[t] \in all
  /\ IdleSet \subseteq all

(* Only the lock's owner is in SYNCBLOCK, and the size it compared with    *)
(* the capacity is still the size while it connects.                       *)
InSyncBlock ==
  \A t \in Threads :
    /\ pc[t] \in {"connect", "closing"} => lock = t
    /\ pc[t] = "connect" => Cardinality(all) < MaxConns

ReclaimsDefaults ==
  \A t \in Threads : pc[t] = "reclaim" => params[handle[t]] = "default"

Inv ==
  /\ TypeOK
  /\ Placement
  /\ OneOwner
  /\ NoLeak
  /\ InSyncBlock
  /\ WithinCapacity
  /\ BlocksOnlyWhenFull
  /\ ReclaimsDefaults
  /\ IdleHasDefaults

-----------------------------------------------------------------------------
(* Lemmas about the queue                                                  *)

(* poll() and take() split a queue without duplicates into its head and    *)
(* the rest, which no longer contains the head.                            *)
LEMMA HeadAndTail ==
  ASSUME NEW S, NEW s \in Seq(S), s # <<>>, IsInjective(s)
  PROVE  /\ Head(s) \in S
         /\ Tail(s) \in Seq(S)
         /\ IsInjective(Tail(s))
         /\ Head(s) \in Range(s)
         /\ Range(Tail(s)) = Range(s) \ {Head(s)}
<1>1. Len(s) \in Nat /\ Len(s) > 0 /\ Head(s) = s[1] /\ s[1] \in S
  OBVIOUS
<1>2. Tail(s) \in Seq(S) /\ Len(Tail(s)) = Len(s) - 1
  OBVIOUS
<1>3. \A i \in 1..Len(Tail(s)) : Tail(s)[i] = s[i + 1]
  OBVIOUS
<1>4. IsInjective(Tail(s))
  <2> SUFFICES ASSUME NEW i \in 1..Len(Tail(s)), NEW j \in 1..Len(Tail(s)),
                      Tail(s)[i] = Tail(s)[j]
               PROVE  i = j
    BY DEF IsInjective
  <2>1. i + 1 \in 1..Len(s) /\ j + 1 \in 1..Len(s) /\ s[i + 1] = s[j + 1]
    BY <1>1, <1>2, <1>3
  <2>2. i + 1 = j + 1
    BY <2>1 DEF IsInjective
  <2> QED
    BY <2>2
<1>5. Head(s) \in Range(s)
  BY <1>1 DEF Range
<1>6. Range(Tail(s)) \subseteq Range(s) \ {Head(s)}
  <2> SUFFICES ASSUME NEW i \in 1..Len(Tail(s))
               PROVE  Tail(s)[i] \in Range(s) /\ Tail(s)[i] # Head(s)
    BY DEF Range
  <2>1. i + 1 \in 1..Len(s) /\ Tail(s)[i] = s[i + 1] /\ i + 1 # 1 /\ 1 \in 1..Len(s)
    BY <1>1, <1>2, <1>3
  <2> QED
    BY <2>1, <1>1 DEF Range, IsInjective
<1>7. Range(s) \ {Head(s)} \subseteq Range(Tail(s))
  <2> SUFFICES ASSUME NEW i \in 1..Len(s), s[i] # s[1]
               PROVE  s[i] \in Range(Tail(s))
    BY <1>1 DEF Range
  <2>1. i - 1 \in 1..Len(Tail(s))
    BY <1>1, <1>2
  <2>2. Tail(s)[i - 1] = s[i]
    BY <1>3, <2>1
  <2>3. DOMAIN Tail(s) = 1..Len(Tail(s))
    BY <1>2
  <2> QED
    BY <2>1, <2>2, <2>3, ZenonT(30) DEF Range
<1> QED
  BY <1>1, <1>2, <1>4, <1>5, <1>6, <1>7

(* put() of a connection that is not queued keeps the queue duplicate-free.*)
LEMMA AppendNew ==
  ASSUME NEW S, NEW s \in Seq(S), IsInjective(s), NEW e \in S, e \notin Range(s)
  PROVE  /\ Append(s, e) \in Seq(S)
         /\ IsInjective(Append(s, e))
         /\ Range(Append(s, e)) = Range(s) \cup {e}
<1>1. Append(s, e) \in Seq(S) /\ Len(Append(s, e)) = Len(s) + 1 /\ Len(s) \in Nat
  OBVIOUS
<1>2. \A i \in 1..Len(s) : Append(s, e)[i] = s[i]
  OBVIOUS
<1>3. Append(s, e)[Len(s) + 1] = e
  OBVIOUS
<1>4. 1..(Len(s) + 1) = 1..Len(s) \cup {Len(s) + 1}
  BY <1>1
<1>5. IsInjective(Append(s, e))
  BY <1>1, <1>2, <1>3, <1>4 DEF IsInjective, Range
<1>6. Range(Append(s, e)) = Range(s) \cup {e}
  BY <1>1, <1>2, <1>3, <1>4 DEF Range
<1> QED
  BY <1>1, <1>5, <1>6
-----------------------------------------------------------------------------
(* The inductive invariant                                                 *)

LEMMA InitInv == Init => Inv
<1> SUFFICES ASSUME Init PROVE Inv
  OBVIOUS
<1>1. Len(idle) = 0 /\ IdleSet = {}
  BY DEF Init, IdleSet, Range
<1>2. Cardinality(all) = 0
  BY FS_EmptySet DEF Init
<1>3. TypeOK
  <2>1. idle \in Seq(Conns)
    BY DEF Init
  <2> QED
    BY <2>1 DEF Init, TypeOK, Positions, Links
<1>4. Placement /\ NoLeak /\ InSyncBlock /\ ReclaimsDefaults /\ IdleHasDefaults
  BY <1>1 DEF Init, Placement, NoLeak, InSyncBlock, ReclaimsDefaults, IdleHasDefaults
<1>5. OneOwner
  BY <1>1 DEF Init, OneOwner, IsInjective
<1>6. WithinCapacity /\ BlocksOnlyWhenFull
  BY <1>2, MaxConnsAssumption DEF Init, WithinCapacity, BlocksOnlyWhenFull
<1> QED
  BY <1>3, <1>4, <1>5, <1>6 DEF Inv

(* allConnections is finite, so its size is a number and grows by one when *)
(* a new connection is added.                                              *)
LEMMA SizeOfAll ==
  ASSUME TypeOK
  PROVE  /\ Cardinality(all) \in Nat
         /\ \A c \in Conns \ all : Cardinality(all \cup {c}) = Cardinality(all) + 1
BY ConnsAssumption, FS_Subset, FS_CardinalityType, FS_AddElement DEF TypeOK

(* A thread that gets the head of the queue, in poll() or in take().       *)
LEMMA GetsHead ==
  ASSUME Inv, NEW t \in Threads, handle[t] = None, idle # <<>>,
         handle' = [handle EXCEPT ![t] = Head(idle)],
         idle' = Tail(idle),
         Goto(t, "hold"),
         UNCHANGED <<stmts, call, lock, all, unvisited, closed, link, params>>
  PROVE  Inv'
<1>1. /\ Head(idle) \in Conns /\ Head(idle) \in IdleSet
      /\ idle' \in Seq(Conns) /\ IsInjective(idle')
      /\ IdleSet' = IdleSet \ {Head(idle)}
  BY HeadAndTail DEF Inv, TypeOK, OneOwner, IdleSet
<1>2. TypeOK'
  BY <1>1 DEF Inv, TypeOK, Goto, Positions
<1>3. Placement'
  BY <1>1, <1>2, ConnsAssumption DEF Inv, Placement, TypeOK, Goto
<1>4. OneOwner'
  BY <1>1, ConnsAssumption DEF Inv, OneOwner, TypeOK
<1>5. NoLeak'
  BY <1>1, ConnsAssumption DEF Inv, NoLeak, TypeOK
<1>6. InSyncBlock' /\ WithinCapacity' /\ BlocksOnlyWhenFull'
  BY DEF Inv, InSyncBlock, WithinCapacity, BlocksOnlyWhenFull, TypeOK, Goto
<1>7. ReclaimsDefaults' /\ IdleHasDefaults'
  BY <1>1 DEF Inv, ReclaimsDefaults, IdleHasDefaults, TypeOK, Goto
<1> QED
  BY <1>2, <1>3, <1>4, <1>5, <1>6, <1>7 DEF Inv

LEMMA PollHitInv ==
  ASSUME Inv, NEW t \in Threads, PollHit(t)
  PROVE  Inv'
<1>1. handle[t] = None
  BY DEF Inv, Placement, PollHit, At
<1> QED
  BY <1>1, GetsHead DEF PollHit

LEMMA TakeInv ==
  ASSUME Inv, NEW t \in Threads, Take(t)
  PROVE  Inv'
<1>1. handle[t] = None
  BY DEF Inv, Placement, Take, At
<1> QED
  BY <1>1, GetsHead DEF Take

(* The one step that adds to allConnections: the capacity was checked when *)
(* the lock was entered, and the lock has kept other threads out since.    *)
LEMMA ConnectOkInv ==
  ASSUME Inv, NEW t \in Threads, NEW c \in Conns, ConnectOk(t, c)
  PROVE  Inv'
<1>1. /\ Cardinality(all) < MaxConns
      /\ Cardinality(all) \in Nat
      /\ Cardinality(all') = Cardinality(all) + 1
  BY SizeOfAll DEF Inv, InSyncBlock, ConnectOk, At
<1>2. \A u \in Threads : pc[u] = "connect" => u = t
  BY DEF Inv, InSyncBlock, ConnectOk, At
<1>3. c \notin IdleSet /\ (\A u \in Threads : handle[u] # c) /\ c # None
  BY ConnsAssumption DEF Inv, Placement, ConnectOk
<1>4. IdleSet' = IdleSet /\ idle' = idle
  BY DEF ConnectOk, IdleSet
<1>5. TypeOK'
  BY DEF Inv, TypeOK, ConnectOk, Goto, Positions, Links
<1>6. Placement' /\ OneOwner' /\ NoLeak'
  <2>1. handle' = [handle EXCEPT ![t] = c] /\ all' = all \cup {c}
    BY DEF ConnectOk
  <2>2. Placement'
    BY <1>3, <1>4, <2>1 DEF Inv, Placement, ConnectOk, At, Goto, TypeOK
  <2>3. OneOwner'
    BY <1>3, <1>4, <2>1 DEF Inv, OneOwner, TypeOK
  <2>4. handle[t] = None
    BY DEF Inv, Placement, ConnectOk, At
  <2>5. NoLeak'
    BY <1>4, <2>1, <2>4, ConnsAssumption DEF Inv, NoLeak, TypeOK
  <2> QED
    BY <2>2, <2>3, <2>5
<1>7. InSyncBlock' /\ WithinCapacity' /\ BlocksOnlyWhenFull'
  BY <1>1, <1>2, MaxConnsAssumption
  DEF Inv, InSyncBlock, WithinCapacity, BlocksOnlyWhenFull, ConnectOk, At, Goto, TypeOK
<1>8. ReclaimsDefaults' /\ IdleHasDefaults'
  BY <1>3, <1>4 DEF Inv, ReclaimsDefaults, IdleHasDefaults, ConnectOk, Goto, TypeOK
<1> QED
  BY <1>5, <1>6, <1>7, <1>8 DEF Inv

(* The one step that puts a connection into the queue.                     *)
LEMMA ReclaimInv ==
  ASSUME Inv, NEW t \in Threads, Reclaim(t)
  PROVE  Inv'
<1>1. handle[t] \in Conns /\ handle[t] \in all /\ handle[t] \notin IdleSet
  BY DEF Inv, TypeOK, Placement, OneOwner, Reclaim, At
<1>2. /\ idle' \in Seq(Conns) /\ IsInjective(idle')
      /\ IdleSet' = IdleSet \cup {handle[t]}
  BY <1>1, AppendNew DEF Inv, TypeOK, OneOwner, Reclaim, IdleSet
<1>3. TypeOK'
  BY <1>2 DEF Inv, TypeOK, Reclaim, Goto, Positions
<1>4. Placement'
  BY <1>1, <1>2 DEF Inv, Placement, TypeOK, Reclaim, Goto
<1>5. OneOwner'
  <2>1. IdleSet' \subseteq Conns
    BY <1>1, <1>2 DEF Inv, TypeOK, Placement
  <2> QED
    BY <1>1, <1>2, <2>1, ConnsAssumption DEF Inv, OneOwner, TypeOK, Reclaim
<1>6. NoLeak'
  BY <1>2 DEF Inv, NoLeak, TypeOK, Reclaim
<1>7. InSyncBlock' /\ WithinCapacity' /\ BlocksOnlyWhenFull'
  BY DEF Inv, InSyncBlock, WithinCapacity, BlocksOnlyWhenFull, TypeOK, Reclaim, Goto
<1>8. ReclaimsDefaults' /\ IdleHasDefaults'
  BY <1>2 DEF Inv, ReclaimsDefaults, IdleHasDefaults, TypeOK, Reclaim, At, Goto
<1> QED
  BY <1>3, <1>4, <1>5, <1>6, <1>7, <1>8 DEF Inv

(* The handle's parameters change only through the thread that has it.     *)
LEMMA ParamsInv ==
  ASSUME Inv, NEW t \in Threads, SetParams(t) \/ RestoreParams(t)
  PROVE  Inv'
<1>1. handle[t] \in Conns /\ handle[t] \notin IdleSet
  BY DEF Inv, TypeOK, Placement, OneOwner, SetParams, RestoreParams, At
<1>2. \A u \in Threads : handle[u] = handle[t] => u = t
  BY <1>1, ConnsAssumption DEF Inv, OneOwner
<1>3. TypeOK' /\ Placement'
  BY <1>1 DEF Inv, TypeOK, Placement, IdleSet, SetParams, RestoreParams, At, Goto, Positions
<1>4. OneOwner' /\ NoLeak' /\ InSyncBlock' /\ WithinCapacity' /\ BlocksOnlyWhenFull'
  BY DEF Inv, TypeOK, OneOwner, NoLeak, InSyncBlock, WithinCapacity, BlocksOnlyWhenFull,
         IdleSet, SetParams, RestoreParams, Goto
<1>5. ReclaimsDefaults' /\ IdleHasDefaults'
  BY <1>1, <1>2 DEF Inv, TypeOK, Placement, ReclaimsDefaults, IdleHasDefaults, IdleSet,
                    SetParams, RestoreParams, At, Goto
<1> QED
  BY <1>3, <1>4, <1>5 DEF Inv

(* The steps that neither move a connection nor change its parameters: a   *)
(* thread moves between positions without a handle, takes or leaves the    *)
(* lock, or sends a request.                                               *)
LEMMA WaitingInv ==
  ASSUME Inv, NEW t \in Threads,
         PollMiss(t) \/ EnterBelowCapacity(t) \/ EnterFull(t) \/ ConnectFail(t)
  PROVE  Inv'
<1> USE DEF PollMiss, EnterBelowCapacity, EnterFull, ConnectFail, At, Goto
<1>1. TypeOK' /\ Placement' /\ OneOwner' /\ NoLeak'
  BY DEF Inv, TypeOK, Placement, OneOwner, NoLeak, IdleSet, Positions
<1>2. InSyncBlock' /\ WithinCapacity' /\ BlocksOnlyWhenFull'
  BY SizeOfAll, ThreadsAssumption, MaxConnsAssumption
  DEF Inv, TypeOK, InSyncBlock, WithinCapacity, BlocksOnlyWhenFull
<1>3. ReclaimsDefaults' /\ IdleHasDefaults'
  BY DEF Inv, TypeOK, ReclaimsDefaults, IdleHasDefaults, IdleSet
<1> QED
  BY <1>1, <1>2, <1>3 DEF Inv

LEMMA RequestsInv ==
  ASSUME Inv, NEW t \in Threads,
         \/ CreateStatement(t) \/ Reply(t)
         \/ \E c \in Conns : DropStatement(t, c) \/ Request(t, c)
  PROVE  Inv'
<1> USE DEF CreateStatement, Reply, DropStatement, Request, At
<1>1. TypeOK'
  BY DEF Inv, TypeOK, Placement, Links
<1>2. UNCHANGED <<pc, handle, lock, idle, all, params>>
  OBVIOUS
<1> QED
  BY <1>1, <1>2
  DEF Inv, Placement, OneOwner, NoLeak, InSyncBlock, WithinCapacity, BlocksOnlyWhenFull,
      ReclaimsDefaults, IdleHasDefaults, IdleSet

LEMMA ClosePoolInv ==
  ASSUME Inv, NEW t \in Threads, ClosePool(t)
  PROVE  Inv'
<1> USE DEF ClosePool, PoolClose, PoolCloseEnter, PoolCloseSkip, PoolCloseSend, PoolCloseOk,
            PoolCloseThrow, PoolCloseDone, At, Goto
<1>1. TypeOK'
  BY DEF Inv, TypeOK, Positions, Links
<1>2. Placement' /\ OneOwner' /\ NoLeak'
  BY DEF Inv, TypeOK, Placement, OneOwner, NoLeak, IdleSet
<1>3. InSyncBlock' /\ WithinCapacity' /\ BlocksOnlyWhenFull'
  BY ThreadsAssumption DEF Inv, TypeOK, InSyncBlock, WithinCapacity, BlocksOnlyWhenFull
<1>4. ReclaimsDefaults' /\ IdleHasDefaults'
  BY DEF Inv, TypeOK, ReclaimsDefaults, IdleHasDefaults, IdleSet
<1> QED
  BY <1>1, <1>2, <1>3, <1>4 DEF Inv

LEMMA NextInv == Inv /\ [Next]_vars => Inv'
<1> SUFFICES ASSUME Inv, [Next]_vars PROVE Inv'
  OBVIOUS
<1>1. ASSUME NEW t \in Threads, GetConnection(t) PROVE Inv'
  BY <1>1, WaitingInv, PollHitInv, TakeInv, ConnectOkInv DEF GetConnection
<1>2. ASSUME NEW t \in Threads, UseHandle(t) PROVE Inv'
  BY <1>2, ParamsInv, RequestsInv DEF UseHandle
<1>3. ASSUME NEW t \in Threads, CloseHandle(t) PROVE Inv'
  BY <1>3, ParamsInv, ReclaimInv DEF CloseHandle
<1>4. ASSUME NEW t \in Threads, ClosePool(t) PROVE Inv'
  BY <1>4, ClosePoolInv
<1>5. CASE UNCHANGED vars
  BY <1>5 DEF vars, Inv, TypeOK, Placement, OneOwner, NoLeak, InSyncBlock, WithinCapacity,
              BlocksOnlyWhenFull, ReclaimsDefaults, IdleHasDefaults, IdleSet
<1> QED
  BY <1>1, <1>2, <1>3, <1>4, <1>5 DEF Next

LEMMA SpecInv == Spec => []Inv
BY InitInv, NextInv, PTL DEF Spec

-----------------------------------------------------------------------------
(* Theorems                                                                *)

(* Every variable keeps its type.                                          *)
THEOREM TypeCorrect == Spec => []TypeOK
BY SpecInv, PTL DEF Inv

(* getConnection and reclaim hand a physical connection to one handle at a *)
(* time, whatever the threads, the network and close() do.                 *)
THEOREM ConnectionsHaveOneOwner == Spec => []OneOwner
BY SpecInv, PTL DEF Inv

(* Whatever connect and close throw, a connection that was made is idle or *)
(* somebody's: the capacity never shrinks.                                 *)
THEOREM NoConnectionIsLost == Spec => []NoLeak
BY SpecInv, PTL DEF Inv

(* allConnections never outgrows the capacity.                             *)
THEOREM CapacityRespected == Spec => []WithinCapacity
BY SpecInv, PTL DEF Inv

(* take() is entered only with the pool at its capacity.                   *)
THEOREM WaitersHaveSomethingToWaitFor == Spec => []BlocksOnlyWhenFull
BY SpecInv, PTL DEF Inv

(* Every idle connection has the pool's parameters.                        *)
THEOREM BorrowersGetDefaults == Spec => []IdleHasDefaults
BY SpecInv, PTL DEF Inv
-----------------------------------------------------------------------------
(* The pool implements ConnectionLeases                                    *)

LEMMA InitImplements == Init => Leases!Init
BY DEF Init, Leases!Init, Asking

(* poll() and take() grant a connection nobody has.                        *)
LEMMA HeadIsGranted ==
  ASSUME Inv, NEW t \in Threads, PollHit(t) \/ Take(t)
  PROVE  Leases!Grant(t, Head(idle))
<1>1. Head(idle) \in IdleSet
  BY HeadAndTail DEF Inv, TypeOK, OneOwner, IdleSet, PollHit, Take
<1>2. Head(idle) \in Leases!Free
  BY <1>1 DEF Inv, Placement, OneOwner, Leases!Free
<1>3. Asking' = Asking \ {t}
  BY DEF Inv, TypeOK, Asking, PollHit, Take, At, Goto
<1>4. handle[t] = None /\ handle' = [handle EXCEPT ![t] = Head(idle)] /\ all' = all
  BY DEF Inv, Placement, PollHit, Take, At
<1> QED
  BY <1>2, <1>3, <1>4 DEF Leases!Grant

LEMMA NewIsGranted ==
  ASSUME Inv, NEW t \in Threads, NEW c \in Conns, ConnectOk(t, c)
  PROVE  Leases!GrantNew(t, c)
<1>1. Cardinality(all) < MaxConns
  BY DEF Inv, InSyncBlock, ConnectOk, At
<1>2. t \in Asking /\ Asking' = Asking \ {t}
  BY DEF Inv, TypeOK, Asking, ConnectOk, At, Goto
<1> QED
  BY <1>1, <1>2 DEF ConnectOk, Leases!GrantNew, Cardinality, Leases!Cardinality

LEMMA FailureRefuses ==
  ASSUME Inv, NEW t \in Threads, ConnectFail(t)
  PROVE  Leases!Refuse(t)
<1>1. Cardinality(all) < MaxConns
  BY DEF Inv, InSyncBlock, ConnectFail, At
<1>2. t \in Asking /\ Asking' = Asking \ {t}
  BY DEF Inv, TypeOK, Asking, ConnectFail, At, Goto
<1> QED
  BY <1>1, <1>2 DEF ConnectFail, Leases!Refuse, Cardinality, Leases!Cardinality

LEMMA MissAsks ==
  ASSUME Inv, NEW t \in Threads, PollMiss(t)
  PROVE  Leases!Ask(t)
<1>1. handle[t] = None
  BY DEF Inv, Placement, PollMiss, At
<1>2. t \notin Asking /\ Asking' = Asking \cup {t}
  BY DEF Inv, TypeOK, Asking, PollMiss, At, Goto
<1> QED
  BY <1>1, <1>2 DEF PollMiss, Leases!Ask

LEMMA ReclaimGivesBack ==
  ASSUME Inv, NEW t \in Threads, Reclaim(t)
  PROVE  Leases!GiveBack(t)
<1>1. handle[t] # None
  BY DEF Inv, Placement, Reclaim, At
<1>2. Asking' = Asking
  BY DEF Inv, TypeOK, Asking, Reclaim, At, Goto
<1> QED
  BY <1>1, <1>2 DEF Reclaim, Leases!GiveBack

LEMMA OtherStepsStutter ==
  ASSUME Inv, NEW t \in Threads,
         \/ EnterBelowCapacity(t) \/ EnterFull(t) \/ UseHandle(t)
         \/ RestoreParams(t) \/ ClosePool(t)
  PROVE  UNCHANGED Leases!vars
<1> USE DEF EnterBelowCapacity, EnterFull, UseHandle, SetParams, CreateStatement, DropStatement,
            Request, Reply, RestoreParams, ClosePool, PoolClose, PoolCloseEnter, PoolCloseSkip,
            PoolCloseSend, PoolCloseOk, PoolCloseThrow, PoolCloseDone, At, Goto
<1>1. handle' = handle /\ all' = all
  OBVIOUS
<1>2. Asking' = Asking
  BY DEF Inv, TypeOK, Asking
<1> QED
  BY <1>1, <1>2 DEF Leases!vars

LEMMA StepImplements == Inv /\ [Next]_vars => [Leases!Next]_(Leases!vars)
<1> SUFFICES ASSUME Inv, [Next]_vars PROVE [Leases!Next]_(Leases!vars)
  OBVIOUS
<1>1. ASSUME NEW t \in Threads, GetConnection(t) PROVE [Leases!Next]_(Leases!vars)
  <2>1. CASE PollHit(t) \/ Take(t)
    <3>1. Head(idle) \in Conns
      BY <2>1, HeadAndTail DEF Inv, TypeOK, OneOwner, PollHit, Take
    <3> QED
      BY <2>1, <3>1, HeadIsGranted DEF Leases!Next
  <2>2. CASE \E c \in Conns : ConnectOk(t, c)
    BY <2>2, NewIsGranted DEF Leases!Next
  <2>3. CASE PollMiss(t) \/ ConnectFail(t)
    BY <2>3, MissAsks, FailureRefuses DEF Leases!Next
  <2>4. CASE EnterBelowCapacity(t) \/ EnterFull(t)
    BY <2>4, OtherStepsStutter
  <2> QED
    BY <1>1, <2>1, <2>2, <2>3, <2>4 DEF GetConnection
<1>2. ASSUME NEW t \in Threads, CloseHandle(t) PROVE [Leases!Next]_(Leases!vars)
  BY <1>2, ReclaimGivesBack, OtherStepsStutter DEF CloseHandle, Leases!Next
<1>3. ASSUME NEW t \in Threads, UseHandle(t) \/ ClosePool(t)
      PROVE  [Leases!Next]_(Leases!vars)
  BY <1>3, OtherStepsStutter
<1>4. CASE UNCHANGED vars
  BY <1>4 DEF vars, Leases!vars, Asking
<1> QED
  BY <1>1, <1>2, <1>3, <1>4 DEF Next

(* Every behaviour of the pool is one of the abstract pool's, which leases *)
(* each connection to one caller, stays within MaxConns and turns a caller *)
(* away only while it is below it.                                         *)
THEOREM PoolImplementsLeases == Spec => ImplementsLeases
BY SpecInv, InitImplements, StepImplements, PTL DEF Spec, Leases!Spec, ImplementsLeases
-----------------------------------------------------------------------------
(* Applications that use statements only behind the handle and close the   *)
(* pool when its threads are done                                          *)

(* Only the holder of a connection, or the thread that closes the pool,    *)
(* has a request on it.                                                    *)
CallersAreOwners ==
  \A t \in Threads : call[t] # None =>
    \/ pc[t] = "hold" /\ call[t] = handle[t]
    \/ pc[t] = "closing" /\ call[t] \in unvisited

(* While one thread closes the pool, and after that, the others are out.   *)
ClosingIsAlone ==
  /\ \A t, u \in Threads : pc[t] \in {"poolLock", "closing"} /\ u # t => pc[u] = "out"
  /\ closed => \A t \in Threads : pc[t] \in {"out", "poolLock", "closing"}

(* What the walk over allConnections has left behind is closed.            *)
VisitedAreClosed ==
  \A t \in Threads : pc[t] = "closing" => \A c \in all \ unvisited : link[c] = "closed"

QuietInv ==
  Inv /\ CallersAreOwners /\ ClosingIsAlone /\ VisitedAreClosed /\ ClosedPoolIsClosed

LEMMA InitQuietInv == Init => QuietInv
BY InitInv DEF Init, QuietInv, CallersAreOwners, ClosingIsAlone, VisitedAreClosed,
               ClosedPoolIsClosed

LEMMA GetConnectionQuiet ==
  ASSUME ~Busy, QuietInv, NEW t \in Threads, GetConnection(t)
  PROVE  CallersAreOwners' /\ ClosingIsAlone' /\ VisitedAreClosed' /\ ClosedPoolIsClosed'
<1> USE DEF GetConnection, PollHit, PollMiss, EnterBelowCapacity, EnterFull, ConnectOk,
            ConnectFail, Take, At, Goto
<1>1. ~closed /\ \A u \in Threads : pc[u] \notin {"poolLock", "closing"}
  BY DEF QuietInv, ClosingIsAlone, MayAsk
<1>2. call' = call /\ call[t] = None /\ closed' = closed
  OBVIOUS
<1>3. /\ \A u \in Threads \ {t} : pc'[u] = pc[u] /\ handle'[u] = handle[u]
      /\ pc'[t] \notin {"poolLock", "closing"}
  BY DEF QuietInv, Inv, TypeOK
<1>4. CallersAreOwners'
  BY <1>1, <1>2, <1>3 DEF QuietInv, CallersAreOwners
<1>5. ClosingIsAlone' /\ VisitedAreClosed' /\ ClosedPoolIsClosed'
  BY <1>1, <1>2, <1>3 DEF ClosingIsAlone, VisitedAreClosed, ClosedPoolIsClosed
<1> QED
  BY <1>4, <1>5

LEMMA UseHandleQuiet ==
  ASSUME ~Busy, QuietInv, NEW t \in Threads, UseHandle(t)
  PROVE  CallersAreOwners' /\ ClosingIsAlone' /\ VisitedAreClosed' /\ ClosedPoolIsClosed'
<1> USE DEF UseHandle, SetParams, CreateStatement, DropStatement, Request, Reply, At
<1>1. UNCHANGED <<pc, handle, all, unvisited, closed>>
  OBVIOUS
<1>2. \A c \in Conns : link[c] = "closed" => link'[c] = "closed"
  BY DEF QuietInv, Inv, TypeOK
<1>3. CallersAreOwners'
  <2>1. handle[t] # None <=> pc[t] \in {"hold", "reclaim"}
    BY DEF QuietInv, Inv, Placement
  <2> QED
    BY <1>1, <2>1, ConnsAssumption DEF QuietInv, Inv, TypeOK, CallersAreOwners
<1>4. ClosingIsAlone' /\ VisitedAreClosed' /\ ClosedPoolIsClosed'
  BY <1>1, <1>2 DEF QuietInv, Inv, TypeOK, ClosingIsAlone, VisitedAreClosed, ClosedPoolIsClosed
<1> QED
  BY <1>3, <1>4

LEMMA CloseHandleQuiet ==
  ASSUME ~Busy, QuietInv, NEW t \in Threads, CloseHandle(t)
  PROVE  CallersAreOwners' /\ ClosingIsAlone' /\ VisitedAreClosed' /\ ClosedPoolIsClosed'
<1> USE DEF CloseHandle, RestoreParams, Reclaim, At, Goto
<1>1. call[t] = None /\ UNCHANGED <<call, all, unvisited, closed, link>>
  OBVIOUS
<1>2. ~closed /\ \A u \in Threads : pc[u] \notin {"poolLock", "closing"}
  BY DEF QuietInv, ClosingIsAlone
<1>3. /\ \A u \in Threads \ {t} : pc'[u] = pc[u] /\ handle'[u] = handle[u]
      /\ pc'[t] \notin {"poolLock", "closing"}
  BY DEF QuietInv, Inv, TypeOK
<1> QED
  BY <1>1, <1>2, <1>3
  DEF QuietInv, CallersAreOwners, ClosingIsAlone, VisitedAreClosed, ClosedPoolIsClosed

LEMMA ClosePoolQuiet ==
  ASSUME ~Busy, QuietInv, NEW t \in Threads, ClosePool(t)
  PROVE  CallersAreOwners' /\ ClosingIsAlone' /\ VisitedAreClosed' /\ ClosedPoolIsClosed'
<1> USE DEF ClosePool, PoolClose, PoolCloseEnter, PoolCloseSkip, PoolCloseSend, PoolCloseOk,
            PoolCloseThrow, PoolCloseDone, Quiescent, At, Goto
<1>1. \A u \in Threads \ {t} : pc[u] = "out" /\ call[u] = None
  <2>1. \A u \in Threads \ {t} : pc[u] = "out"
    BY DEF QuietInv, ClosingIsAlone
  <2> QED
    BY <2>1 DEF QuietInv, CallersAreOwners
<1>2. /\ \A u \in Threads \ {t} : pc'[u] = "out" /\ call'[u] = None
      /\ pc'[t] \in {"out", "poolLock", "closing"}
      /\ all' = all /\ handle' = handle
  BY <1>1 DEF QuietInv, Inv, TypeOK
<1>3. \A c \in Conns : link[c] = "closed" => link'[c] = "closed"
  BY DEF QuietInv, Inv, TypeOK
<1>4. call[t] # None => pc[t] = "closing" /\ call[t] \in unvisited
  BY DEF QuietInv, CallersAreOwners
<1>5. CallersAreOwners' /\ ClosingIsAlone'
  BY <1>2, <1>4, ConnsAssumption DEF QuietInv, Inv, TypeOK, CallersAreOwners, ClosingIsAlone
<1>6. VisitedAreClosed'
  <2> SUFFICES ASSUME pc'[t] = "closing", NEW c \in all \ unvisited'
               PROVE  link'[c] = "closed"
    BY <1>2 DEF VisitedAreClosed
  <2> QED
    BY <1>2, <1>3, <1>4 DEF QuietInv, Inv, TypeOK, VisitedAreClosed
<1>7. ClosedPoolIsClosed'
  BY <1>2, <1>3 DEF QuietInv, Inv, TypeOK, VisitedAreClosed, ClosedPoolIsClosed
<1> QED
  BY <1>5, <1>6, <1>7

LEMMA NextQuietInv == ~Busy /\ QuietInv /\ [Next]_vars => QuietInv'
<1> SUFFICES ASSUME ~Busy, QuietInv, [Next]_vars PROVE QuietInv'
  OBVIOUS
<1>1. Inv'
  BY NextInv DEF QuietInv
<1>2. CASE UNCHANGED vars
  BY <1>1, <1>2 DEF vars, QuietInv, CallersAreOwners, ClosingIsAlone, VisitedAreClosed,
                    ClosedPoolIsClosed
<1>3. CASE Next
  BY <1>1, <1>3, GetConnectionQuiet, UseHandleQuiet, CloseHandleQuiet, ClosePoolQuiet
  DEF Next, QuietInv
<1> QED
  BY <1>2, <1>3

(* With such an application two threads never have a request outstanding   *)
(* on the same physical connection, on which S2R has no lock ...           *)
THEOREM QuietUseIsExclusive == ~Busy => (Spec => []OneRequestPerConnection)
<1> SUFFICES ASSUME ~Busy PROVE Spec => []OneRequestPerConnection
  OBVIOUS
<1>1. QuietInv => OneRequestPerConnection
  BY DEF QuietInv, Inv, OneOwner, Placement, CallersAreOwners, ClosingIsAlone,
         OneRequestPerConnection
<1> QED
  BY <1>1, InitQuietInv, NextQuietInv, PTL DEF Spec

(* ... and a pool close that returned normally left no connection open.    *)
THEOREM QuietCloseIsComplete == ~Busy => (Spec => []ClosedPoolIsClosed)
<1> SUFFICES ASSUME ~Busy PROVE Spec => []ClosedPoolIsClosed
  OBVIOUS
<1>1. QuietInv => ClosedPoolIsClosed
  BY DEF QuietInv
<1> QED
  BY <1>1, InitQuietInv, NextQuietInv, PTL DEF Spec
=============================================================================
