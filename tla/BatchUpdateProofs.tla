------------------------- MODULE BatchUpdateProofs -------------------------
(* Proofs about BatchUpdate, for batches and rows of any length: what the  *)
(* numbers of the results mean, where a batch stops, that its counts lose  *)
(* nothing, and that every row that is stored gets its own streams.        *)
EXTENDS BatchUpdate, FiniteSetTheorems, WellFoundedInduction, TLAPS

(* The first item starts an SQL, and only SQLs with parameters have rows.  *)
Formed ==
  /\ N > 0 => items[1].opens
  /\ \A i \in 1..(N - 1) :
       items[i].opens /\ items[i].params = 0 => items[i + 1].opens

Position ==
  /\ at \in 1..(N + 1)
  /\ phase = "sql" /\ at <= N => items[at].opens
  /\ phase = "row" => at <= N
  /\ phase = "done" => at = N + 1 \/ hasFailed

Fresh ==
  phase = "build" =>
    /\ at = 1 /\ sqlIndex = 0 /\ ~hasFailed /\ reply = <<>>
    /\ tried = {} /\ succeeded = {}

(* What was executed, and that a batch that stops does so.                 *)
Executed ==
  /\ tried \subseteq 1..(at - 1)
  /\ ~hasFailed => succeeded = 1..(at - 1)
  /\ StopsAtFirstFailure

(* The counts of successes are those of rows.                              *)
Counts == dbtype # "freetds"

(* The first entry of a failure is about the first item that failed; those *)
(* before it are about items before it.                                    *)
Failure(k) ==
  /\ reply[k].count < 0
  /\ \A j \in 1..(k - 1) : /\ reply[j].index \in 1..reply[k].index
                           /\ Counts => reply[j].count > 0
  /\ reply[k].index \in 1..(at - 1)
  /\ 1..(reply[k].index - 1) \subseteq succeeded
  /\ reply[k].index \notin succeeded

FirstFailure ==
  /\ ~hasFailed => \A k \in 1..Len(reply) : /\ reply[k].index \in 1..(at - 1)
                                            /\ Counts => reply[k].count > 0
  /\ hasFailed => \E k \in 1..Len(reply) : Failure(k)

(* While nothing was skipped by another count than that of the rows, the   *)
(* plugin's number is that of the item.                                    *)
Counted ==
  /\ ~hasFailed => sqlIndex = at - 1
  /\ CountsRows /\ resume => sqlIndex = at - 1

Numbered ==
  CountsRows \/ ~resume =>
    /\ \A k \in 1..Len(reply) :
         /\ reply[k].index < at
         /\ reply[k].count > 0 => reply[k].index \in succeeded
         /\ Counts /\ reply[k].index \in succeeded => reply[k].count > 0
    /\ \A i \in succeeded : \E k \in 1..Len(reply) : reply[k].index = i

Inv ==
  /\ TypeOK
  /\ Formed /\ Position /\ Fresh
  /\ Executed
  /\ FirstFailure
  /\ Counted /\ Numbered

-----------------------------------------------------------------------------
(* Smallest elements                                                       *)

LEMMA NatOrder ==
  \E R : IsWellFoundedOn(R, Nat) /\ \A x, y \in Nat : x < y => <<x, y>> \in R
<1> DEFINE R == OpToRel(<, Nat)
<1>1. \A x, y \in Nat : x < y => <<x, y>> \in R
  BY DEF OpToRel
<1>2. IsWellFoundedOn(R, Nat)
  BY NatLessThanWellFounded, Zenon
<1> HIDE DEF R
<1> QED
  BY <1>1, <1>2

LEMMA MinIn ==
  ASSUME NEW S \in SUBSET Nat, S # {}
  PROVE  Min(S) \in S /\ \A y \in S : Min(S) <= y
<1>1. PICK R : IsWellFoundedOn(R, Nat) /\ \A x, y \in Nat : x < y => <<x, y>> \in R
  BY NatOrder
<1>2. PICK x \in S : \A y \in S : ~(<<y, x>> \in R)
  <2>1. S \subseteq Nat /\ S # {} /\ IsWellFoundedOn(R, Nat)
    BY <1>1
  <2> QED
    BY <2>1, WFMin, Zenon
<1>3. \A y \in S : x <= y
  <2> SUFFICES ASSUME NEW y \in S PROVE x <= y
    OBVIOUS
  <2>1. x \in Nat /\ y \in Nat /\ ~(y < x)
    BY <1>1, <1>2
  <2> QED
    BY <2>1
<1> QED
  BY <1>3 DEF Min

LEMMA MinIs ==
  ASSUME NEW S \in SUBSET Nat, NEW m \in S, \A y \in S : m <= y
  PROVE  Min(S) = m
<1> DEFINE n == Min(S)
<1>1. n \in S /\ \A y \in S : n <= y
  BY MinIn
<1> HIDE DEF n
<1>2. n <= m /\ m <= n /\ n \in Nat /\ m \in Nat
  BY <1>1
<1>3. n = m
  BY <1>2
<1> QED
  BY <1>3 DEF n

(* The SQL after item i, or the end of the batch.                          *)
LEMMA NextSqlIs ==
  ASSUME items \in Seq(Item), NEW i \in 1..N
  PROVE  /\ NextSql(i) \in (i + 1)..(N + 1)
         /\ NextSql(i) <= N => items[NextSql(i)].opens
         /\ \A j \in (i + 1)..(NextSql(i) - 1) : ~items[j].opens
<1> DEFINE S == {j \in (i + 1)..N : items[j].opens} \cup {N + 1}
<1>1. N \in Nat
  BY DEF N
<1>2. S \in SUBSET Nat /\ S # {} /\ \A j \in S : j \in (i + 1)..(N + 1)
  BY <1>1
<1>3. Min(S) \in S /\ \A y \in S : Min(S) <= y
  BY <1>2, MinIn
<1>4. NextSql(i) = Min(S)
  BY DEF NextSql
<1>5. ASSUME NEW j \in (i + 1)..(Min(S) - 1), items[j].opens PROVE FALSE
  <2>1. Min(S) \in (i + 1)..(N + 1)
    BY <1>2, <1>3
  <2>2. j \in (i + 1)..N
    BY <1>1, <1>5, <2>1
  <2>3. j \in S
    BY <1>5, <2>2
  <2> QED
    BY <1>1, <1>3, <2>1, <2>2, <2>3
<1>6. Min(S) <= N => items[Min(S)].opens
  BY <1>1, <1>3
<1> QED
  BY <1>2, <1>3, <1>4, <1>5, <1>6

-----------------------------------------------------------------------------
(* The sum of the failures, by the smallest index for which it would fail  *)

(* What an entry adds to getFailures().                                    *)
Failed(entry) == IF entry.count < 0 THEN entry.count ELSE 0

(* f[k] is the sum of the negative counts of the first k entries.          *)
Adds(f, entries) ==
  /\ f \in [0..Len(entries) -> Int]
  /\ f[0] = 0
  /\ \A k \in 1..Len(entries) : f[k] = f[k - 1] + Failed(entries[k])

LEMMA FailedIsInt ==
  ASSUME NEW entry \in Entries PROVE Failed(entry) \in Int
<1>1. entry.count \in Int
  BY DEF Entries
<1> QED
  BY <1>1 DEF Failed

(* What adds up as the function of SumOfFailures does is that function.    *)
LEMMA SumIs ==
  ASSUME NEW entries \in Seq(Entries), NEW f, Adds(f, entries)
  PROVE  SumOfFailures(entries) = f[Len(entries)]
<1> DEFINE L == Len(entries)
           Rec(g, k) == IF k = 0 THEN 0
                        ELSE IF entries[k].count < 0 THEN g[k - 1] + entries[k].count
                        ELSE g[k - 1]
           g == CHOOSE h : h = [k \in 0..L |-> Rec(h, k)]
<1>1. L \in Nat /\ f \in [0..L -> Int]
  BY DEF Adds
<1>2. f = [k \in 0..L |-> Rec(f, k)]
  <2>1. ASSUME NEW k \in 0..L PROVE f[k] = Rec(f, k)
    <3>1. CASE k = 0
      BY <3>1 DEF Adds
    <3>2. CASE k # 0
      <4>1. k \in 1..L
        BY <1>1, <3>2
      <4>2. entries[k] \in Entries /\ k - 1 \in 0..L
        BY <1>1, <4>1
      <4>3. entries[k].count \in Int /\ f[k - 1] \in Int
        BY <1>1, <4>2 DEF Entries
      <4>4. f[k] = f[k - 1] + Failed(entries[k])
        BY <4>1 DEF Adds
      <4> QED
        BY <3>2, <4>3, <4>4 DEF Failed
    <3> QED
      BY <3>1, <3>2
  <2> HIDE DEF Rec
  <2> QED
    BY <1>1, <2>1
<1>3. SumOfFailures(entries) = g[L]
  BY DEF SumOfFailures
<1> HIDE DEF Rec
<1>4. g = [k \in 0..L |-> Rec(g, k)]
  BY <1>2, Zenon
<1> HIDE DEF g
<1> DEFINE Differ == {k \in 0..L : g[k] # f[k]}
<1>5. ASSUME Differ # {} PROVE FALSE
  <2> DEFINE m == Min(Differ)
  <2>1. m \in Differ /\ \A y \in Differ : m <= y
    <3>1. Differ \in SUBSET Nat
      BY <1>1
    <3> QED
      BY <1>5, <3>1, MinIn, Zenon
  <2> HIDE DEF m
  <2>2. m \in 0..L /\ g[m] # f[m]
    BY <2>1
  <2>3. g[m] = Rec(g, m) /\ f[m] = Rec(f, m)
    BY <1>2, <1>4, <2>2
  <2>4. m # 0
    BY <2>2, <2>3 DEF Rec
  <2>5. m - 1 \in 0..L /\ m - 1 \notin Differ
    BY <1>1, <2>1, <2>2, <2>4
  <2>6. g[m - 1] = f[m - 1]
    BY <2>5
  <2>7. Rec(g, m) = Rec(f, m)
    BY <2>6 DEF Rec
  <2> QED
    BY <2>2, <2>3, <2>7
<1>6. L \in 0..L /\ L \notin Differ
  BY <1>1, <1>5
<1> QED
  BY <1>3, <1>6

(* There is such a function for every list of entries.                     *)
LEMMA SumsExist ==
  ASSUME NEW entries \in Seq(Entries) PROVE \E f : Adds(f, entries)
<1> DEFINE L == Len(entries)
           Part(f, n) ==
             /\ f \in [0..n -> Int] /\ f[0] = 0
             /\ \A k \in 1..n : f[k] = f[k - 1] + Failed(entries[k])
           None == {n \in 0..L : ~\E f : Part(f, n)}
<1>1. L \in Nat
  OBVIOUS
<1>2. ASSUME None # {} PROVE FALSE
  <2> DEFINE m == Min(None)
  <2>1. m \in None /\ \A y \in None : m <= y
    <3>1. None \in SUBSET Nat
      BY <1>1
    <3> QED
      BY <1>2, <3>1, MinIn, Zenon
  <2> HIDE DEF m
  <2>2. m \in 0..L /\ ~\E f : Part(f, m)
    BY <2>1
  <2> HIDE DEF None
  <2>3. m # 0
    <3> DEFINE zero == [k \in 0..0 |-> 0]
    <3>1. zero \in [0..0 -> Int] /\ zero[0] = 0 /\ 1..0 = {}
      OBVIOUS
    <3> HIDE DEF zero
    <3>2. Part(zero, 0)
      BY <3>1
    <3> QED
      BY <2>2, <3>2
  <2>4. m - 1 \in 0..L /\ m - 1 \notin None /\ m \in 1..L /\ m \in Nat
    BY <1>1, <2>1, <2>2, <2>3
  <2>5. PICK f : Part(f, m - 1)
    BY <2>4 DEF None
  <2> DEFINE more == f[m - 1] + Failed(entries[m])
             h == [k \in 0..m |-> IF k = m THEN more ELSE f[k]]
  <2>6. more \in Int
    <3>1. entries[m] \in Entries /\ m - 1 \in 0..(m - 1)
      BY <2>4
    <3>2. Failed(entries[m]) \in Int
      BY <3>1, FailedIsInt
    <3> QED
      BY <2>5, <3>1, <3>2
  <2>7. /\ h \in [0..m -> Int] /\ h[m] = more
        /\ \A k \in 0..(m - 1) : h[k] = f[k]
    <3>1. \A k \in 0..m : k # m => k \in 0..(m - 1)
      BY <2>4
    <3>2. \A k \in 0..(m - 1) : k \in 0..m /\ k # m
      BY <2>4
    <3>3. m \in 0..m
      BY <2>4
    <3> HIDE DEF more
    <3> QED
      BY <2>5, <2>6, <3>1, <3>2, <3>3
  <2> HIDE DEF h
  <2>8. Part(h, m)
    <3>1. 0 \in 0..(m - 1) /\ m - 1 \in 0..(m - 1)
      BY <2>4
    <3>2. ASSUME NEW k \in 1..m PROVE h[k] = h[k - 1] + Failed(entries[k])
      <4>1. CASE k = m
        BY <2>7, <3>1, <4>1
      <4>2. CASE k # m
        <5>1. k \in 1..(m - 1) /\ k \in 0..(m - 1) /\ k - 1 \in 0..(m - 1)
          BY <2>4, <4>2
        <5> QED
          BY <2>5, <2>7, <5>1
      <4> QED
        BY <4>1, <4>2
    <3> QED
      BY <2>5, <2>7, <3>1, <3>2
  <2> QED
    BY <2>2, <2>8
<1>3. L \in 0..L /\ L \notin None
  <2> HIDE DEF None
  <2> QED
    BY <1>1, <1>2
<1>4. PICK f : Part(f, L)
  BY <1>3
<1> QED
  BY <1>4 DEF Adds

(* getFailures() of no entries, and of one more.                           *)
LEMMA NoFailures == SumOfFailures(<<>>) = 0
<1>1. <<>> \in Seq(Entries) /\ Len(<<>>) = 0
  OBVIOUS
<1>2. PICK f : Adds(f, <<>>)
  BY <1>1, SumsExist
<1> QED
  BY <1>1, <1>2, SumIs DEF Adds

LEMMA FailuresAdd ==
  ASSUME NEW entries \in Seq(Entries), NEW entry \in Entries
  PROVE  /\ SumOfFailures(entries) \in Int
         /\ SumOfFailures(Append(entries, entry)) = SumOfFailures(entries) + Failed(entry)
<1> DEFINE longer == Append(entries, entry)
           L == Len(entries)
<1>1. /\ longer \in Seq(Entries) /\ L \in Nat /\ Len(longer) = L + 1
      /\ longer[L + 1] = entry /\ \A k \in 1..L : longer[k] = entries[k]
  OBVIOUS
<1> HIDE DEF longer
<1>2. PICK f : Adds(f, longer)
  BY <1>1, SumsExist
<1>3. SumOfFailures(longer) = f[L + 1] /\ f[L + 1] = f[L] + Failed(entry)
  <2>1. L + 1 \in 1..(L + 1) /\ (L + 1) - 1 = L
    BY <1>1
  <2> QED
    BY <1>1, <1>2, <2>1, SumIs DEF Adds
<1> DEFINE g == [k \in 0..L |-> f[k]]
<1>4. Adds(g, entries)
  <2>1. \A k \in 0..L : k \in 0..(L + 1) /\ g[k] = f[k]
    BY <1>1
  <2>2. g \in [0..L -> Int]
    BY <1>1, <1>2, <2>1 DEF Adds
  <2> HIDE DEF g
  <2>3. ASSUME NEW k \in 1..L PROVE g[k] = g[k - 1] + Failed(entries[k])
    <3>1. k \in 0..L /\ k - 1 \in 0..L /\ k \in 1..(L + 1)
      BY <1>1
    <3> QED
      BY <1>1, <1>2, <2>1, <3>1 DEF Adds
  <2>4. g[0] = 0
    BY <1>1, <1>2, <2>1 DEF Adds
  <2> QED
    BY <2>2, <2>3, <2>4 DEF Adds
<1>5. SumOfFailures(entries) = g[L] /\ g[L] = f[L] /\ g[L] \in Int
  <2>1. L \in 0..L
    BY <1>1
  <2> QED
    BY <1>4, <2>1, SumIs DEF Adds
<1> QED
  BY <1>3, <1>5 DEF longer

-----------------------------------------------------------------------------
(* The batch is built                                                      *)

LEMMA InitInv == Init => Inv
<1> SUFFICES ASSUME Init PROVE Inv
  OBVIOUS
<1>1. N = 0 /\ Len(items) = 0 /\ Len(reply) = 0
  BY DEF Init, N
<1>2. TypeOK
  <2>1. items \in Seq(Item) /\ reply \in Seq(Entries) /\ streamParams \in Nat
    BY DEF Init
  <2>2. /\ dbtype \in Plugins /\ transport \in Transports
        /\ N <= MaxItems /\ at \in 1..(MaxItems + 1) /\ sqlIndex \in Nat /\ pos \in Nat
        /\ tried = {} /\ succeeded = {} /\ stored = {} /\ drained = {}
        /\ phase = "build"
    BY <1>1, BoundsAssumption DEF Init
  <2>3. resume \in BOOLEAN /\ hasFailed \in BOOLEAN
    BY DEF Init
  <2> QED
    BY <1>1, <2>1, <2>2, <2>3 DEF TypeOK
<1>3. Formed /\ Position /\ Fresh
  BY <1>1 DEF Init, Formed, Position, Fresh
<1>4. Executed /\ FirstFailure /\ Counted /\ Numbered
  BY <1>1 DEF Init, Executed, FirstFailure, Counted, Numbered, StopsAtFirstFailure
<1> QED
  BY <1>2, <1>3, <1>4 DEF Inv

(* What holds as long as nothing was executed.                             *)
LEMMA FreshIsFine ==
  ASSUME at = 1, sqlIndex = 0, ~hasFailed, reply = <<>>, tried = {}, succeeded = {}
  PROVE  Executed /\ FirstFailure /\ Counted /\ Numbered
  BY DEF Executed, FirstFailure, Counted, Numbered, StopsAtFirstFailure

(* One more item, or one more parameter of the last one.                   *)
Builds ==
  /\ phase = "build"
  /\ items' \in Seq(Item) /\ Len(items') <= MaxItems /\ streamParams' \in Nat
  /\ Len(items') >= Len(items)
  /\ UNCHANGED <<dbtype, transport, resume, plugin, streams, history>>

LEMMA BuildKeeps ==
  ASSUME Inv, Builds, Formed' PROVE Inv'
<1>1. /\ at = 1 /\ sqlIndex = 0 /\ ~hasFailed /\ reply = <<>> /\ tried = {} /\ succeeded = {}
      /\ UNCHANGED <<dbtype, transport, resume, phase, at, sqlIndex, hasFailed, reply, pos,
                     drained, tried, succeeded, stored>>
  BY DEF Inv, Fresh, Builds, plugin, streams, history
<1>2. N' = Len(items') /\ N' \in Nat /\ phase = "build"
  BY DEF Builds, N
<1>3. TypeOK'
  BY <1>1, <1>2 DEF Inv, TypeOK, Builds, N
<1>4. Position' /\ Fresh'
  BY <1>1, <1>2 DEF Position, Fresh
<1>5. (Executed /\ FirstFailure /\ Counted /\ Numbered)'
  BY <1>1 DEF Executed, FirstFailure, Counted, Numbered, StopsAtFirstFailure
<1> QED
  BY <1>3, <1>4, <1>5 DEF Inv

(* An item is added, with no parameters yet.                               *)
LEMMA ItemAdded ==
  ASSUME TypeOK, NEW opens \in BOOLEAN, NEW holes \in 1..MaxParams,
         items' = Append(items, NewItem(opens, holes))
  PROVE  /\ items' \in Seq(Item) /\ N' = N + 1 /\ N \in Nat
         /\ items'[N + 1] = NewItem(opens, holes)
         /\ \A i \in 1..N : items'[i] = items[i]
<1> DEFINE new == NewItem(opens, holes)
<1>1. items \in Seq(Item) /\ new \in Item
  BY BoundsAssumption DEF TypeOK, NewItem, Item
<1> HIDE DEF new
<1>2. items' = Append(items, new)
  BY DEF new
<1>3. /\ items' \in Seq(Item) /\ Len(items') = Len(items) + 1 /\ Len(items) \in Nat
      /\ items'[Len(items) + 1] = new
      /\ \A i \in 1..Len(items) : items'[i] = items[i]
  BY <1>1, <1>2
<1> QED
  BY <1>3 DEF new, N

(* The last item has another parameter, perhaps a stream.                  *)
LEMMA ParamBound ==
  ASSUME TypeOK, NEW isStream \in BOOLEAN, Bind(isStream)
  PROVE  /\ items' \in Seq(Item) /\ N' = N /\ N \in Nat /\ N \in 1..N
         /\ items'[N].opens = items[N].opens /\ items'[N].first = items[N].first
         /\ items'[N].params = items[N].params + 1
         /\ items'[N].streams = items[N].streams + (IF isStream THEN 1 ELSE 0)
         /\ streamParams' = streamParams + (IF isStream THEN 1 ELSE 0)
         /\ \A i \in 1..(N - 1) : items'[i] = items[i]
<1> DEFINE more == IF isStream THEN 1 ELSE 0
           old == items[N]
           new == [old EXCEPT !.params = @ + 1, !.streams = @ + more]
<1>1. /\ items \in Seq(Item) /\ N = Len(items) /\ N \in Nat /\ N \in 1..N
      /\ MaxParams \in Nat /\ streamParams \in Nat /\ old.params < MaxParams
  BY BoundsAssumption DEF TypeOK, Bind, N
<1>2. old \in Item
  BY <1>1
<1>3. items' = [items EXCEPT ![N] = new] /\ streamParams' = streamParams + more
  BY DEF Bind
<1> HIDE DEF old
<1>4. more \in Nat /\ more = (IF isStream THEN 1 ELSE 0)
  OBVIOUS
<1> HIDE DEF more
<1>5. /\ new \in Item /\ new.opens = old.opens /\ new.first = old.first
      /\ new.params = old.params + 1 /\ new.streams = old.streams + more
  <2> DEFINE params == old.params + 1
             streams2 == old.streams + more
  <2>1. old.params \in 0..MaxParams /\ old.streams \in Nat
    BY <1>2 DEF Item
  <2>2. params \in 0..MaxParams /\ streams2 \in Nat
    BY <1>1, <1>4, <2>1
  <2>3. new = [old EXCEPT !.params = params, !.streams = streams2]
    OBVIOUS
  <2> HIDE DEF params, streams2, new
  <2>4. /\ new \in Item /\ new.opens = old.opens /\ new.first = old.first
        /\ new.params = params /\ new.streams = streams2
    BY <1>2, <2>2, <2>3 DEF Item
  <2> QED
    BY <2>4 DEF params, streams2
<1> HIDE DEF new
<1>6. /\ items' \in Seq(Item) /\ Len(items') = N /\ items'[N] = new
      /\ \A i \in 1..N : i # N => items'[i] = items[i]
  BY <1>1, <1>3, <1>5
<1>7. \A i \in 1..(N - 1) : i \in 1..N /\ i # N
  BY <1>1
<1>8. N' = N
  BY <1>6 DEF N
<1> QED
  BY <1>1, <1>3, <1>4, <1>5, <1>6, <1>7, <1>8 DEF old

LEMMA ItemKeeps ==
  ASSUME Inv, NEW opens \in BOOLEAN, NEW holes \in 1..MaxParams,
         items' = Append(items, NewItem(opens, holes)),
         phase = "build", N < MaxItems, opens \/ (N > 0 /\ (~items[N].opens \/ HasParams(N))),
         UNCHANGED <<dbtype, transport, streamParams, resume, plugin, streams, history>>
  PROVE  Inv'
<1>1. /\ items' \in Seq(Item) /\ N' = N + 1 /\ N \in Nat
      /\ items'[N + 1] = NewItem(opens, holes)
      /\ \A i \in 1..N : items'[i] = items[i]
  BY ItemAdded DEF Inv
<1>2. items'[N + 1].opens = opens /\ items'[1 + N].opens = opens
  <2>1. NewItem(opens, holes).opens = opens /\ N + 1 = 1 + N
    BY <1>1 DEF NewItem
  <2> QED
    BY <1>1, <2>1
<1>3. Builds
  BY <1>1, BoundsAssumption DEF Builds, Inv, TypeOK, N
<1>4. Formed'
  <2>1. items'[1].opens
    <3>1. CASE N = 0
      <4>1. opens /\ N + 1 = 1
        BY <3>1
      <4> QED
        BY <1>2, <4>1
    <3>2. CASE N > 0
      BY <1>1, <3>2 DEF Inv, Formed
    <3> QED
      BY <1>1, <3>1, <3>2
  <2>2. ASSUME NEW i \in 1..N, items'[i].opens /\ items'[i].params = 0
        PROVE  items'[i + 1].opens
    <3>1. CASE i = N
      <4>1. items[N].opens /\ ~(items[N].params > 0)
        <5>1. N \in 1..N /\ items'[N] = items[N] /\ items'[N].opens /\ items'[N].params = 0
          BY <1>1, <2>2, <3>1
        <5>2. items[N].opens /\ items[N].params = 0
          BY <5>1
        <5> QED
          BY <5>2
      <4>2. opens
        BY <4>1 DEF HasParams
      <4> QED
        BY <1>2, <3>1, <4>2
    <3>2. CASE i # N
      <4>1. i \in 1..(N - 1) /\ i + 1 \in 1..N
        BY <1>1, <3>2
      <4> QED
        BY <1>1, <2>2, <4>1 DEF Inv, Formed
    <3> QED
      BY <3>1, <3>2
  <2>3. \A i \in 1..(N' - 1) : i \in 1..N
    BY <1>1
  <2> QED
    BY <2>1, <2>2, <2>3 DEF Formed
<1> QED
  BY <1>3, <1>4, BuildKeeps

LEMMA AddSqlKeeps ==
  ASSUME Inv, NEW holes \in 1..MaxParams, AddSql(holes) PROVE Inv'
BY ItemKeeps DEF AddSql

LEMMA RowToAdd ==
  ASSUME Inv, AddRow
  PROVE  /\ N \in Nat /\ N \in 1..N /\ N < MaxItems /\ N > 0
         /\ items[N].holes \in 1..MaxParams
<1>1. N \in 1..(MaxItems - 1) /\ items \in Seq(Item) /\ N = Len(items)
  BY DEF AddRow, Inv, TypeOK, N
<1>2. N \in Nat /\ N \in 1..N /\ N < MaxItems
  BY <1>1, BoundsAssumption
<1>3. items[N] \in Item
  BY <1>1, <1>2
<1> QED
  BY <1>2, <1>3 DEF Item

LEMMA AddRowKeeps ==
  ASSUME Inv, AddRow PROVE Inv'
<1> DEFINE holes == items[N].holes
<1>1. N \in Nat /\ N < MaxItems /\ N > 0 /\ holes \in 1..MaxParams
  BY RowToAdd
<1>2. /\ items' = Append(items, NewItem(FALSE, holes)) /\ phase = "build"
      /\ ~items[N].opens \/ HasParams(N)
      /\ UNCHANGED <<dbtype, transport, streamParams, resume, plugin, streams, history>>
  BY DEF AddRow
<1> HIDE DEF holes
<1> QED
  BY <1>1, <1>2, ItemKeeps

LEMMA BindKeeps ==
  ASSUME Inv, NEW isStream \in BOOLEAN, Bind(isStream) PROVE Inv'
<1>1. /\ items' \in Seq(Item) /\ N' = N /\ N \in Nat /\ N \in 1..N
      /\ items'[N].opens = items[N].opens
      /\ streamParams' = streamParams + (IF isStream THEN 1 ELSE 0)
      /\ \A i \in 1..(N - 1) : items'[i] = items[i]
  BY ParamBound DEF Inv
<1>2. \A i \in 1..N : items'[i].opens = items[i].opens
  <2>1. \A i \in 1..N : i = N \/ i \in 1..(N - 1)
    BY <1>1
  <2> QED
    BY <1>1, <2>1
<1>3. Builds
  BY <1>1 DEF Builds, Bind, Inv, TypeOK, N
<1>4. Formed'
  <2>1. items'[1].opens
    BY <1>1, <1>2 DEF Inv, Formed
  <2>2. ASSUME NEW i \in 1..(N - 1), items'[i].opens /\ items'[i].params = 0
        PROVE  items'[i + 1].opens
    BY <1>1, <1>2, <2>2 DEF Inv, Formed
  <2> QED
    BY <1>1, <2>1, <2>2 DEF Formed
<1> QED
  BY <1>3, <1>4, BuildKeeps

LEMMA ExecuteKeeps ==
  ASSUME Inv, Execute PROVE Inv'
<1>1. /\ at = 1 /\ sqlIndex = 0 /\ ~hasFailed /\ reply = <<>> /\ tried = {} /\ succeeded = {}
      /\ UNCHANGED <<dbtype, transport, items, streamParams, at, sqlIndex, hasFailed, reply, pos,
                     drained, tried, succeeded, stored>>
      /\ phase' = "sql" /\ resume' \in BOOLEAN
  BY DEF Inv, Fresh, Execute, streams, history
<1>2. N' = N
  BY <1>1 DEF N
<1>3. TypeOK'
  BY <1>1, <1>2 DEF Inv, TypeOK
<1>4. Formed' /\ Fresh' /\ Position'
  <2>1. Formed' /\ Fresh'
    BY <1>1, <1>2 DEF Inv, Formed, Fresh
  <2>2. N \in Nat
    BY DEF Inv, TypeOK, N
  <2>3. 1 <= N => items[1].opens
    BY <2>2 DEF Inv, Formed
  <2> QED
    BY <1>1, <1>2, <2>1, <2>2, <2>3 DEF Position
<1>5. (Executed /\ FirstFailure /\ Counted /\ Numbered)'
  BY <1>1 DEF Executed, FirstFailure, Counted, Numbered, StopsAtFirstFailure
<1> QED
  BY <1>3, <1>4, <1>5 DEF Inv

-----------------------------------------------------------------------------
(* The batch is run                                                        *)

(* What a step that writes no entry leaves alone.                          *)
Silent ==
  /\ UNCHANGED <<resume, dbtype, reply, hasFailed, tried, succeeded>>
  /\ \/ at' = at /\ sqlIndex' = sqlIndex
     \/ at' >= at /\ at' \in Int /\ hasFailed /\ ~resume

LEMMA LongerInterval ==
  ASSUME NEW x \in Int, NEW y \in Int, x <= y PROVE 1..(x - 1) \subseteq 1..(y - 1)
  OBVIOUS

LEMMA SilentKeeps ==
  ASSUME Inv, Silent
  PROVE  (Executed /\ FirstFailure /\ Counted /\ Numbered)'
<1>1. at \in Nat /\ at' \in Int /\ at' >= at /\ reply \in Seq(Entries)
  BY DEF Inv, TypeOK, Silent
<1>2. /\ resume' = resume /\ dbtype' = dbtype /\ reply' = reply /\ hasFailed' = hasFailed
      /\ tried' = tried /\ succeeded' = succeeded
  BY DEF Silent
<1> DEFINE a == at - 1
           b == at' - 1
<1>3. 1..a \subseteq 1..b
  <2>1. at \in Int /\ at' \in Int /\ at <= at'
    BY <1>1
  <2> QED
    BY <2>1, LongerInterval, Zenon
<1> HIDE DEF a, b
<1>7. Executed'
  <2>1. tried' \subseteq 1..b
    BY <1>2, <1>3 DEF Inv, Executed, a
  <2>2. ~hasFailed' => succeeded' = 1..(at' - 1)
    BY <1>2 DEF Inv, Executed, Silent
  <2> QED
    BY <1>2, <2>1, <2>2 DEF Inv, Executed, StopsAtFirstFailure, b
<1>4. FirstFailure'
  <2>1. ASSUME NEW k \in 1..Len(reply), Failure(k) PROVE Failure(k)'
    BY <1>2, <1>3, <2>1 DEF Failure, Counts, a, b
  <2>2. ASSUME ~hasFailed, NEW k \in 1..Len(reply)
        PROVE  reply[k].index \in 1..b /\ (Counts => reply[k].count > 0)
    BY <1>3, <2>2 DEF Inv, FirstFailure, a
  <2> QED
    BY <1>2, <2>1, <2>2 DEF Inv, FirstFailure, Counts, b
<1>5. Counted'
  BY <1>2 DEF Inv, Counted, Silent, CountsRows
<1>6. Numbered'
  <2>1. \A k \in 1..Len(reply) : reply[k].index \in Nat
    <3> SUFFICES ASSUME NEW k \in 1..Len(reply) PROVE reply[k].index \in Nat
      OBVIOUS
    <3>1. reply[k] \in Entries
      BY <1>1
    <3> QED
      BY <3>1 DEF Entries
  <2> SUFFICES ASSUME CountsRows' \/ ~resume'
               PROVE  /\ \A k \in 1..Len(reply') :
                           /\ reply'[k].index < at'
                           /\ reply'[k].count > 0 => reply'[k].index \in succeeded'
                           /\ Counts' /\ reply'[k].index \in succeeded' => reply'[k].count > 0
                      /\ \A i \in succeeded' : \E k \in 1..Len(reply') : reply'[k].index = i
    BY DEF Numbered
  <2>2. CountsRows \/ ~resume
    BY <1>2 DEF CountsRows
  <2>3. \A k \in 1..Len(reply) : reply[k].index < at'
    BY <1>1, <2>1, <2>2 DEF Inv, Numbered
  <2> QED
    BY <1>2, <2>2, <2>3 DEF Inv, Numbered, Counts
<1> QED
  BY <1>7, <1>4, <1>5, <1>6

(* What a step that writes an entry about the item it is at does.          *)
Writes(ok, count, next) ==
  /\ UNCHANGED <<resume, dbtype>>
  /\ \E of \in SUBSET (1..MaxItems) : Affected(ok, count, of)
  /\ at' = next
  /\ tried' \in {tried, tried \cup {at}}
  /\ ok => tried' = tried \cup {at} /\ next = at + 1
  /\ succeeded' = IF ok THEN succeeded \cup {at} ELSE succeeded
  /\ CountsRows \/ ok => sqlIndex' = sqlIndex + next - at

LEMMA WritesKeeps ==
  ASSUME Inv, ~Stops, at <= N, NEW ok \in BOOLEAN, NEW count \in Nat \ {0}, ok => count = 1,
         NEW next \in (at + 1)..(N + 1), Writes(ok, count, next)
  PROVE  (Executed /\ FirstFailure /\ Counted /\ Numbered)' /\ reply' \in Seq(Entries)
<1>0. PICK L \in Nat : L = Len(reply)
  BY DEF Inv, TypeOK
<1> DEFINE new == reply'[L + 1]
<1>1. PICK of \in SUBSET (1..MaxItems) : Affected(ok, count, of)
  BY DEF Writes
<1>2. /\ at \in Nat \ {0} /\ sqlIndex \in Nat /\ reply \in Seq(Entries) /\ L \in Nat
      /\ next \in Nat /\ next > at
      /\ \A k \in 1..L : reply[k].index \in Nat \ {0} /\ reply[k].count \in Int \ {0}
  <2>1. at \in Nat \ {0} /\ sqlIndex \in Nat /\ reply \in Seq(Entries)
    BY DEF Inv, TypeOK
  <2>2. \A k \in 1..L : reply[k] \in Entries
    BY <1>0, <2>1
  <2>3. N \in Nat
    BY DEF Inv, TypeOK, N
  <2> QED
    BY <2>1, <2>2, <2>3 DEF Entries
<1> DEFINE number == sqlIndex + 1
<1>16. PICK rows \in RowCounts :
          reply' = Append(reply, [index |-> number, of |-> of,
                                  count |-> IF ok THEN rows ELSE -count])
  BY <1>1, Zenon DEF Affected, Entry
<1> DEFINE result == IF ok THEN rows ELSE -count
           entry == [index |-> number, of |-> of, count |-> result]
<1>3. reply' = Append(reply, entry) /\ hasFailed' = (hasFailed \/ ~ok)
  <2>1. reply' = Append(reply, entry)
    BY <1>16
  <2> QED
    BY <1>1, <2>1 DEF Affected
<1>4. /\ number \in Nat \ {0} /\ result \in Int \ {0}
      /\ result > 0 => ok
      /\ ok /\ Counts => result > 0
  <2>1. rows \in {1, -1} /\ (Counts => rows = 1)
    BY <1>16 DEF RowCounts, Counts
  <2> QED
    BY <1>2, <2>1
<1> HIDE DEF number, result
<1>5. entry \in Entries /\ entry.index = number /\ entry.count = result
  BY <1>4 DEF Entries
<1> HIDE DEF entry
<1>6. /\ reply' \in Seq(Entries) /\ Len(reply') = L + 1 /\ new = entry
      /\ \A k \in 1..L : reply'[k] = reply[k]
  BY <1>0, <1>2, <1>3, <1>5
<1>7. new.index = number /\ new.count = result
  BY <1>5, <1>6
<1> HIDE DEF new
<1>8. /\ resume' = resume /\ dbtype' = dbtype /\ at' = next
      /\ tried' \in {tried, tried \cup {at}}
      /\ ok => tried' = tried \cup {at} /\ next = at + 1 /\ succeeded' = succeeded \cup {at}
      /\ ~ok => succeeded' = succeeded
  BY DEF Writes
<1>9. ~resume => ~hasFailed
  BY DEF Stops
<1>10. /\ succeeded \subseteq tried /\ tried \subseteq 1..(at - 1)
       /\ ~hasFailed => succeeded = 1..(at - 1)
  BY DEF Inv, TypeOK, Executed
<1>11. Executed'
  <2>1. tried' \subseteq 1..(at' - 1)
    BY <1>2, <1>8, <1>10
  <2>2. ~hasFailed' => succeeded' = 1..(at' - 1)
    <3> SUFFICES ASSUME ~hasFailed' PROVE succeeded' = 1..(at' - 1)
      OBVIOUS
    <3>1. ok /\ ~hasFailed
      BY <1>3
    <3>2. succeeded' = (1..(at - 1)) \cup {at}
      BY <1>8, <1>10, <3>1
    <3>3. at' = at + 1 /\ at \in Nat \ {0}
      BY <1>2, <1>8, <3>1
    <3>4. (1..(at - 1)) \cup {at} = 1..at
      BY <3>3
    <3>5. at' - 1 = at
      BY <3>3
    <3> QED
      BY <3>2, <3>4, <3>5
  <2>3. ASSUME ~resume', NEW i \in tried' PROVE 1..(i - 1) \subseteq succeeded'
    <3>1. succeeded = 1..(at - 1)
      BY <1>8, <1>9, <1>10, <2>3
    <3>2. succeeded \subseteq succeeded'
      BY <1>8
    <3>3. i \in Nat /\ i <= at
      BY <1>2, <1>8, <1>10
    <3> QED
      BY <1>2, <3>1, <3>2, <3>3
  <2> QED
    BY <2>1, <2>2, <2>3 DEF Executed, StopsAtFirstFailure
<1>12. CountsRows \/ ~hasFailed => number = at
  BY <1>2, <1>9 DEF Inv, Counted, number
<1>13. FirstFailure'
  <2>1. CASE ~hasFailed /\ ok
    <3>1. /\ ~hasFailed'
          /\ \A k \in 1..L : reply[k].index \in 1..(at - 1) /\ (Counts => reply[k].count > 0)
      BY <1>0, <1>3, <2>1 DEF Inv, FirstFailure
    <3>2. ASSUME NEW k \in 1..(L + 1)
          PROVE  reply'[k].index \in 1..(at' - 1) /\ (Counts' => reply'[k].count > 0)
      <4>1. CASE k = L + 1
        <5>1. reply'[k].index = at /\ reply'[k].count = result
          BY <1>7, <1>12, <2>1, <4>1 DEF new
        <5>2. Counts' => result > 0
          BY <1>4, <1>8, <2>1 DEF Counts
        <5>3. at \in 1..(at' - 1)
          BY <1>2, <1>8
        <5> QED
          BY <5>1, <5>2, <5>3
      <4>2. CASE k # L + 1
        <5>1. k \in 1..L
          BY <1>2, <4>2
        <5>2. /\ reply'[k] = reply[k] /\ reply[k].index \in 1..(at - 1)
              /\ Counts => reply[k].count > 0
          BY <1>6, <3>1, <5>1
        <5>3. reply'[k].index \in 1..(at' - 1)
          BY <1>2, <1>8, <5>2
        <5> QED
          BY <1>8, <5>2, <5>3 DEF Counts
      <4> QED
        BY <4>1, <4>2
    <3>3. /\ ~hasFailed'
          /\ \A k \in 1..Len(reply') : /\ reply'[k].index \in 1..(at' - 1)
                                       /\ Counts' => reply'[k].count > 0
      BY <1>6, <3>1, <3>2
    <3> QED
      BY <3>3, Zenon DEF FirstFailure
  <2>2. CASE ~hasFailed /\ ~ok
    <3>1. \A k \in 1..L : reply[k].index \in 1..(at - 1) /\ (Counts => reply[k].count > 0)
      BY <1>0, <2>2 DEF Inv, FirstFailure
    <3>2. number = at /\ succeeded = 1..(at - 1) /\ succeeded' = succeeded /\ at' = next
      BY <1>8, <1>10, <1>12, <2>2
    <3>3. reply'[L + 1].count < 0 /\ reply'[L + 1].index = at
      BY <1>4, <1>7, <2>2, <3>2 DEF new
    <3>4. \A j \in 1..L : /\ reply'[j].index \in 1..reply'[L + 1].index
                          /\ Counts' => reply'[j].count > 0
      <4> SUFFICES ASSUME NEW j \in 1..L
                   PROVE  reply'[j].index \in 1..at /\ (Counts' => reply'[j].count > 0)
        BY <3>3
      <4>1. /\ reply'[j] = reply[j] /\ reply[j].index \in 1..(at - 1)
            /\ Counts => reply[j].count > 0
        BY <1>6, <3>1
      <4>2. reply[j].index \in 1..at
        BY <1>2, <4>1
      <4> QED
        BY <1>8, <4>1, <4>2 DEF Counts
    <3>5. /\ at \in 1..(at' - 1) /\ 1..(at - 1) \subseteq succeeded' /\ at \notin succeeded'
          /\ (L + 1) - 1 = L /\ L + 1 \in 1..(L + 1)
      BY <1>2, <3>2
    <3>6. Failure(L + 1)'
      BY <3>3, <3>4, <3>5 DEF Failure
    <3>7. hasFailed' /\ L + 1 \in 1..Len(reply')
      BY <1>3, <1>6, <2>2, <3>5
    <3> QED
      BY <3>6, <3>7, Zenon DEF FirstFailure
  <2>3. CASE hasFailed
    <3>1. PICK k \in 1..L : Failure(k)
      BY <1>0, <2>3 DEF Inv, FirstFailure
    <3>2. k \in 1..(L + 1) /\ \A j \in 1..k : reply'[j] = reply[j]
      <4>1. L \in Nat
        BY <1>2
      <4>2. k \in 1..(L + 1) /\ \A j \in 1..k : j \in 1..L
        BY <4>1
      <4>3. \A j \in 1..L : reply'[j] = reply[j]
        BY <1>6
      <4> QED
        BY <4>2, <4>3
    <3> DEFINE f == reply[k].index
    <3>3. f \in 1..(at - 1) /\ 1..(f - 1) \subseteq succeeded /\ f \notin succeeded
      BY <3>1 DEF Failure
    <3>4. /\ reply'[k].count < 0
          /\ \A j \in 1..(k - 1) : /\ reply'[j].index \in 1..reply'[k].index
                                   /\ Counts' => reply'[j].count > 0
      <4>1. reply'[k] = reply[k] /\ \A j \in 1..(k - 1) : reply'[j] = reply[j]
        BY <3>2
      <4>2. Counts' = Counts
        BY <1>8 DEF Counts
      <4> QED
        BY <3>1, <4>1, <4>2 DEF Failure
    <3>5. reply'[k].index = f
      BY <3>2
    <3> HIDE DEF f
    <3>6. f \in 1..(at' - 1) /\ 1..(f - 1) \subseteq succeeded' /\ f \notin succeeded'
      BY <1>2, <1>8, <3>3
    <3>7. Failure(k)'
      BY <3>4, <3>5, <3>6 DEF Failure
    <3>8. hasFailed'
      BY <1>3, <2>3
    <3> QED
      BY <1>6, <3>2, <3>7, <3>8 DEF FirstFailure
  <2> QED
    BY <2>1, <2>2, <2>3
<1>14. Counted'
  <2>1. ASSUME ~hasFailed' \/ (CountsRows /\ resume) PROVE sqlIndex' = at' - 1
    <3>1. sqlIndex' = sqlIndex + next - at
      BY <1>3, <2>1 DEF Writes
    <3>2. sqlIndex = at - 1
      BY <1>3, <2>1 DEF Inv, Counted
    <3> QED
      BY <1>2, <1>8, <3>1, <3>2
  <2> QED
    BY <1>8, <2>1 DEF Counted, CountsRows
<1>15. Numbered'
  <2> SUFFICES ASSUME CountsRows' \/ ~resume'
               PROVE  /\ \A k \in 1..Len(reply') :
                           /\ reply'[k].index < at'
                           /\ reply'[k].count > 0 => reply'[k].index \in succeeded'
                           /\ Counts' /\ reply'[k].index \in succeeded' => reply'[k].count > 0
                      /\ \A i \in succeeded' : \E k \in 1..Len(reply') : reply'[k].index = i
    BY DEF Numbered
  <2>1. CountsRows \/ ~resume
    BY <1>8 DEF CountsRows
  <2>2. number = at
    BY <1>9, <1>12, <2>1
  <2>3. /\ \A k \in 1..L : /\ reply[k].index < at
                           /\ reply[k].count > 0 => reply[k].index \in succeeded
                           /\ Counts /\ reply[k].index \in succeeded => reply[k].count > 0
        /\ \A i \in succeeded : \E k \in 1..L : reply[k].index = i
    BY <1>0, <2>1 DEF Inv, Numbered
  <2>4. at \notin succeeded
    BY <1>2, <1>10
  <2>5. ASSUME NEW k \in 1..(L + 1)
        PROVE  /\ reply'[k].index < at'
               /\ reply'[k].count > 0 => reply'[k].index \in succeeded'
               /\ Counts' /\ reply'[k].index \in succeeded' => reply'[k].count > 0
    <3>1. CASE k = L + 1
      <4>1. reply'[k].index = at /\ reply'[k].count = result
        BY <1>7, <2>2, <3>1 DEF new
      <4> QED
        BY <1>2, <1>4, <1>8, <2>4, <4>1 DEF Counts
    <3>2. CASE k # L + 1
      <4>1. k \in 1..L
        BY <1>2, <3>2
      <4>2. reply'[k] = reply[k] /\ reply[k].index \in Nat /\ reply[k].index < at
        BY <1>2, <1>6, <2>3, <4>1
      <4>3. reply[k].index \in succeeded' <=> reply[k].index \in succeeded
        BY <1>2, <1>8, <4>2
      <4> QED
        BY <1>2, <1>8, <2>3, <4>1, <4>2, <4>3 DEF Counts
    <3> QED
      BY <3>1, <3>2
  <2>6. ASSUME NEW i \in succeeded' PROVE \E k \in 1..(L + 1) : reply'[k].index = i
    <3>1. CASE i \in succeeded
      <4>1. PICK k \in 1..L : reply[k].index = i
        BY <2>3, <3>1
      <4>2. k \in 1..(L + 1) /\ reply'[k].index = i
        BY <1>6, <4>1
      <4> QED
        BY <4>2
    <3>2. CASE i \notin succeeded
      <4>1. i = at /\ L + 1 \in 1..(L + 1)
        BY <1>2, <1>8, <3>2
      <4>2. reply'[L + 1].index = i
        BY <1>7, <2>2, <4>1 DEF new
      <4> QED
        BY <4>1, <4>2
    <3> QED
      BY <3>1, <3>2
  <2> QED
    BY <1>6, <2>5, <2>6
<1> QED
  BY <1>6, <1>11, <1>13, <1>14, <1>15

Fails(count, next) == Writes(FALSE, count, next)

LEMMA FailureKeeps ==
  ASSUME Inv, ~Stops, at <= N, NEW count \in Nat \ {0}, NEW next \in (at + 1)..(N + 1),
         Fails(count, next)
  PROVE  (Executed /\ FirstFailure /\ Counted /\ Numbered)' /\ reply' \in Seq(Entries)
<1>1. FALSE \in BOOLEAN /\ (FALSE => count = 1)
  OBVIOUS
<1>2. Writes(FALSE, count, next)
  BY DEF Fails
<1> QED
  BY <1>1, <1>2, WritesKeeps, Zenon

(* What every step of onUpdate does to the rest of the state.              *)
Runs ==
  /\ phase \in {"sql", "row"} /\ phase' \in {"sql", "row", "done", "lost"}
  /\ UNCHANGED statement
  /\ sqlIndex' \in Nat /\ hasFailed' \in BOOLEAN
  /\ pos' \in Nat /\ drained' \in SUBSET Nat
  /\ succeeded' \subseteq tried'
  /\ \A s \in stored' : s.item \in succeeded'

LEMMA RunsKeep ==
  ASSUME Inv, Runs, Position', reply' \in Seq(Entries),
         (Executed /\ FirstFailure /\ Counted /\ Numbered)'
  PROVE  Inv'
<1>1. /\ UNCHANGED <<dbtype, transport, items, streamParams, resume>>
      /\ N' = N
  BY DEF Runs, statement, N
<1>2. N \in Nat /\ N <= MaxItems
  BY DEF Inv, TypeOK, N
<1>3. at' \in 1..(N + 1) /\ tried' \subseteq 1..(at' - 1)
  BY <1>1 DEF Position, Executed
<1>4. TypeOK'
  <2>1. at' \in 1..(MaxItems + 1)
    BY <1>2, <1>3, BoundsAssumption
  <2>2. tried' \in SUBSET (1..N) /\ succeeded' \in SUBSET tried'
    <3>1. at' \in Int /\ N + 1 \in Int /\ at' <= N + 1 /\ (N + 1) - 1 = N
      BY <1>2, <1>3
    <3>2. 1..(at' - 1) \subseteq 1..((N + 1) - 1)
      BY <3>1, LongerInterval, Zenon
    <3>3. tried' \subseteq 1..N
      BY <1>3, <3>1, <3>2
    <3> QED
      BY <3>3 DEF Runs
  <2>3. phase' \in {"build", "sql", "row", "done", "lost"}
    BY DEF Runs
  <2> QED
    BY <1>1, <2>1, <2>2, <2>3 DEF Inv, TypeOK, Runs
<1>5. Formed' /\ Fresh'
  BY <1>1 DEF Inv, Formed, Fresh, Runs
<1> QED
  BY <1>4, <1>5 DEF Inv

LEMMA SizeOfBatch ==
  ASSUME Inv PROVE items \in Seq(Item) /\ N \in Nat /\ N <= MaxItems /\ at \in 1..(N + 1)
BY DEF Inv, TypeOK, N, Position

LEMMA GoToIs ==
  ASSUME Inv, at <= N, NEW i, i = NextSql(at) \/ i = at + 1, GoTo(i), UNCHANGED items
  PROVE  /\ i \in (at + 1)..(N + 1) /\ at' = i
         /\ Position' /\ phase' \in {"sql", "row"}
<1>1. items \in Seq(Item) /\ N \in Nat /\ at \in 1..N
  BY SizeOfBatch
<1> DEFINE s == NextSql(at)
<1>2. /\ s \in (at + 1)..(N + 1)
      /\ s <= N => items[s].opens
      /\ i = s \/ i = at + 1
  BY <1>1, NextSqlIs
<1>3. /\ at' = i
      /\ phase' = IF i \in at..(s - 1) THEN "row" ELSE "sql"
  BY DEF GoTo, RowsOf
<1>4. N' = N /\ items' = items
  BY DEF N
<1> HIDE DEF s
<1>5. i \in (at + 1)..(N + 1)
  BY <1>1, <1>2
<1>6. CASE i \in at..(s - 1)
  <2>1. phase' = "row" /\ i <= N
    BY <1>1, <1>2, <1>3, <1>6
  <2>2. at' \in 1..(N' + 1) /\ at' <= N'
    BY <1>1, <1>3, <1>4, <1>5, <2>1
  <2>3. phase' # "sql" /\ phase' # "done"
    BY <2>1
  <2>4. Position'
    BY <2>2, <2>3 DEF Position
  <2> QED
    BY <1>3, <1>5, <2>1, <2>4
<1>7. CASE i \notin at..(s - 1)
  <2>1. phase' = "sql" /\ i = s
    BY <1>1, <1>2, <1>3, <1>7
  <2>2. at' \in 1..(N' + 1)
    BY <1>1, <1>3, <1>4, <1>5
  <2>3. at' <= N' => items'[at'].opens
    BY <1>2, <1>3, <1>4, <2>1
  <2>4. phase' # "row" /\ phase' # "done"
    BY <2>1
  <2>5. Position'
    BY <2>2, <2>3, <2>4 DEF Position
  <2> QED
    BY <1>3, <1>5, <2>1, <2>5
<1> QED
  BY <1>6, <1>7

(* The rows of an SQL without parameters are itself.                       *)
LEMMA NextIsSql ==
  ASSUME Inv, phase = "sql", at <= N, ~HasParams(at) PROVE NextSql(at) = at + 1
<1>1. items \in Seq(Item) /\ N \in Nat /\ at \in 1..N
  BY SizeOfBatch
<1> DEFINE s == NextSql(at)
<1>2. s \in (at + 1)..(N + 1) /\ \A j \in (at + 1)..(s - 1) : ~items[j].opens
  BY <1>1, NextSqlIs
<1>3. items[at].opens /\ items[at].params = 0
  <2>1. items[at] \in Item
    BY <1>1 DEF N
  <2>2. items[at].params \in Nat
    BY <2>1 DEF Item
  <2> QED
    BY <2>2 DEF Inv, Position, HasParams
<1>4. at \in 1..(N - 1) => items[at + 1].opens
  BY <1>3 DEF Inv, Formed
<1> HIDE DEF s
<1>5. CASE at = N
  BY <1>1, <1>2, <1>5 DEF s
<1>6. CASE at # N
  <2>1. at + 1 \notin (at + 1)..(s - 1)
    BY <1>1, <1>2, <1>4, <1>6
  <2>2. s = at + 1
    BY <1>1, <1>2, <2>1
  <2> QED
    BY <2>2 DEF s
<1> QED
  BY <1>5, <1>6

LEMMA FinishKeeps ==
  ASSUME Inv, Finish PROVE Inv'
<1>1. Silent
  BY DEF Finish, Silent, statement, history
<1>2. (Executed /\ FirstFailure /\ Counted /\ Numbered)'
  BY <1>1, SilentKeeps
<1>3. Position'
  <2>1. at = N + 1 \/ hasFailed
    BY SizeOfBatch DEF Finish, Stops
  <2> QED
    BY <2>1 DEF Inv, Position, Finish, statement, N
<1>4. Runs /\ reply' \in Seq(Entries)
  BY DEF Inv, TypeOK, Runs, Finish, streams, history
<1> QED
  BY <1>2, <1>3, <1>4, RunsKeep

LEMMA OpenRowsKeeps ==
  ASSUME Inv, OpenRows PROVE Inv'
<1>1. Silent
  BY DEF OpenRows, Silent, statement, history
<1>2. (Executed /\ FirstFailure /\ Counted /\ Numbered)'
  BY <1>1, SilentKeeps
<1>3. Position'
  BY DEF Inv, Position, OpenRows, statement, N
<1>4. Runs /\ reply' \in Seq(Entries)
  BY DEF Inv, TypeOK, Runs, OpenRows, history
<1> QED
  BY <1>2, <1>3, <1>4, RunsKeep

LEMMA CallLostKeeps ==
  ASSUME Inv, CallLost PROVE Inv'
<1>1. Silent
  BY DEF CallLost, Silent, statement, history
<1>2. (Executed /\ FirstFailure /\ Counted /\ Numbered)'
  BY <1>1, SilentKeeps
<1>3. Position'
  BY DEF Inv, Position, CallLost, statement, N
<1>4. Runs /\ reply' \in Seq(Entries)
  BY DEF Inv, TypeOK, Runs, CallLost, streams, history
<1> QED
  BY <1>2, <1>3, <1>4, RunsKeep

LEMMA RowsStopKeeps ==
  ASSUME Inv, RowsStop PROVE Inv'
<1>1. at \in 1..N /\ N \in Nat
  BY SizeOfBatch DEF Inv, Position, RowsStop
<1>2. /\ NextSql(at) \in (at + 1)..(N + 1) /\ at' = NextSql(at)
      /\ Position' /\ phase' \in {"sql", "row"}
  BY <1>1, GoToIs DEF RowsStop, statement
<1>3. Silent
  BY <1>1, <1>2 DEF RowsStop, Silent, statement, history, Stops
<1>4. (Executed /\ FirstFailure /\ Counted /\ Numbered)'
  BY <1>3, SilentKeeps
<1>5. Runs /\ reply' \in Seq(Entries)
  BY <1>2 DEF Inv, TypeOK, Runs, RowsStop, streams, history
<1> QED
  BY <1>2, <1>4, <1>5, RunsKeep

LEMMA RunSqlKeeps ==
  ASSUME Inv, NEW ok \in BOOLEAN, RunSql(ok) PROVE Inv'
<1> DEFINE next == NextSql(at)
<1>1. at \in 1..N /\ N \in Nat /\ N <= MaxItems /\ MaxItems \in Nat /\ phase = "sql" /\ ~Stops
  BY SizeOfBatch, BoundsAssumption DEF RunSql
<1>2. next \in (at + 1)..(N + 1) /\ at' = next /\ Position' /\ phase' \in {"sql", "row"}
  BY <1>1, GoToIs DEF RunSql, statement
<1>3. next = at + 1
  BY <1>1, NextIsSql DEF RunSql
<1> HIDE DEF next
<1>4. Writes(ok, 1, next)
  <2>1. {at} \in SUBSET (1..MaxItems) /\ Affected(ok, 1, {at})
    BY <1>1 DEF RunSql
  <2>2. sqlIndex \in Nat /\ sqlIndex' = sqlIndex + 1
    BY DEF Inv, TypeOK, RunSql
  <2>3. sqlIndex' = sqlIndex + next - at
    BY <1>1, <1>3, <2>2
  <2> QED
    BY <1>2, <1>3, <2>1, <2>3 DEF RunSql, Writes, statement
<1>5. (Executed /\ FirstFailure /\ Counted /\ Numbered)' /\ reply' \in Seq(Entries)
  BY <1>1, <1>2, <1>4, WritesKeeps
<1>6. Runs
  BY <1>1, <1>2 DEF Inv, TypeOK, Runs, RunSql, Affected, Entry, streams
<1> QED
  BY <1>2, <1>5, <1>6, RunsKeep

(* The entry of a failed prepare is about the rows of the SQL.             *)
LEMMA PrepareCounts ==
  ASSUME Inv, PrepareFails
  PROVE  /\ at \in 1..N /\ N \in Nat /\ NextSql(at) \in (at + 1)..(N + 1)
         /\ RowsOf(at) \in SUBSET (1..MaxItems) /\ BatchCount(at) \in Nat \ {0}
         /\ CountsRows => BatchCount(at) = NextSql(at) - at
<1> DEFINE next == NextSql(at)
           count == BatchCount(at)
<1>1. /\ at \in 1..N /\ N \in Nat /\ N <= MaxItems /\ MaxItems \in Nat
      /\ items \in Seq(Item)
  BY SizeOfBatch, BoundsAssumption DEF PrepareFails
<1>2. next \in (at + 1)..(N + 1)
  BY <1>1, NextSqlIs
<1>3. RowsOf(at) = at..(next - 1)
  BY DEF RowsOf
<1> HIDE DEF next
<1>4. Cardinality(RowsOf(at)) = next - at /\ RowsOf(at) \in SUBSET (1..MaxItems)
  <2>1. at \in Int /\ next - 1 \in Int /\ at <= next - 1
    BY <1>1, <1>2
  <2>2. Cardinality(at..(next - 1)) = (next - 1) - at + 1
    BY <2>1, FS_Interval
  <2>3. at..(next - 1) \subseteq 1..MaxItems
    BY <1>1, <1>2
  <2>4. (next - 1) - at + 1 = next - at
    BY <2>1, <1>1, <1>2
  <2> QED
    BY <1>3, <2>2, <2>3, <2>4
<1>5. count \in Nat \ {0} /\ (CountsRows => count = next - at)
  <2>1. items[at].params \in Nat \ {0}
    <3>1. items[at] \in Item
      BY <1>1 DEF N
    <3>2. items[at].params \in Nat /\ items[at].params > 0
      BY <3>1 DEF Item, PrepareFails, HasParams
    <3> QED
      BY <3>2
  <2>2. next - at \in Nat \ {0}
    BY <1>1, <1>2
  <2>3. /\ dbtype = "mysql" => count = items[at].params
        /\ dbtype = "freetds" => count = 2
        /\ dbtype \notin {"mysql", "freetds"} => count = next - at
    BY <1>4 DEF BatchCount
  <2> HIDE DEF count
  <2> QED
    BY <2>1, <2>2, <2>3 DEF CountsRows
<1> QED
  BY <1>1, <1>2, <1>4, <1>5 DEF next

LEMMA PrepareFailsKeeps ==
  ASSUME Inv, PrepareFails PROVE Inv'
<1> DEFINE next == NextSql(at)
           count == BatchCount(at)
<1>1. /\ at \in 1..N /\ N \in Nat /\ next \in (at + 1)..(N + 1) /\ phase = "sql" /\ ~Stops
      /\ RowsOf(at) \in SUBSET (1..MaxItems) /\ count \in Nat \ {0}
      /\ CountsRows => count = next - at
  BY PrepareCounts DEF PrepareFails
<1>2. at' = next /\ Position' /\ phase' \in {"sql", "row"}
  BY <1>1, GoToIs DEF PrepareFails, statement
<1> HIDE DEF next
<1>3. Affected(FALSE, count, RowsOf(at)) /\ sqlIndex' = sqlIndex + count /\ sqlIndex \in Nat
  BY DEF PrepareFails, Inv, TypeOK
<1> HIDE DEF count
<1>4. Fails(count, next)
  <2>1. \E of \in SUBSET (1..MaxItems) : Affected(FALSE, count, of)
    BY <1>1, <1>3
  <2>2. CountsRows => sqlIndex' = sqlIndex + next - at
    BY <1>1, <1>3
  <2> QED
    BY <1>2, <2>1, <2>2 DEF PrepareFails, Fails, Writes, statement, history
<1>5. (Executed /\ FirstFailure /\ Counted /\ Numbered)' /\ reply' \in Seq(Entries)
  BY <1>1, <1>4, FailureKeeps
<1>6. Runs
  <2>1. sqlIndex' \in Nat
    BY <1>1, <1>3
  <2> QED
    BY <1>1, <1>2, <1>3, <2>1 DEF Inv, TypeOK, Runs, PrepareFails, Affected, Entry, streams, history
<1> QED
  BY <1>2, <1>5, <1>6, RunsKeep

LEMMA RowMisboundKeeps ==
  ASSUME Inv, RowMisbound PROVE Inv'
<1>1. /\ at \in 1..N /\ N \in Nat /\ N <= MaxItems /\ MaxItems \in Nat /\ phase = "row"
      /\ ~Stops
  BY SizeOfBatch, BoundsAssumption DEF RowMisbound, Inv, Position
<1>2. at + 1 \in (at + 1)..(N + 1) /\ at' = at + 1 /\ Position' /\ phase' \in {"sql", "row"}
  BY <1>1, GoToIs DEF RowMisbound, statement
<1>3. Fails(1, at + 1)
  <2>1. \E of \in SUBSET (1..MaxItems) : Affected(FALSE, 1, of)
    <3>1. {at} \in SUBSET (1..MaxItems)
      BY <1>1
    <3>2. Affected(FALSE, 1, {at})
      BY DEF RowMisbound
    <3> QED
      BY <3>1, <3>2, Zenon
  <2>2. sqlIndex' = sqlIndex + (at + 1) - at
    <3>1. sqlIndex \in Nat /\ sqlIndex' = sqlIndex + 1
      BY DEF Inv, TypeOK, RowMisbound
    <3> QED
      BY <1>1, <3>1
  <2> QED
    BY <1>2, <2>1, <2>2 DEF RowMisbound, Fails, Writes, statement, history
<1>4. (Executed /\ FirstFailure /\ Counted /\ Numbered)' /\ reply' \in Seq(Entries)
  BY <1>1, <1>2, <1>3, FailureKeeps
<1>5. Runs
  BY <1>1, <1>2 DEF Inv, TypeOK, Runs, RowMisbound, Affected, streams, history
<1> QED
  BY <1>2, <1>4, <1>5, RunsKeep

LEMMA RunRowKeeps ==
  ASSUME Inv, NEW ok \in BOOLEAN, NEW n \in 0..MaxParams, RunRow(ok, n) PROVE Inv'
<1>1. /\ at \in 1..N /\ N \in Nat /\ N <= MaxItems /\ MaxItems \in Nat /\ phase = "row"
      /\ ~Stops
  BY SizeOfBatch, BoundsAssumption DEF RunRow, Inv, Position
<1>2. at + 1 \in (at + 1)..(N + 1) /\ at' = at + 1 /\ Position' /\ phase' \in {"sql", "row"}
  BY <1>1, GoToIs DEF RunRow, statement
<1>3. Writes(ok, 1, at + 1)
  <2>1. {at} \in SUBSET (1..MaxItems) /\ Affected(ok, 1, {at})
    BY <1>1 DEF RunRow
  <2>2. sqlIndex' = sqlIndex + (at + 1) - at
    <3>1. sqlIndex \in Nat /\ sqlIndex' = sqlIndex + 1
      BY DEF Inv, TypeOK, RunRow
    <3> QED
      BY <1>1, <3>1
  <2> QED
    BY <1>2, <2>1, <2>2 DEF RunRow, Writes, statement
<1>4. (Executed /\ FirstFailure /\ Counted /\ Numbered)' /\ reply' \in Seq(Entries)
  BY <1>1, <1>2, <1>3, WritesKeeps
<1>5. pos' \in Nat /\ drained' \in SUBSET Nat
  <2>1. Start \in Nat /\ n \in Nat /\ drained \in SUBSET Nat
    BY BoundsAssumption DEF Inv, TypeOK, Start
  <2>2. pos' = Start + n /\ drained' = drained \cup (Start + 1)..(Start + n)
    BY DEF RunRow, ReadStreams
  <2> QED
    BY <2>1, <2>2
<1>6. \A s \in stored' : s.item \in succeeded'
  <2>1. \A s \in stored : s.item \in succeeded
    BY DEF Inv, TypeOK
  <2>2. /\ succeeded' = IF ok THEN succeeded \cup {at} ELSE succeeded
        /\ stored' = IF ok THEN stored \cup {[item |-> at, data |-> Given(n)]} ELSE stored
    BY DEF RunRow
  <2>3. [item |-> at, data |-> Given(n)].item = at
    OBVIOUS
  <2> QED
    BY <2>1, <2>2, <2>3
<1>7. Runs
  <2>1. /\ UNCHANGED statement
        /\ sqlIndex' = sqlIndex + 1 /\ hasFailed' = (hasFailed \/ ~ok)
        /\ tried' = tried \cup {at}
        /\ succeeded' = IF ok THEN succeeded \cup {at} ELSE succeeded
    BY DEF RunRow, Affected
  <2>2. sqlIndex' \in Nat /\ hasFailed' \in BOOLEAN /\ succeeded' \subseteq tried'
    BY <2>1 DEF Inv, TypeOK
  <2> QED
    BY <1>1, <1>2, <1>5, <1>6, <2>1, <2>2 DEF Runs
<1> QED
  BY <1>2, <1>4, <1>7, RunsKeep

-----------------------------------------------------------------------------
(* Theorems                                                                *)

LEMMA InvStep == Inv /\ [Next]_vars => Inv'
<1> SUFFICES ASSUME Inv, [Next]_vars PROVE Inv'
  OBVIOUS
<1>1. CASE UNCHANGED vars
  BY <1>1 DEF vars, statement, plugin, streams, history, Inv, TypeOK, Formed, Position, Fresh,
             Executed, FirstFailure, Failure, Counted, Numbered, StopsAtFirstFailure,
             CountsRows, Counts, N
<1>2. ASSUME NEW holes \in 1..MaxParams, AddSql(holes) PROVE Inv'
  BY <1>2, AddSqlKeeps
<1>3. ASSUME NEW isStream \in BOOLEAN, Bind(isStream) PROVE Inv'
  BY <1>3, BindKeeps
<1>4. ASSUME NEW ok \in BOOLEAN, RunSql(ok) PROVE Inv'
  BY <1>4, RunSqlKeeps
<1>5. ASSUME NEW ok \in BOOLEAN, NEW n \in 0..MaxParams, RunRow(ok, n) PROVE Inv'
  BY <1>5, RunRowKeeps
<1> QED
  BY <1>1, <1>2, <1>3, <1>4, <1>5, AddRowKeeps, ExecuteKeeps, FinishKeeps, OpenRowsKeeps,
     PrepareFailsKeeps, RowsStopKeeps, RowMisboundKeeps, CallLostKeeps DEF Next

LEMMA SpecInv == Spec => []Inv
BY InitInv, InvStep, PTL DEF Spec

(* The parts of the state are those of a batch, however long it is.        *)
THEOREM TypeCorrect == Spec => []TypeOK
<1>1. Inv => TypeOK
  BY DEF Inv
<1> QED
  BY <1>1, SpecInv, PTL

(* Without setFailedResume(true) onUpdate executes nothing after the first *)
(* SQL or row that did not succeed.                                        *)
THEOREM BatchStopsAtFailure == Spec => []StopsAtFirstFailure
<1>1. Inv => StopsAtFirstFailure
  BY DEF Inv, Executed
<1> QED
  BY <1>1, SpecInv, PTL

(* getFirstFailed() names the first SQL or row that did not succeed,       *)
(* although the numbers go wrong behind it, and none when all did; with    *)
(* FreeTDS it names that one or, counted -1, a success before it.          *)
THEOREM FirstFailedIsRight == Spec => []FirstFailedIsFirst
<1>1. ASSUME Inv PROVE FirstFailedIsFirst
  <2> DEFINE failed == (1..N) \ succeeded
  <2> SUFFICES ASSUME phase = "done"
               PROVE  /\ failed # {} => GetFirstFailed \in 1..Min(failed)
                      /\ failed # {} /\ Counts => GetFirstFailed = Min(failed)
                      /\ failed = {} /\ Counts => GetFirstFailed \notin 1..N
    BY DEF FirstFailedIsFirst, Counts
  <2>1. /\ at \in 1..(N + 1) /\ N \in Nat /\ Len(reply) \in Nat
        /\ \A k \in 1..Len(reply) : reply[k].count \in Int
        /\ ~hasFailed => at = N + 1
    <3>1. \A k \in 1..Len(reply) : reply[k] \in Entries
      BY <1>1 DEF Inv, TypeOK
    <3>2. \A k \in 1..Len(reply) : reply[k].count \in Int
      BY <3>1 DEF Entries
    <3> QED
      BY <1>1, <3>2, SizeOfBatch DEF Inv, TypeOK, Position
  <2>2. CASE ~hasFailed
    <3>1. failed = {}
      BY <1>1, <2>1, <2>2 DEF Inv, Executed
    <3>2. Counts => FailedEntries = {}
      BY <1>1, <2>1, <2>2 DEF Inv, FirstFailure, FailedEntries
    <3>3. Counts => GetFirstFailed \notin 1..N
      BY <2>1, <3>2 DEF GetFirstFailed
    <3> QED
      BY <3>1, <3>3
  <2>3. CASE hasFailed
    <3>1. PICK k \in 1..Len(reply) : Failure(k)
      BY <1>1, <2>3 DEF Inv, FirstFailure
    <3> DEFINE f == reply[k].index
               m == Min(FailedEntries)
    <3>2. /\ f \in 1..(at - 1) /\ 1..(f - 1) \subseteq succeeded /\ f \notin succeeded
          /\ reply[k].count < 0
          /\ \A j \in 1..(k - 1) : /\ reply[j].index \in 1..f
                                   /\ Counts => reply[j].count > 0
      BY <3>1 DEF Failure
    <3>3. /\ m \in FailedEntries /\ m <= k /\ FailedEntries # {}
          /\ m \in 1..Len(reply) /\ reply[m].count < 0
      <4>1. FailedEntries \in SUBSET Nat /\ k \in FailedEntries
        BY <2>1, <3>2 DEF FailedEntries
      <4>2. m \in FailedEntries /\ m <= k
        BY <4>1, MinIn
      <4> HIDE DEF m
      <4>3. m \in 1..Len(reply) /\ reply[m].count < 0
        BY <4>2 DEF FailedEntries
      <4> QED
        BY <4>1, <4>2, <4>3
    <3>4. GetFirstFailed = reply[m].index
      BY <3>3 DEF GetFirstFailed
    <3> HIDE DEF m
    <3>5. m = k \/ m \in 1..(k - 1)
      BY <2>1, <3>3
    <3>6. Counts => m = k
      <4>1. ASSUME Counts, m \in 1..(k - 1) PROVE FALSE
        <5>1. \A j \in 1..(k - 1) : Counts => reply[j].count > 0
          BY <3>2
        <5>2. reply[m].count > 0
          BY <4>1, <5>1
        <5>3. reply[m].count < 0 /\ reply[m].count \in Int
          BY <2>1, <3>3
        <5> QED
          BY <5>2, <5>3
      <4> QED
        BY <3>5, <4>1
    <3>7. GetFirstFailed \in 1..f /\ (Counts => GetFirstFailed = f)
      <4>1. f \in 1..f
        BY <2>1, <3>2
      <4>2. \A j \in 1..(k - 1) : reply[j].index \in 1..f
        BY <3>2
      <4>3. CASE m = k
        BY <3>4, <4>1, <4>3
      <4>4. CASE m \in 1..(k - 1)
        BY <3>4, <3>6, <4>1, <4>2, <4>4
      <4> QED
        BY <3>5, <4>3, <4>4
    <3> HIDE DEF f
    <3>8. f \in 1..N
      BY <2>1, <3>2
    <3>9. Min(failed) = f /\ f \in failed
      <4>1. failed \in SUBSET Nat /\ f \in failed
        BY <2>1, <3>2, <3>8
      <4>2. ASSUME NEW j \in failed PROVE f <= j
        <5>1. j \in 1..N /\ j \notin 1..(f - 1)
          BY <3>2
        <5> QED
          BY <2>1, <3>8, <5>1
      <4> HIDE DEF failed
      <4> QED
        BY <4>1, <4>2, MinIs
    <3> HIDE DEF failed
    <3> QED
      BY <3>7, <3>9
  <2> QED
    BY <2>2, <2>3
<1> QED
  BY <1>1, SpecInv, PTL

(* getUpdateCount(i) tells success of none but the SQLs and rows that      *)
(* succeeded, and of all of these but for the counts of FreeTDS: with the  *)
(* plugins that skip by rows always, with the others in a batch that stops *)
(* at the first failure.                                                   *)
THEOREM CountsAreNumbered == Spec => []CountsFollowNumbers
<1>1. ASSUME Inv PROVE CountsFollowNumbers
  <2> SUFFICES ASSUME phase = "done", CountsRows \/ ~resume, NEW i \in 1..N
               PROVE  /\ GetUpdateCount(i) >= 0 => i \in succeeded
                      /\ i \in succeeded /\ Counts => GetUpdateCount(i) >= 0
    BY DEF CountsFollowNumbers, Counts
  <2> DEFINE with == {k \in 1..Len(reply) : reply[k].index = i}
  <2>1. GetUpdateCount(i) = IF with = {} THEN -1 ELSE reply[Min(with)].count
    BY DEF GetUpdateCount
  <2>2. /\ \A k \in 1..Len(reply) :
             /\ reply[k].count > 0 => reply[k].index \in succeeded
             /\ Counts /\ reply[k].index \in succeeded => reply[k].count > 0
        /\ \A j \in succeeded : \E k \in 1..Len(reply) : reply[k].index = j
    BY <1>1 DEF Inv, Numbered
  <2>3. CASE with = {}
    BY <2>1, <2>2, <2>3
  <2>4. CASE with # {}
    <3>1. with \in SUBSET Nat
      OBVIOUS
    <3>2. Min(with) \in with
      BY <2>4, <3>1, MinIn
    <3>3. PICK k \in 1..Len(reply) : reply[k].index = i /\ GetUpdateCount(i) = reply[k].count
      BY <2>1, <2>4, <3>2
    <3>4. reply[k] \in Entries
      BY <1>1 DEF Inv, TypeOK
    <3>5. reply[k].count \in Int \ {0}
      BY <3>4 DEF Entries
    <3>6. reply[k].count >= 0 <=> reply[k].count > 0
      BY <3>5
    <3> QED
      BY <2>2, <3>3, <3>6
  <2> QED
    BY <2>3, <2>4
<1> QED
  BY <1>1, SpecInv, PTL

-----------------------------------------------------------------------------
(* Successes and failures                                                  *)

(* What a batch that goes on has behind it.                                *)
Accounted ==
  /\ resume /\ CountsRows => Cardinality(succeeded) - GetFailures = at - 1
  /\ resume /\ phase = "done" => at = N + 1

LEMMA EntryWritten ==
  ASSUME Inv, CountsRows, NEW ok \in BOOLEAN, NEW count \in Nat \ {0}, NEW of \in SUBSET (1..MaxItems),
         Affected(ok, count, of)
  PROVE  /\ GetFailures \in Int
         /\ GetFailures' = GetFailures - (IF ok THEN 0 ELSE count)
<1>0. PICK rows \in RowCounts :
         reply' = Append(reply, [index |-> sqlIndex + 1, of |-> of,
                                 count |-> IF ok THEN rows ELSE -count])
  BY Zenon DEF Affected, Entry
<1> DEFINE result == IF ok THEN rows ELSE -count
           entry == [index |-> sqlIndex + 1, of |-> of, count |-> result]
<1>1. result \in Int \ {0} /\ sqlIndex + 1 \in Nat \ {0} /\ reply \in Seq(Entries)
  BY <1>0 DEF Inv, TypeOK, RowCounts
<1>2. reply' = Append(reply, entry)
  BY <1>0
<1> HIDE DEF result
<1>3. entry \in Entries /\ entry.count = result
  BY <1>1 DEF Entries
<1> HIDE DEF entry
<1>4. GetFailures \in Int /\ GetFailures' = GetFailures + Failed(entry)
  BY <1>1, <1>2, <1>3, FailuresAdd DEF GetFailures
<1>5. Failed(entry) = -(IF ok THEN 0 ELSE count)
  <2>1. rows = 1
    BY <1>0 DEF RowCounts, CountsRows
  <2> QED
    BY <1>3, <2>1 DEF Failed, result
<1> QED
  BY <1>4, <1>5

LEMMA SucceededIsFinite ==
  ASSUME Inv
  PROVE  /\ at \in Nat /\ at \notin succeeded
         /\ Cardinality(succeeded) \in Nat
         /\ Cardinality(succeeded \cup {at}) = Cardinality(succeeded) + 1
<1>1. at \in Nat \ {0} /\ succeeded \subseteq 1..(at - 1)
  BY DEF Inv, TypeOK, Executed
<1>2. IsFiniteSet(1..(at - 1))
  <2>1. 1 \in Int /\ at - 1 \in Int
    BY <1>1
  <2> QED
    BY <2>1, FS_Interval
<1>3. IsFiniteSet(succeeded)
  BY <1>1, <1>2, FS_Subset, Zenon
<1>4. at \notin succeeded
  BY <1>1
<1> QED
  BY <1>1, <1>3, <1>4, FS_AddElement, FS_CardinalityType

LEMMA AccountsAdd ==
  ASSUME Inv, Accounted, phase' # "done", NEW ok \in BOOLEAN, NEW count \in Nat \ {0},
         NEW of \in SUBSET (1..MaxItems), NEW next \in Nat,
         Affected(ok, count, of), at' = next, UNCHANGED <<resume, dbtype>>,
         succeeded' = IF ok THEN succeeded \cup {at} ELSE succeeded,
         ok => next = at + 1, ~ok /\ CountsRows => next = at + count
  PROVE  Accounted'
<1> SUFFICES ASSUME resume', CountsRows'
             PROVE  Cardinality(succeeded') - GetFailures' = at' - 1
  BY DEF Accounted
<1>1. resume /\ CountsRows
  BY DEF CountsRows
<1>2. /\ GetFailures \in Int /\ GetFailures' = GetFailures - (IF ok THEN 0 ELSE count)
      /\ Cardinality(succeeded) - GetFailures = at - 1
  BY <1>1, EntryWritten DEF Accounted
<1>3. /\ at \in Nat /\ Cardinality(succeeded) \in Nat
      /\ Cardinality(succeeded \cup {at}) = Cardinality(succeeded) + 1
  BY SucceededIsFinite
<1>4. CASE ok
  BY <1>2, <1>3, <1>4
<1>5. CASE ~ok
  BY <1>1, <1>2, <1>3, <1>5
<1> QED
  BY <1>4, <1>5

(* What holds of an empty list of results.                                 *)
LEMMA NothingToAccount ==
  ASSUME Inv, phase = "build", UNCHANGED <<at, reply, succeeded>>, phase' # "done"
  PROVE  Accounted'
<1>1. at' = 1 /\ reply' = <<>> /\ succeeded' = {}
  BY DEF Inv, Fresh
<1>2. GetFailures' = 0 /\ Cardinality(succeeded') = 0
  BY <1>1, NoFailures, FS_EmptySet DEF GetFailures
<1> QED
  BY <1>1, <1>2 DEF Accounted

LEMMA AccountInit == Init => Accounted
<1> SUFFICES ASSUME Init PROVE Accounted
  OBVIOUS
<1>1. reply = <<>> /\ succeeded = {} /\ at = 1 /\ phase = "build"
  BY DEF Init
<1>2. GetFailures = 0 /\ Cardinality(succeeded) = 0
  BY <1>1, NoFailures, FS_EmptySet DEF GetFailures
<1> QED
  BY <1>1, <1>2 DEF Accounted

LEMMA AccountStep == Inv /\ Accounted /\ [Next]_vars => Accounted'
<1> SUFFICES ASSUME Inv, Accounted, [Next]_vars PROVE Accounted'
  OBVIOUS
<1>1. CASE UNCHANGED vars
  BY <1>1 DEF vars, statement, plugin, history, Accounted, GetFailures, CountsRows, N
<1>2. ASSUME NEW holes \in 1..MaxParams, AddSql(holes) PROVE Accounted'
  BY <1>2, NothingToAccount DEF AddSql, plugin, history
<1>3. CASE AddRow
  BY <1>3, NothingToAccount DEF AddRow, plugin, history
<1>4. ASSUME NEW isStream \in BOOLEAN, Bind(isStream) PROVE Accounted'
  BY <1>4, NothingToAccount DEF Bind, plugin, history
<1>5. CASE Execute
  BY <1>5, NothingToAccount DEF Execute, history
<1>6. CASE Finish
  <2>1. /\ UNCHANGED <<resume, dbtype, succeeded, reply, at, items>>
        /\ at > N \/ Stops
    BY <1>6 DEF Finish, statement, history
  <2>2. resume => at = N + 1
    BY <2>1, SizeOfBatch DEF Stops
  <2>3. GetFailures' = GetFailures /\ N' = N /\ CountsRows' = CountsRows
    BY <2>1 DEF GetFailures, CountsRows, N
  <2> QED
    BY <2>1, <2>2, <2>3 DEF Accounted
<1>7. CASE OpenRows
  BY <1>7 DEF OpenRows, statement, history, Accounted, GetFailures, CountsRows, N
<1>8. CASE CallLost
  BY <1>8 DEF CallLost, statement, history, Accounted, GetFailures, CountsRows, N
<1>9. CASE RowsStop
  BY <1>9 DEF RowsStop, Stops, statement, history, Accounted
<1>10. ASSUME NEW ok \in BOOLEAN, RunSql(ok) PROVE Accounted'
  <2>1. /\ at \in 1..N /\ N <= MaxItems /\ MaxItems \in Nat /\ NextSql(at) = at + 1
    BY <1>10, SizeOfBatch, NextIsSql, BoundsAssumption DEF RunSql
  <2>2. at' = at + 1 /\ at + 1 \in Nat /\ phase' # "done" /\ {at} \in SUBSET (1..MaxItems)
    BY <1>10, <2>1, SizeOfBatch DEF RunSql, GoTo
  <2>3. Affected(ok, 1, {at}) /\ UNCHANGED <<resume, dbtype>>
    BY <1>10 DEF RunSql, statement
  <2>4. succeeded' = IF ok THEN succeeded \cup {at} ELSE succeeded
    BY <1>10 DEF RunSql
  <2> QED
    BY <2>2, <2>3, <2>4, AccountsAdd
<1>11. CASE PrepareFails
  <2>1. /\ at \in Nat /\ NextSql(at) \in Nat /\ BatchCount(at) \in Nat \ {0}
        /\ RowsOf(at) \in SUBSET (1..MaxItems)
        /\ CountsRows => NextSql(at) = at + BatchCount(at)
    BY <1>11, PrepareCounts
  <2>2. at' = NextSql(at) /\ phase' # "done"
    BY <1>11 DEF PrepareFails, GoTo
  <2>3. Affected(FALSE, BatchCount(at), RowsOf(at)) /\ UNCHANGED <<resume, dbtype, succeeded>>
    BY <1>11 DEF PrepareFails, statement, history
  <2> QED
    BY <2>1, <2>2, <2>3, AccountsAdd
<1>12. CASE RowMisbound
  <2>1. at \in 1..N /\ N <= MaxItems /\ MaxItems \in Nat
    BY <1>12, SizeOfBatch, BoundsAssumption DEF RowMisbound, Inv, Position
  <2>2. at' = at + 1 /\ at + 1 \in Nat /\ phase' # "done" /\ {at} \in SUBSET (1..MaxItems)
    BY <1>12, <2>1, SizeOfBatch DEF RowMisbound, GoTo
  <2>3. Affected(FALSE, 1, {at}) /\ UNCHANGED <<resume, dbtype, succeeded>>
    BY <1>12 DEF RowMisbound, statement, history
  <2>4. FALSE \in BOOLEAN /\ 1 \in Nat \ {0}
    OBVIOUS
  <2> QED
    BY <2>2, <2>3, <2>4, AccountsAdd
<1>13. ASSUME NEW ok \in BOOLEAN, NEW n \in 0..MaxParams, RunRow(ok, n) PROVE Accounted'
  <2>1. at \in 1..N /\ N <= MaxItems /\ MaxItems \in Nat
    BY <1>13, SizeOfBatch, BoundsAssumption DEF RunRow, Inv, Position
  <2>2. at' = at + 1 /\ at + 1 \in Nat /\ phase' # "done" /\ {at} \in SUBSET (1..MaxItems)
    BY <1>13, <2>1, SizeOfBatch DEF RunRow, GoTo
  <2>3. Affected(ok, 1, {at}) /\ UNCHANGED <<resume, dbtype>>
    BY <1>13 DEF RunRow, statement
  <2>4. succeeded' = IF ok THEN succeeded \cup {at} ELSE succeeded
    BY <1>13 DEF RunRow
  <2> QED
    BY <2>2, <2>3, <2>4, AccountsAdd
<1> QED
  BY <1>1, <1>2, <1>3, <1>4, <1>5, <1>6, <1>7, <1>8, <1>9, <1>10, <1>11, <1>12, <1>13 DEF Next

(* With setFailedResume(true), pgsql and oracle execute every SQL and row  *)
(* of a batch or count it as failed, and none twice: what succeeded and    *)
(* getFailures() add up to what was added.                                 *)
THEOREM NothingIsLost == Spec => []ResumeAccountsForAll
<1>1. Inv /\ Accounted => ResumeAccountsForAll
  <2> SUFFICES ASSUME Inv, Accounted, phase = "done", resume, CountsRows
               PROVE  Cardinality(succeeded) - GetFailures = N
    BY DEF ResumeAccountsForAll
  <2>1. N \in Nat /\ at = N + 1
    BY SizeOfBatch DEF Accounted
  <2> QED
    BY <2>1 DEF Accounted
<1> QED
  BY <1>1, AccountInit, AccountStep, SpecInv, PTL DEF Spec

-----------------------------------------------------------------------------
(* The streams: which of them the iterator of a row is at, and that a row  *)
(* that is stored has its own.                                             *)

(* The streams that were bound before item i.                              *)
First(i) == IF i <= N THEN items[i].first ELSE streamParams

(* Every item's streams follow those of the item before it, and the list   *)
(* starts where the first item with streams does.                          *)
Listed ==
  /\ N = 0 => streamParams = 0
  /\ \A i \in 1..N :
       /\ items[i].streams <= items[i].params
       /\ First(i + 1) = items[i].first + items[i].streams
       /\ items[i].first # 0 => \E j \in 1..(i - 1) : items[j].streams > 0

Unread ==
  phase = "build" => pos = 0 /\ drained = {} /\ stored = {}

(* Item q starts the SQL that the plugin is at.                            *)
Opened(q) == q \in 1..at /\ items[q].opens /\ \A j \in (q + 1)..at : ~items[j].opens

(* Where the iterator is while nothing has failed: behind the streams of   *)
(* the rows before this one, or of those of this SQL.                      *)
Placed ==
  phase \in {"sql", "row"} /\ ~resume /\ ~hasFailed /\ StreamsInReach =>
    /\ drained = 1..First(at)
    /\ transport = "proxy" => pos = First(at)
    /\ transport = "direct" /\ phase = "row" /\ dbtype # "mysql" =>
         \E q \in 1..at : Opened(q) /\ pos = First(at) - First(q)

StreamInv ==
  /\ Inv
  /\ Listed /\ Unread /\ Placed
  /\ StreamsReachTheirRow

LEMMA ItemsAre ==
  ASSUME Inv
  PROVE  /\ N \in Nat /\ streamParams \in Nat
         /\ \A i \in 1..N : /\ items[i].first \in Nat /\ items[i].streams \in Nat
                            /\ items[i].params \in Nat
         /\ \A i \in 1..(N + 1) : First(i) \in Nat
<1>1. N \in Nat /\ streamParams \in Nat /\ \A i \in 1..N : items[i] \in Item
  BY SizeOfBatch DEF Inv, TypeOK, N
<1>2. \A i \in 1..N : /\ items[i].first \in Nat /\ items[i].streams \in Nat
                      /\ items[i].params \in Nat
  BY <1>1 DEF Item
<1>3. \A i \in 1..(N + 1) : i <= N => i \in 1..N
  BY <1>1
<1> QED
  BY <1>1, <1>2, <1>3 DEF First

-----------------------------------------------------------------------------
(* The batch is built                                                      *)

LEMMA StreamInit == Init => StreamInv
<1> SUFFICES ASSUME Init PROVE StreamInv
  OBVIOUS
<1>1. Inv /\ N = 0 /\ streamParams = 0
  BY InitInv DEF Init, N
<1>2. Listed /\ Unread /\ Placed /\ StreamsReachTheirRow
  BY <1>1 DEF Init, Listed, Unread, Placed, StreamsReachTheirRow
<1> QED
  BY <1>1, <1>2 DEF StreamInv

(* Nothing is placed or stored as long as the batch is built.              *)
LEMMA BuildIsUnread ==
  ASSUME StreamInv, phase = "build", UNCHANGED <<phase, streams, history>>
  PROVE  (Unread /\ Placed /\ StreamsReachTheirRow)'
<1>1. phase' = "build" /\ pos' = 0 /\ drained' = {} /\ stored' = {}
  BY DEF StreamInv, Unread, streams, history
<1> QED
  BY <1>1 DEF Unread, Placed, StreamsReachTheirRow

LEMMA ItemIsListed ==
  ASSUME Inv, Listed, NEW opens, NEW holes, N' = N + 1,
         items'[N + 1] = NewItem(opens, holes), \A i \in 1..N : items'[i] = items[i],
         UNCHANGED streamParams
  PROVE  Listed'
<1>1. N \in Nat
  BY ItemsAre
<1> DEFINE new == items'[N + 1]
<1>2. new.params = 0 /\ new.streams = 0 /\ new.first = streamParams
  <2> DEFINE item == NewItem(opens, holes)
  <2>1. item.params = 0 /\ item.streams = 0 /\ item.first = streamParams
    BY DEF NewItem
  <2> HIDE DEF item
  <2>2. new = item
    BY DEF item
  <2> QED
    BY <2>1, <2>2
<1> HIDE DEF new
<1>3. streamParams' = streamParams /\ streamParams \in Nat
  BY ItemsAre
<1>4. \A i \in 1..(N + 1) : First(i)' = First(i)
  <2> SUFFICES ASSUME NEW i \in 1..(N + 1) PROVE First(i)' = First(i)
    OBVIOUS
  <2>1. i <= N' /\ First(i)' = items'[i].first
    BY <1>1 DEF First
  <2>2. CASE i \in 1..N
    BY <1>1, <2>1, <2>2 DEF First
  <2>3. CASE i = N + 1
    BY <1>1, <1>2, <2>1, <2>3 DEF First, new
  <2> QED
    BY <1>1, <2>2, <2>3
<1>5. ASSUME NEW i \in 1..N
      PROVE  /\ items'[i].streams <= items'[i].params
             /\ First(i + 1)' = items'[i].first + items'[i].streams
             /\ items'[i].first # 0 => \E j \in 1..(i - 1) : items'[j].streams > 0
  <2>1. items'[i] = items[i] /\ First(i + 1)' = First(i + 1)
    BY <1>1, <1>4
  <2>2. \A j \in 1..(i - 1) : items'[j] = items[j]
    BY <1>1
  <2> QED
    BY <2>1, <2>2 DEF Listed
<1>9. PICK last \in Nat : last = N + 1
  BY <1>1
<1>6. /\ new.streams <= new.params
      /\ First(last + 1)' = new.first + new.streams
      /\ new.first # 0 => \E j \in 1..N : items'[j].streams > 0
  <2>1. First(last + 1)' = streamParams
    BY <1>1, <1>3, <1>9 DEF First
  <2>2. ASSUME streamParams # 0 PROVE \E j \in 1..N : items[j].streams > 0
    <3>1. N \in 1..N
      BY <1>1, <2>2 DEF Listed
    <3>2. streamParams = items[N].first + items[N].streams
      <4>1. First(N + 1) = streamParams
        BY <1>1 DEF First
      <4> QED
        BY <3>1, <4>1 DEF Listed
    <3>3. items[N].first \in Nat /\ items[N].streams \in Nat
      BY <3>1, ItemsAre
    <3>4. CASE items[N].streams > 0
      BY <3>1, <3>4
    <3>5. CASE items[N].first # 0
      <4>1. PICK j \in 1..(N - 1) : items[j].streams > 0
        BY <3>1, <3>5 DEF Listed
      <4>2. j \in 1..N
        BY <1>1
      <4> QED
        BY <4>1, <4>2
    <3> QED
      BY <2>2, <3>2, <3>3, <3>4, <3>5
  <2> QED
    BY <1>1, <1>2, <1>3, <2>1, <2>2
<1>7. ASSUME NEW i \in 1..(N + 1)
      PROVE  /\ items'[i].streams <= items'[i].params
             /\ First(i + 1)' = items'[i].first + items'[i].streams
             /\ items'[i].first # 0 => \E j \in 1..(i - 1) : items'[j].streams > 0
  <2>1. CASE i = N + 1
    <3>1. i - 1 = N /\ items'[i] = new /\ i = last
      BY <1>1, <1>9, <2>1 DEF new
    <3> QED
      BY <1>6, <3>1
  <2>2. CASE i # N + 1
    <3>1. i \in 1..N
      BY <1>1, <2>2
    <3> QED
      BY <1>5, <3>1
  <2> QED
    BY <2>1, <2>2
<1>8. N' # 0
  BY <1>1
<1> QED
  BY <1>7, <1>8 DEF Listed

LEMMA StreamIsListed ==
  ASSUME Inv, Listed, NEW isStream \in BOOLEAN, Bind(isStream) PROVE Listed'
<1> DEFINE more == IF isStream THEN 1 ELSE 0
<1>1. /\ N' = N /\ N \in Nat /\ N \in 1..N
      /\ items'[N].first = items[N].first
      /\ items'[N].params = items[N].params + 1
      /\ items'[N].streams = items[N].streams + more
      /\ streamParams' = streamParams + more
      /\ \A i \in 1..(N - 1) : items'[i] = items[i]
  BY ParamBound DEF Inv
<1>2. more \in 0..1
  OBVIOUS
<1> HIDE DEF more
<1>3. /\ items[N].streams \in Nat /\ items[N].params \in Nat /\ items[N].first \in Nat
      /\ streamParams \in Nat
  BY <1>1, ItemsAre
<1>4. \A i \in 1..N : First(i)' = First(i) /\ First(i)' = items'[i].first
  <2> SUFFICES ASSUME NEW i \in 1..N PROVE items'[i].first = items[i].first
    BY <1>1 DEF First
  <2>1. i = N \/ i \in 1..(N - 1)
    BY <1>1
  <2> QED
    BY <1>1, <2>1
<1>5. ASSUME NEW i \in 1..(N - 1)
      PROVE  /\ items'[i].streams <= items'[i].params
             /\ First(i + 1)' = items'[i].first + items'[i].streams
  <2>1. items'[i] = items[i] /\ i + 1 \in 1..N /\ i \in 1..N
    BY <1>1
  <2>2. First(i + 1)' = First(i + 1)
    BY <1>4, <2>1
  <2> QED
    BY <2>1, <2>2 DEF Listed
<1>6. /\ items'[N].streams <= items'[N].params
      /\ First(N + 1)' = items'[N].first + items'[N].streams
  <2>1. First(N + 1)' = streamParams' /\ First(N + 1) = streamParams
    BY <1>1 DEF First
  <2>2. items[N].streams <= items[N].params /\ streamParams = items[N].first + items[N].streams
    BY <1>1, <2>1 DEF Listed
  <2> QED
    BY <1>1, <1>2, <1>3, <2>1, <2>2
<1>7. ASSUME NEW i \in 1..N, items'[i].first # 0
      PROVE  \E j \in 1..(i - 1) : items'[j].streams > 0
  <2>1. items[i].first # 0
    BY <1>1, <1>4, <1>7 DEF First
  <2>2. PICK j \in 1..(i - 1) : items[j].streams > 0
    BY <2>1 DEF Listed
  <2>3. items'[j] = items[j]
    BY <1>1
  <2> QED
    BY <2>2, <2>3
<1>8. \A i \in 1..N : i = N \/ i \in 1..(N - 1)
  BY <1>1
<1>9. N' # 0
  BY <1>1
<1> QED
  BY <1>1, <1>5, <1>6, <1>7, <1>8, <1>9 DEF Listed

LEMMA AddSqlListed ==
  ASSUME StreamInv, NEW holes \in 1..MaxParams, AddSql(holes) PROVE StreamInv'
<1>1. Inv' /\ (Unread /\ Placed /\ StreamsReachTheirRow)'
  BY AddSqlKeeps, BuildIsUnread DEF StreamInv, AddSql, plugin
<1>2. /\ N' = N + 1 /\ items'[N + 1] = NewItem(TRUE, holes)
      /\ \A i \in 1..N : items'[i] = items[i]
  <2>1. TypeOK /\ TRUE \in BOOLEAN /\ items' = Append(items, NewItem(TRUE, holes))
    BY DEF StreamInv, Inv, AddSql
  <2> QED
    BY <2>1, ItemAdded
<1>3. Listed'
  BY <1>2, ItemIsListed DEF StreamInv, AddSql
<1> QED
  BY <1>1, <1>3 DEF StreamInv

LEMMA AddRowListed ==
  ASSUME StreamInv, AddRow PROVE StreamInv'
<1>1. Inv' /\ (Unread /\ Placed /\ StreamsReachTheirRow)'
  BY AddRowKeeps, BuildIsUnread DEF StreamInv, AddRow, plugin
<1> DEFINE holes == items[N].holes
<1>2. /\ N' = N + 1 /\ items'[N + 1] = NewItem(FALSE, holes)
      /\ \A i \in 1..N : items'[i] = items[i]
  <2>1. TypeOK /\ FALSE \in BOOLEAN /\ items' = Append(items, NewItem(FALSE, holes))
    BY DEF StreamInv, Inv, AddRow
  <2>2. holes \in 1..MaxParams
    BY RowToAdd DEF StreamInv
  <2> HIDE DEF holes
  <2> QED
    BY <2>1, <2>2, ItemAdded
<1> HIDE DEF holes
<1>3. Listed'
  BY <1>2, ItemIsListed DEF StreamInv, AddRow
<1> QED
  BY <1>1, <1>3 DEF StreamInv

LEMMA BindListed ==
  ASSUME StreamInv, NEW isStream \in BOOLEAN, Bind(isStream) PROVE StreamInv'
<1>1. Inv' /\ Listed' /\ (Unread /\ Placed /\ StreamsReachTheirRow)'
  BY BindKeeps, BuildIsUnread, StreamIsListed DEF StreamInv, Bind, plugin
<1> QED
  BY <1>1 DEF StreamInv

LEMMA ExecuteListed ==
  ASSUME StreamInv, Execute PROVE StreamInv'
<1>1. Inv' /\ Inv /\ Unread'
  BY ExecuteKeeps DEF StreamInv, Execute, Unread
<1>2. /\ pos' = 0 /\ drained' = {} /\ stored' = {} /\ at' = 1 /\ phase' = "sql"
      /\ UNCHANGED <<items, streamParams>> /\ N' = N /\ N > 0
  BY DEF StreamInv, Unread, Inv, Fresh, Execute, streams, history, N
<1>3. Listed'
  BY <1>2 DEF StreamInv, Listed, First
<1>4. First(1)' = 0
  <2>1. N \in Nat /\ First(1)' = items[1].first /\ 1 \in 1..N
    BY <1>1, <1>2, ItemsAre DEF First
  <2>2. items[1].first # 0 => \E j \in 1..(1 - 1) : items[j].streams > 0
    BY <2>1 DEF StreamInv, Listed
  <2> QED
    BY <2>1, <2>2
<1>5. Placed'
  BY <1>2, <1>4 DEF Placed
<1>6. StreamsReachTheirRow'
  BY <1>2 DEF StreamsReachTheirRow
<1> QED
  BY <1>1, <1>3, <1>5, <1>6 DEF StreamInv

-----------------------------------------------------------------------------
(* The batch is run                                                        *)

(* A step that reads no stream and stores nothing: it stays at its item,   *)
(* gets over one without streams, or something has failed.                 *)
Skips ==
  /\ UNCHANGED <<statement, streams, stored>>
  /\ phase \in {"sql", "row"} /\ phase' \in {"sql", "row", "done", "lost"}
  /\ \/ ~resume => hasFailed'
     \/ hasFailed' = hasFailed /\ at' = at /\ phase' \in {phase, "done", "lost"}
     \/ phase' = "sql" /\ at \in 1..N /\ at' = at + 1 /\ items[at].streams = 0
        /\ hasFailed' = hasFailed

LEMMA SkipKeeps ==
  ASSUME StreamInv, Inv', Skips PROVE StreamInv'
<1>1. /\ UNCHANGED <<dbtype, transport, items, streamParams, resume, pos, drained, stored>>
      /\ N' = N
  BY DEF Skips, statement, streams, N
<1>2. Listed' /\ Unread'
  BY <1>1 DEF StreamInv, Listed, First, Unread, Skips
<1>3. StreamsReachTheirRow' /\ StreamsInReach' = StreamsInReach
  BY <1>1 DEF StreamInv, StreamsReachTheirRow, StreamsInReach, StreamsInOneSql, StreamsInOneRow,
             StreamsOf, RowsOf, NextSql
<1>4. Placed'
  <2> SUFFICES ASSUME phase' \in {"sql", "row"}, ~resume, ~hasFailed', StreamsInReach
               PROVE  /\ drained = 1..First(at)'
                      /\ transport = "proxy" => pos = First(at)'
                      /\ transport = "direct" /\ phase' = "row" /\ dbtype # "mysql" =>
                           \E q \in 1..at' : Opened(q)' /\ pos = First(at)' - First(q)'
    BY <1>1, <1>3 DEF Placed
  <2>1. /\ drained = 1..First(at)
        /\ transport = "proxy" => pos = First(at)
        /\ transport = "direct" /\ phase = "row" /\ dbtype # "mysql" =>
             \E q \in 1..at : Opened(q) /\ pos = First(at) - First(q)
    BY DEF StreamInv, Placed, Skips
  <2>2. CASE at' = at /\ phase' = phase
    <3>1. First(at)' = First(at) /\ \A q : First(q)' = First(q) /\ Opened(q)' = Opened(q)
      BY <1>1, <2>2 DEF First, Opened
    <3> QED
      BY <2>1, <2>2, <3>1
  <2>3. CASE phase' = "sql" /\ at \in 1..N /\ at' = at + 1 /\ items[at].streams = 0
    <3>1. First(at)' = First(at + 1) /\ First(at) = items[at].first
      BY <1>1, <2>3 DEF First
    <3>2. First(at + 1) = First(at)
      <4>1. items[at].first \in Nat
        BY <2>3, ItemsAre DEF StreamInv
      <4> QED
        BY <2>3, <3>1, <4>1 DEF StreamInv, Listed
    <3> QED
      BY <2>1, <2>3, <3>1, <3>2
  <2> QED
    BY <2>2, <2>3 DEF Skips
<1> QED
  BY <1>2, <1>3, <1>4 DEF StreamInv

LEMMA FinishPlaced ==
  ASSUME StreamInv, Finish PROVE StreamInv'
<1>1. Inv' /\ Skips
  BY FinishKeeps DEF StreamInv, Finish, Skips, history
<1> QED
  BY <1>1, SkipKeeps

LEMMA CallLostPlaced ==
  ASSUME StreamInv, CallLost PROVE StreamInv'
<1>1. Inv' /\ Skips
  BY CallLostKeeps DEF StreamInv, CallLost, Skips, history
<1> QED
  BY <1>1, SkipKeeps

LEMMA RowsStopPlaced ==
  ASSUME StreamInv, RowsStop PROVE StreamInv'
<1>1. Inv' /\ Skips
  BY RowsStopKeeps DEF StreamInv, RowsStop, Stops, GoTo, Skips, history
<1> QED
  BY <1>1, SkipKeeps

LEMMA PrepareFailsPlaced ==
  ASSUME StreamInv, PrepareFails PROVE StreamInv'
<1>1. Inv' /\ Skips
  BY PrepareFailsKeeps DEF StreamInv, PrepareFails, Affected, GoTo, Skips, history
<1> QED
  BY <1>1, SkipKeeps

LEMMA RowMisboundPlaced ==
  ASSUME StreamInv, RowMisbound PROVE StreamInv'
<1>1. Inv' /\ Skips
  BY RowMisboundKeeps DEF StreamInv, RowMisbound, Affected, GoTo, Skips, history
<1> QED
  BY <1>1, SkipKeeps

LEMMA RunSqlPlaced ==
  ASSUME StreamInv, NEW ok \in BOOLEAN, RunSql(ok) PROVE StreamInv'
<1>1. Inv /\ Inv' /\ at \in 1..N /\ N \in Nat
  <2>1. Inv /\ Inv'
    BY RunSqlKeeps DEF StreamInv
  <2> QED
    BY <2>1, SizeOfBatch DEF RunSql
<1>2. items[at].streams = 0
  <2>1. items[at].streams \in Nat /\ items[at].params \in Nat
    BY <1>1, ItemsAre
  <2>2. items[at].streams <= items[at].params /\ ~(items[at].params > 0)
    BY <1>1 DEF StreamInv, Listed, RunSql, HasParams
  <2> QED
    BY <2>1, <2>2
<1>3. NextSql(at) = at + 1
  BY <1>1, NextIsSql DEF RunSql
<1>4. at' = at + 1 /\ phase' = "sql"
  <2>1. at' = at + 1 /\ phase' = IF at + 1 \in at..((at + 1) - 1) THEN "row" ELSE "sql"
    BY <1>3 DEF RunSql, GoTo, RowsOf
  <2>2. at + 1 \notin at..((at + 1) - 1)
    BY <1>1
  <2> QED
    BY <2>1, <2>2
<1>5. hasFailed' = (hasFailed \/ ~ok) /\ hasFailed \in BOOLEAN
  BY <1>1 DEF RunSql, Affected, Inv, TypeOK
<1>6. UNCHANGED <<statement, streams, stored>> /\ phase = "sql"
  BY DEF RunSql
<1>7. Skips
  BY <1>1, <1>2, <1>4, <1>5, <1>6 DEF Skips
<1> QED
  BY <1>1, <1>7, SkipKeeps

(* The iterator of the rows of an SQL starts at those behind the rows of   *)
(* the SQLs before it, over the proxy, or at the first.                    *)
LEMMA OpenRowsPlaced ==
  ASSUME StreamInv, OpenRows PROVE StreamInv'
<1>1. Inv /\ Inv' /\ at \in 1..N /\ N \in Nat /\ items[at].opens
  BY OpenRowsKeeps, SizeOfBatch DEF StreamInv, OpenRows, Inv, Position
<1>2. /\ UNCHANGED <<dbtype, transport, items, streamParams, resume, at, hasFailed, drained, stored>>
      /\ N' = N /\ phase = "sql" /\ phase' = "row"
      /\ pos' = IF transport = "direct" THEN 0 ELSE pos
  BY DEF OpenRows, statement, history, N
<1>3. Listed' /\ Unread'
  BY <1>2 DEF StreamInv, Listed, First, Unread
<1>4. StreamsReachTheirRow' /\ StreamsInReach' = StreamsInReach
  BY <1>2 DEF StreamInv, StreamsReachTheirRow, StreamsInReach, StreamsInOneSql, StreamsInOneRow,
             StreamsOf, RowsOf, NextSql
<1>5. \A q : First(q)' = First(q) /\ Opened(q)' = Opened(q)
  BY <1>2 DEF First, Opened
<1>6. First(at)' = First(at)
  BY <1>2 DEF First
<1>7. Opened(at) /\ First(at) - First(at) = 0
  <2>1. First(at) \in Nat /\ at \in 1..at /\ (at + 1)..at = {}
    BY <1>1, ItemsAre
  <2> QED
    BY <1>1, <2>1 DEF Opened
<1>8. Placed'
  <2> SUFFICES ASSUME ~resume, ~hasFailed, StreamsInReach
               PROVE  /\ drained = 1..First(at)
                      /\ transport = "proxy" => pos' = First(at)
                      /\ transport = "direct" /\ dbtype # "mysql" =>
                           \E q \in 1..at : Opened(q) /\ pos' = First(at) - First(q)
    BY <1>2, <1>4, <1>5, <1>6 DEF Placed
  <2>1. drained = 1..First(at) /\ (transport = "proxy" => pos = First(at))
    BY <1>2 DEF StreamInv, Placed
  <2>2. at \in 1..at
    BY <1>1
  <2> QED
    BY <1>2, <1>7, <2>1, <2>2
<1> QED
  BY <1>1, <1>3, <1>4, <1>8 DEF StreamInv

(* A row that has streams reads them from its first one on.                *)
LEMMA StartsAtItsFirst ==
  ASSUME StreamInv, phase = "row", ~resume, ~hasFailed, StreamsInReach,
         items[at].streams > 0
  PROVE  Start = First(at)
<1>1. Inv /\ at \in 1..N /\ N \in Nat /\ First(at) = items[at].first
  BY SizeOfBatch DEF StreamInv, Inv, Position, First
<1>2. /\ transport = "proxy" => pos = First(at)
      /\ transport = "direct" /\ dbtype # "mysql" =>
           \E q \in 1..at : Opened(q) /\ pos = First(at) - First(q)
  BY DEF StreamInv, Placed
<1>3. transport \in {"proxy", "direct"}
  BY <1>1, TransportsAssumption DEF Inv, TypeOK
<1>4. CASE transport = "proxy"
  BY <1>2, <1>4 DEF Start
<1>5. CASE transport = "direct" /\ StreamsInOneRow
  <2>1. First(at) = 0
    <3> SUFFICES ASSUME items[at].first # 0 PROVE FALSE
      BY <1>1
    <3>1. PICK j \in 1..(at - 1) : items[j].streams > 0
      BY <1>1 DEF StreamInv, Listed
    <3>2. j \in 1..N /\ j # at
      BY <1>1
    <3> QED
      BY <1>1, <1>5, <3>1, <3>2 DEF StreamsInOneRow
  <2>2. CASE dbtype = "mysql"
    BY <1>5, <2>1, <2>2 DEF Start
  <2>3. CASE dbtype # "mysql"
    <3>1. PICK q \in 1..at : pos = First(at) - First(q)
      BY <1>2, <1>5, <2>3
    <3>2. q \in 1..N
      BY <1>1
    <3>3. First(q) = 0
      <4> SUFFICES ASSUME First(q) # 0 PROVE FALSE
        OBVIOUS
      <4>1. items[q].first # 0
        BY <1>1, <3>2 DEF First
      <4>2. PICK j \in 1..(q - 1) : items[j].streams > 0
        BY <3>2, <4>1 DEF StreamInv, Listed
      <4>3. j \in 1..N /\ j # at
        BY <1>1
      <4> QED
        BY <1>1, <1>5, <4>2, <4>3 DEF StreamsInOneRow
    <3> QED
      BY <1>5, <2>1, <2>3, <3>1, <3>3 DEF Start
  <2> QED
    BY <2>2, <2>3
<1>6. CASE transport = "direct" /\ dbtype # "mysql" /\ StreamsInOneSql
  <2>1. PICK q \in 1..at : Opened(q) /\ pos = First(at) - First(q)
    BY <1>2, <1>6
  <2>2. q \in 1..N /\ items[q].opens
    BY <1>1, <2>1 DEF Opened
  <2>3. First(q) = 0
    <3> SUFFICES ASSUME First(q) # 0 PROVE FALSE
      OBVIOUS
    <3>1. items[q].first # 0
      BY <1>1, <2>2 DEF First
    <3>2. PICK j \in 1..(q - 1) : items[j].streams > 0
      BY <2>2, <3>1 DEF StreamInv, Listed
    <3>3. j \in 1..N /\ j < at /\ q \in (j + 1)..at
      BY <1>1
    <3>4. at \in j..(NextSql(j) - 1)
      BY <1>1, <1>6, <3>2, <3>3 DEF StreamsInOneSql, RowsOf
    <3>5. NextSql(j) \in (j + 1)..(N + 1) /\ \A k \in (j + 1)..(NextSql(j) - 1) : ~items[k].opens
      BY <1>1, <3>3, SizeOfBatch, NextSqlIs
    <3>6. q \in (j + 1)..(NextSql(j) - 1)
      BY <1>1, <3>3, <3>4, <3>5
    <3> QED
      BY <2>2, <3>5, <3>6
  <2>4. First(at) \in Nat
    BY <1>1, ItemsAre
  <2> QED
    BY <1>6, <2>1, <2>3, <2>4 DEF Start
<1> QED
  BY <1>3, <1>4, <1>5, <1>6 DEF StreamsInReach

(* A row that is stored is given its streams, and the iterator is behind   *)
(* them when it is done.                                                   *)
LEMMA RunRowPlaced ==
  ASSUME StreamInv, NEW ok \in BOOLEAN, NEW n \in 0..MaxParams, RunRow(ok, n)
  PROVE  StreamInv'
<1>1. Inv /\ Inv'
  BY RunRowKeeps DEF StreamInv
<1>2. /\ phase = "row" /\ (~resume => ~hasFailed) /\ at \in 1..N /\ N \in Nat
      /\ hasFailed' = (hasFailed \/ ~ok) /\ (ok => n = items[at].streams)
      /\ UNCHANGED <<dbtype, transport, items, streamParams, resume>> /\ N' = N
      /\ at' = at + 1 /\ pos' = Start + n /\ drained' = drained \cup (Start + 1)..(Start + n)
  <2>1. at \in 1..N /\ N \in Nat /\ N' = N
    BY <1>1, SizeOfBatch DEF RunRow, Inv, Position, statement, N
  <2> QED
    BY <2>1 DEF RunRow, Stops, Affected, GoTo, ReadStreams, statement
<1>3. stored' = IF ok THEN stored \cup {[item |-> at, data |-> Given(n)]} ELSE stored
  BY DEF RunRow
<1>4. phase' \in {"sql", "row"} /\ (phase' = "row" => at + 1 \in at..(NextSql(at) - 1))
  BY <1>2 DEF RunRow, GoTo, RowsOf
<1>5. Listed' /\ Unread'
  BY <1>2, <1>4 DEF StreamInv, Listed, First, Unread
<1>6. StreamsInReach' = StreamsInReach /\ \A i : StreamsOf(i)' = StreamsOf(i)
  BY <1>2 DEF StreamsInReach, StreamsInOneSql, StreamsInOneRow, StreamsOf, RowsOf, NextSql
<1>7. /\ First(at) = items[at].first /\ First(at) \in Nat /\ items[at].streams \in Nat
      /\ First(at + 1) = First(at) + items[at].streams
  <2>1. First(at) = items[at].first
    BY <1>2 DEF First
  <2> QED
    BY <1>1, <1>2, <2>1, ItemsAre DEF StreamInv, Listed
<1>8. \A q : First(q)' = First(q)
  BY <1>2 DEF First
<1>9. First(at)' = First(at + 1)
  BY <1>2 DEF First
<1>10. Start \in Nat
  BY <1>1 DEF Start, Inv, TypeOK
<1>11. ASSUME ~resume, StreamsInReach
       PROVE  /\ drained = 1..First(at)
              /\ transport = "proxy" => pos = First(at)
              /\ transport = "direct" /\ dbtype # "mysql" =>
                   \E q \in 1..at : Opened(q) /\ pos = First(at) - First(q)
  BY <1>2, <1>11 DEF StreamInv, Placed
<1>12. StreamsReachTheirRow'
  <2> SUFFICES ASSUME ~resume, StreamsInReach, NEW s \in stored'
               PROVE  s.data = StreamsOf(s.item)
    BY <1>2, <1>6 DEF StreamsReachTheirRow
  <2>1. CASE s \in stored
    BY <2>1 DEF StreamInv, StreamsReachTheirRow
  <2>2. CASE s \notin stored
    <3>1. ok /\ s = [item |-> at, data |-> Given(n)]
      BY <1>3, <2>2
    <3>2. s.item = at /\ s.data = Given(n) /\ n = items[at].streams /\ n \in Nat
      BY <1>2, <1>7, <3>1
    <3>3. \A k \in 1..n :
            (IF Start + k \in drained THEN 0 ELSE Start + k) = items[at].first + k
      <4> SUFFICES ASSUME NEW k \in 1..n
                   PROVE  (IF Start + k \in drained THEN 0 ELSE Start + k) = items[at].first + k
        OBVIOUS
      <4>1. items[at].streams > 0
        BY <3>2
      <4>2. Start = First(at)
        BY <1>2, <4>1, StartsAtItsFirst
      <4>3. Start + k \notin drained
        BY <1>7, <1>11, <3>2, <4>2
      <4> QED
        BY <1>7, <4>2, <4>3
    <3>4. Given(n) = StreamsOf(at)
      BY <3>2, <3>3 DEF Given, StreamsOf
    <3> QED
      BY <3>2, <3>4
  <2> QED
    BY <2>1, <2>2
<1>13. Placed'
  <2> SUFFICES ASSUME ~resume, ok, StreamsInReach
               PROVE  /\ drained' = 1..First(at + 1)
                      /\ transport = "proxy" => pos' = First(at + 1)
                      /\ transport = "direct" /\ phase' = "row" /\ dbtype # "mysql" =>
                           \E q \in 1..at' : Opened(q)' /\ pos' = First(at + 1) - First(q)
    BY <1>2, <1>6, <1>8, <1>9 DEF Placed
  <2>1. n = items[at].streams /\ n \in Nat
    BY <1>2, <1>7
  <2>2. drained' = 1..First(at + 1)
    <3>1. CASE n = 0
      BY <1>2, <1>7, <1>10, <1>11, <2>1, <3>1
    <3>2. CASE n > 0
      <4>1. Start = First(at)
        BY <1>2, <2>1, <3>2, StartsAtItsFirst
      <4> QED
        BY <1>2, <1>7, <1>11, <2>1, <4>1
    <3> QED
      BY <2>1, <3>1, <3>2
  <2>3. transport = "proxy" => pos' = First(at + 1)
    BY <1>2, <1>7, <1>11, <2>1 DEF Start
  <2>4. ASSUME transport = "direct", phase' = "row", dbtype # "mysql"
        PROVE  \E q \in 1..at' : Opened(q)' /\ pos' = First(at + 1) - First(q)
    <3>1. PICK q \in 1..at : Opened(q) /\ pos = First(at) - First(q)
      BY <1>11, <2>4
    <3>2. First(q) \in Nat
      BY <1>1, <1>2, ItemsAre
    <3>3. Start = pos
      BY <2>4 DEF Start
    <3>4. pos' = First(at + 1) - First(q)
      BY <1>2, <1>7, <2>1, <3>1, <3>2, <3>3
    <3>5. ~items[at + 1].opens
      <4>1. /\ NextSql(at) \in (at + 1)..(N + 1)
            /\ \A k \in (at + 1)..(NextSql(at) - 1) : ~items[k].opens
        BY <1>1, <1>2, SizeOfBatch, NextSqlIs
      <4> QED
        BY <1>2, <1>4, <2>4, <4>1
    <3>6. Opened(q)' /\ q \in 1..at'
      <4>1. q \in 1..(at + 1) /\ items[q].opens
        BY <1>2, <3>1 DEF Opened
      <4>2. ASSUME NEW j \in (q + 1)..(at + 1) PROVE ~items[j].opens
        <5>1. CASE j = at + 1
          BY <3>5, <5>1
        <5>2. CASE j # at + 1
          <6>1. j \in (q + 1)..at
            BY <1>2, <5>2
          <6> QED
            BY <3>1, <6>1 DEF Opened
        <5> QED
          BY <5>1, <5>2
      <4> QED
        BY <1>2, <4>1, <4>2 DEF Opened
    <3> QED
      BY <3>4, <3>6
  <2> QED
    BY <2>2, <2>3, <2>4
<1> QED
  BY <1>1, <1>5, <1>12, <1>13 DEF StreamInv

-----------------------------------------------------------------------------
(* Theorem                                                                 *)

LEMMA StreamStep == StreamInv /\ [Next]_vars => StreamInv'
<1> SUFFICES ASSUME StreamInv, [Next]_vars PROVE StreamInv'
  OBVIOUS
<1>1. CASE UNCHANGED vars
  <2>1. Inv'
    BY <1>1, InvStep DEF StreamInv
  <2>2. /\ UNCHANGED <<dbtype, transport, items, streamParams, resume, phase, at, hasFailed,
                       pos, drained, stored>>
        /\ N' = N
    BY <1>1 DEF vars, statement, plugin, streams, history, N
  <2>3. Listed' /\ Unread'
    BY <2>2 DEF StreamInv, Listed, Unread, First
  <2>4. StreamsReachTheirRow' /\ StreamsInReach' = StreamsInReach
    BY <2>2 DEF StreamInv, StreamsReachTheirRow, StreamsInReach, StreamsInOneSql, StreamsInOneRow,
               StreamsOf, RowsOf, NextSql
  <2>5. First(at)' = First(at) /\ \A q : First(q)' = First(q) /\ Opened(q)' = Opened(q)
    BY <2>2 DEF First, Opened
  <2>6. Placed'
    BY <2>2, <2>4, <2>5 DEF StreamInv, Placed
  <2> QED
    BY <2>1, <2>3, <2>4, <2>6 DEF StreamInv
<1>2. ASSUME NEW holes \in 1..MaxParams, AddSql(holes) PROVE StreamInv'
  BY <1>2, AddSqlListed
<1>3. ASSUME NEW isStream \in BOOLEAN, Bind(isStream) PROVE StreamInv'
  BY <1>3, BindListed
<1>4. ASSUME NEW ok \in BOOLEAN, RunSql(ok) PROVE StreamInv'
  BY <1>4, RunSqlPlaced
<1>5. ASSUME NEW ok \in BOOLEAN, NEW n \in 0..MaxParams, RunRow(ok, n) PROVE StreamInv'
  BY <1>5, RunRowPlaced
<1> QED
  BY <1>1, <1>2, <1>3, <1>4, <1>5, AddRowListed, ExecuteListed, FinishPlaced, OpenRowsPlaced,
     PrepareFailsPlaced, RowsStopPlaced, RowMisboundPlaced, CallLostPlaced DEF Next

(* A row that was stored has its own streams, whole and in order, though   *)
(* neither the request nor the list of the client says which are whose: in *)
(* a batch that stops at the first failure over the proxy always, with a   *)
(* plugin in the client when one SQL, with mysql one row, has them all.    *)
THEOREM StreamsReachTheRow == Spec => []StreamsReachTheirRow
<1>1. StreamInv => StreamsReachTheirRow
  BY DEF StreamInv
<1> QED
  BY <1>1, StreamInit, StreamStep, PTL DEF Spec
=============================================================================
