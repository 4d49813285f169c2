------------------------- MODULE ResultCursorProofs -------------------------
(***************************************************************************)
(* Proofs about ResultCursor, for any statements, programs, fetch sizes    *)
(* and uninitialized values.  The inductive invariant says, for each       *)
(* statement by itself, how its data set, what was read of it and the      *)
(* plugin's result belong together.                                        *)
(***************************************************************************)
EXTENDS ResultCursor, TLAPS

-----------------------------------------------------------------------------
(* The inductive invariant                                                 *)

Valid(s) == resultSet[s] # None /\ CursorValid(resultSet[s].cursor)

Cursors ==
  \A s, u \in Statements :
    s # u /\ resultSet[s] # None /\ resultSet[u] # None =>
      resultSet[s].cursor # resultSet[u].cursor

(* The results after the one at hand, wherever the plugin has them.        *)
Rest ==
  CASE dbtype = "pgsql"  -> <<>>
    [] dbtype = "mysql"  -> wire.results
    [] dbtype = "oracle" -> m_Result.rest

Remaining(r, rest) ==
  /\ r.index \in 1..Len(r.program)
  /\ Len(rest) = Len(r.program) - r.index
  /\ \A k \in 1..Len(rest) : rest[k] = r.program[r.index + k]

(* The plugin's result is the one the statement is at.                     *)
AtItsResult(s) ==
  Valid(s) =>
    /\ m_Result.open
    /\ m_Result.exec = reading[s].exec /\ m_Result.index = reading[s].index
    /\ Remaining(reading[s], Rest)
    /\ m_Result.total = reading[s].program[reading[s].index]
    /\ ~reading[s].garbled => m_Result.offset = 0 /\ m_Result.limit = 0

Unspoilt(s) == resultSet[s] # None /\ ~reading[s].touched => Valid(s)

Exhausted(s) ==
  exhausted[s] => resultSet[s] = None /\ reading[s].index = Len(reading[s].program)

(* A row number within the result.                                         *)
RowOf(r, row) == row[1] = r.exec /\ row[2] = r.index /\ row[3] <= r.program[r.index]

(* What was read is the first part of the rows the statement was sent.     *)
InStep(S, r) ==
  /\ r.index \in 1..Len(r.program)
  /\ ~S.eof => S.rows # <<>>
  /\ S.rows = <<>> => r.program[r.index] = 0
  /\ \A i \in 1..Len(S.rows) : RowOf(r, S.rows[i]) /\ S.rows[i][3] = S.rows[1][3] + i - 1
  /\ S.currRow = 0 =>
       /\ r.rows = <<>>
       /\ S.rows # <<>> => S.rows[1][3] = 1
  /\ S.currRow > 0 => r.rows # <<>> /\ r.rows[Len(r.rows)] = S.rows[S.currRow]
  /\ S.eof /\ ~r.garbled /\ S.rows # <<>> =>
       S.rows[Len(S.rows)][3] = r.program[r.index]

Follows(s) == resultSet[s] # None /\ ~reading[s].ended => InStep(resultSet[s], reading[s])

(* The next fetch goes on behind the last row that was sent.               *)
GoesOn(s) ==
  Valid(s) /\ ~reading[s].ended /\ ~resultSet[s].eof =>
    m_Result.current = resultSet[s].rows[Len(resultSet[s].rows)][3]

Ordered(r) ==
  /\ \A i \in 1..Len(r.rows) : RowOf(r, r.rows[i])
  /\ \A i \in 1..Len(r.rows) : IF r.garbled THEN r.rows[i][3] >= i ELSE r.rows[i][3] = i
  /\ \A i \in 2..Len(r.rows) : r.rows[i-1][3] < r.rows[i][3]

Complete(r) ==
  r.ended /\ ~r.touched /\ ~r.garbled => Len(r.rows) = r.program[r.index]

Good(s) ==
  /\ AtItsResult(s)
  /\ Unspoilt(s)
  /\ Exhausted(s)
  /\ Follows(s)
  /\ GoesOn(s)
  /\ Ordered(reading[s])
  /\ Complete(reading[s])

Inv ==
  /\ TypeOK
  /\ Cursors
  /\ \A s \in Statements : Good(s)

-----------------------------------------------------------------------------
(* The data sets the plugin makes                                          *)

LEMMA MaxOfTwo ==
  ASSUME NEW a \in Int, NEW b \in Int
  PROVE  Max({a, b}) = IF a >= b THEN a ELSE b
<1>1. \E x \in {a, b} : \A y \in {a, b} : x >= y
  OBVIOUS
<1>2. Max({a, b}) \in {a, b} /\ \A y \in {a, b} : Max({a, b}) >= y
  BY <1>1 DEF Max
<1> QED
  BY <1>2

LEMMA MinOfTwo ==
  ASSUME NEW a \in Int, NEW b \in Int
  PROVE  Min({a, b}) = IF a <= b THEN a ELSE b
<1>1. \E x \in {a, b} : \A y \in {a, b} : x <= y
  OBVIOUS
<1>2. Min({a, b}) \in {a, b} /\ \A y \in {a, b} : Min({a, b}) <= y
  BY <1>1 DEF Min
<1> QED
  BY <1>2

Block(r, first, n) == [i \in 1..n |-> <<r.exec, r.index, first + i - 1>>]

(* createDataset sends n rows from number first on: behind what was read   *)
(* before, inside the result, up to its end or with no end mark.           *)
IsDataset(d, r, offset, limit, first, n) ==
  /\ d.rows = Block(r, first, n)
  /\ d.eof \in BOOLEAN
  /\ d.current \in 0..r.total
  /\ first > r.current
  /\ offset = 0 => first = r.current + 1
  /\ n > 0 => first + n - 1 <= r.total
  /\ ~d.eof => n > 0 /\ d.current = first + n - 1
  /\ d.eof /\ offset = 0 /\ limit = 0 => first + n - 1 = r.total

LEMMA Datasets ==
  ASSUME NEW r \in Results, r.current <= r.total, NEW offset \in Nat, NEW limit \in Nat
  PROVE  \E first \in Nat, n \in Nat :
           IsDataset(CreateDataset(r, offset, limit), r, offset, limit, first, n)
<1> DEFINE size == Max({r.fetch, 1})
           stop == IF limit = 0 THEN r.total ELSE Min({r.total, offset + limit})
           from == Max({r.current, offset}) + 1
           to   == Min({stop, from + size - 1})
           full == Filled(from, to, size)
           n    == IF to + 1 - from > 0 THEN to + 1 - from ELSE 0
           d    == CreateDataset(r, offset, limit)
<1>1. r.fetch \in Nat /\ r.total \in Nat /\ r.current \in Nat
  BY DEF Results
<1>2. size \in Nat /\ size >= 1
  BY <1>1, MaxOfTwo
<1>3. /\ stop \in Nat /\ stop <= r.total
      /\ limit = 0 => stop = r.total
  BY <1>1, MinOfTwo
<1>4. /\ from \in Nat /\ from > r.current
      /\ offset = 0 => from = r.current + 1
  BY <1>1, MaxOfTwo
<1>5. /\ to \in Int /\ to <= stop /\ to <= from + size - 1
      /\ to = stop \/ to = from + size - 1
  <2> HIDE DEF size, stop, from
  <2> QED
    BY <1>2, <1>3, <1>4, MinOfTwo
<1> HIDE DEF size, stop, from, to
<1>6. n \in Nat /\ 1..(to + 1 - from) = 1..n
  BY <1>4, <1>5
<1>7. full <=> to = from + size - 1
  BY DEF Filled
<1>8. /\ d.rows = [i \in 1..(to + 1 - from) |-> <<r.exec, r.index, from + i - 1>>]
      /\ d.eof = ~full
      /\ d.current = IF full THEN to
                     ELSE Min({r.total, IF stop = r.total THEN stop
                                        ELSE Max({r.current, stop}) + 1})
  BY DEF CreateDataset, size, stop, from, to
<1>9. d.current \in 0..r.total
  <2>1. CASE full
    BY <2>1, <1>1, <1>2, <1>3, <1>4, <1>5, <1>7, <1>8
  <2>2. CASE ~full
    <3> DEFINE next == IF stop = r.total THEN stop ELSE Max({r.current, stop}) + 1
    <3>1. next \in Nat
      BY <1>1, <1>3, MaxOfTwo
    <3> HIDE DEF next
    <3>2. d.current = Min({r.total, next})
      BY <2>2, <1>8 DEF next
    <3> QED
      BY <3>1, <3>2, <1>1, MinOfTwo
  <2> QED
    BY <2>1, <2>2
<1>10. ~d.eof => n > 0 /\ d.current = from + n - 1
  <2>1. ~d.eof => full /\ d.current = to
    BY <1>8
  <2>2. full => n > 0 /\ to = from + n - 1
    BY <1>2, <1>4, <1>5, <1>7
  <2> QED
    BY <2>1, <2>2
<1>11. d.eof /\ offset = 0 /\ limit = 0 => from + n - 1 = r.total
  <2>1. d.eof => ~full
    BY <1>8
  <2>2. ~full => to = stop
    BY <1>5, <1>7
  <2>3. offset = 0 /\ limit = 0 => stop = r.total /\ from <= r.total + 1
    BY <1>1, <1>3, <1>4
  <2>4. to = r.total /\ from <= r.total + 1 => from + n - 1 = r.total
    BY <1>1, <1>4, <1>5
  <2> QED
    BY <2>1, <2>2, <2>3, <2>4
<1>12. n > 0 => from + n - 1 <= r.total
  BY <1>1, <1>3, <1>4, <1>5
<1>13. IsDataset(d, r, offset, limit, from, n)
  BY <1>4, <1>6, <1>8, <1>9, <1>10, <1>11, <1>12 DEF IsDataset, Block
<1> QED
  BY <1>4, <1>6, <1>13

LEMMA Blocks ==
  ASSUME NEW r \in Results, r.exec \in 1..MaxExecutions, NEW first \in Nat, NEW n \in Nat
  PROVE  /\ Block(r, first, n) \in Seq(Rows) /\ Len(Block(r, first, n)) = n
         /\ \A i \in 1..n : Block(r, first, n)[i] = <<r.exec, r.index, first + i - 1>>
<1> DEFINE row(i) == <<r.exec, r.index, first + i - 1>>
<1>1. /\ r.index \in Nat
      /\ \A i \in 1..n : first + i - 1 \in Nat
  BY DEF Results
<1>2. \A i \in 1..n : row(i) \in Rows
  BY <1>1 DEF Rows
<1>3. Block(r, first, n) = [i \in 1..n |-> row(i)]
  BY DEF Block
<1>4. \A i \in 1..n : Block(r, first, n)[i] = row(i)
  BY <1>3
<1> HIDE DEF row
<1>5. Block(r, first, n) \in Seq(Rows) /\ Len(Block(r, first, n)) = n
  BY <1>2, <1>3
<1> QED
  BY <1>4, <1>5 DEF row

-----------------------------------------------------------------------------
(* One statement at a time                                                 *)

(* Where a statement is depends on a few fields only.                      *)
LEMMA InStepSame ==
  ASSUME NEW S, NEW r, InStep(S, r), NEW T, NEW q,
         T.rows = S.rows, T.eof = S.eof, T.currRow = S.currRow,
         q.exec = r.exec, q.index = r.index, q.program = r.program,
         q.rows = r.rows, q.garbled = r.garbled
  PROVE  InStep(T, q)
  BY DEF InStep, RowOf

(* What other statements do leaves a statement good: its result is the     *)
(* same, or no longer the plugin's.                                        *)
LEMMA OthersKeep ==
  ASSUME NEW u \in Statements, Good(u), TypeOK,
         \/ resultSet'[u] = resultSet[u]
         \/ resultSet[u] # None /\ resultSet'[u] = [resultSet[u] EXCEPT !.closed = TRUE],
         exhausted'[u] = exhausted[u],
         \/ reading'[u] = reading[u]
         \/ reading'[u] = [reading[u] EXCEPT !.touched = TRUE],
         Valid(u)' => Valid(u) /\ m_Result' = m_Result /\ wire' = wire,
         dbtype' = dbtype,
         resultSet[u] # None /\ ~reading'[u].touched => Valid(u)'
  PROVE  Good(u)'
<1>1. /\ reading'[u].exec = reading[u].exec /\ reading'[u].index = reading[u].index
      /\ reading'[u].program = reading[u].program /\ reading'[u].rows = reading[u].rows
      /\ reading'[u].ended = reading[u].ended /\ reading'[u].garbled = reading[u].garbled
      /\ ~reading'[u].touched => ~reading[u].touched
  BY DEF TypeOK, Readings
<1>2. /\ resultSet'[u] # None <=> resultSet[u] # None
      /\ resultSet[u] # None =>
           /\ resultSet'[u].rows = resultSet[u].rows /\ resultSet'[u].eof = resultSet[u].eof
           /\ resultSet'[u].currRow = resultSet[u].currRow
           /\ resultSet'[u].cursor = resultSet[u].cursor
  <2>1. CASE resultSet'[u] = resultSet[u]
    BY <2>1
  <2>2. CASE resultSet[u] # None /\ resultSet'[u] = [resultSet[u] EXCEPT !.closed = TRUE]
    <3>1. resultSet[u] \in Sets
      BY <2>2 DEF TypeOK
    <3>2. resultSet'[u] \in Sets
      BY <2>2, <3>1 DEF Sets
    <3> QED
      BY <2>2, <3>1, <3>2, NoneAssumption DEF Sets
  <2> QED
    BY <2>1, <2>2
<1>3. Unspoilt(u)'
  BY <1>2 DEF Unspoilt
<1>4. Exhausted(u)'
  BY <1>1, <1>2 DEF Good, Exhausted
<1>5. Follows(u)'
  <2> SUFFICES ASSUME resultSet'[u] # None, ~reading'[u].ended
               PROVE  InStep(resultSet'[u], reading'[u])
    BY DEF Follows
  <2>1. InStep(resultSet[u], reading[u])
    BY <1>1, <1>2 DEF Good, Follows
  <2> QED
    BY <1>1, <1>2, <2>1, InStepSame
<1>6. AtItsResult(u)'
  <2> SUFFICES ASSUME Valid(u)' PROVE AtItsResult(u)'
    BY DEF AtItsResult
  <2>1. Rest' = Rest
    BY DEF Rest
  <2> QED
    BY <1>1, <2>1 DEF Good, AtItsResult, Remaining
<1>7. GoesOn(u)'
  BY <1>1, <1>2 DEF Good, GoesOn
<1>8. Ordered(reading[u])'
  BY <1>1 DEF Good, Ordered, RowOf
<1>9. Complete(reading[u])'
  BY <1>1 DEF Good, Complete
<1> QED
  BY <1>3, <1>4, <1>5, <1>6, <1>7, <1>8, <1>9 DEF Good

(* The first data set of a result, whose reading begins.                   *)
LEMMA AnswerIsGood ==
  ASSUME NEW s \in Statements, TypeOK, NEW r \in Results,
         r.exec \in 1..MaxExecutions, r.current = 0, r.open,
         Answer(s, r),
         reading'[s] \in Readings,
         reading'[s].exec = r.exec, reading'[s].index = r.index,
         reading'[s].rows = <<>>, ~reading'[s].ended, ~reading'[s].touched,
         Remaining(reading'[s], Rest'),
         r.total = reading'[s].program[r.index],
         ~reading'[s].garbled => r.offset = 0 /\ r.limit = 0,
         ~exhausted'[s]
  PROVE  /\ Good(s)'
         /\ resultSet'[s] \in Sets
         /\ resultSet'[s].cursor = m_CursorID + 1 /\ resultSet'[s].currRow = 0
         /\ m_Result' \in Results
         /\ m_Result'.exec = r.exec /\ m_Result'.current <= m_Result'.total
<1> DEFINE d == CreateDataset(r, 0, 0)
           S == resultSet'[s]
           R == reading'[s]
<1>1. PICK first \in Nat, n \in Nat : IsDataset(d, r, 0, 0, first, n)
  <2>1. r.current <= r.total
    BY DEF Results
  <2>2. 0 \in Nat
    OBVIOUS
  <2> HIDE DEF d
  <2> QED
    BY <2>1, <2>2, Datasets DEF d
<1> HIDE DEF d
<1>2. /\ d.rows \in Seq(Rows) /\ Len(d.rows) = n
      /\ \A i \in 1..n : d.rows[i] = <<r.exec, r.index, first + i - 1>>
  <2>1. /\ Block(r, first, n) \in Seq(Rows) /\ Len(Block(r, first, n)) = n
        /\ \A i \in 1..n : Block(r, first, n)[i] = <<r.exec, r.index, first + i - 1>>
    BY Blocks
  <2>2. d.rows = Block(r, first, n)
    BY <1>1 DEF IsDataset
  <2> QED
    BY <2>1, <2>2
<1>3. /\ first = 1 /\ d.eof \in BOOLEAN /\ d.current \in 0..r.total
      /\ n > 0 => n <= r.total
      /\ ~d.eof => n > 0 /\ d.current = n
      /\ d.eof => n = r.total
  BY <1>1 DEF IsDataset, Results
<1>4. /\ m_CursorID' = m_CursorID + 1
      /\ m_Result' = [r EXCEPT !.current = d.current]
      /\ S = [cursor |-> m_CursorID + 1, rows |-> d.rows, eof |-> d.eof, currRow |-> 0,
              closed |-> FALSE]
  BY DEF Answer, NewSet, TypeOK, d
<1>5. /\ S \in Sets
      /\ S.cursor = m_CursorID + 1 /\ S.rows = d.rows /\ S.eof = d.eof /\ S.currRow = 0
  BY <1>2, <1>3, <1>4 DEF Sets, TypeOK
<1>6. /\ m_Result' \in Results
      /\ m_Result'.exec = r.exec /\ m_Result'.index = r.index /\ m_Result'.total = r.total
      /\ m_Result'.open /\ m_Result'.current = d.current
      /\ m_Result'.offset = r.offset /\ m_Result'.limit = r.limit
  BY <1>3, <1>4 DEF Results
<1>7. S # None /\ m_Result' # None
  BY <1>5, <1>6, NoneAssumption
<1>8. AtItsResult(s)'
  BY <1>6 DEF AtItsResult
<1>9. Unspoilt(s)' /\ Exhausted(s)'
  BY <1>4, <1>5, <1>7 DEF Unspoilt, Exhausted, Valid, CursorValid
<1>10. InStep(S, R)
  <2>1. R.index \in 1..Len(R.program)
    BY DEF Remaining
  <2>2. ~S.eof => S.rows # <<>>
    BY <1>2, <1>3, <1>5
  <2>3. S.rows = <<>> => R.program[R.index] = 0
    BY <1>2, <1>3, <1>5
  <2>4. \A i \in 1..Len(S.rows) : RowOf(R, S.rows[i]) /\ S.rows[i][3] = S.rows[1][3] + i - 1
    BY <1>2, <1>3, <1>5, SMTT(30) DEF RowOf, Results
  <2>5. S.rows # <<>> => S.rows[1][3] = 1
    BY <1>2, <1>3, <1>5
  <2>6. S.eof /\ S.rows # <<>> => S.rows[Len(S.rows)][3] = R.program[R.index]
    BY <1>2, <1>3, <1>5 DEF Results
  <2> QED
    BY <1>5, <2>1, <2>2, <2>3, <2>4, <2>5, <2>6 DEF InStep
<1>11. GoesOn(s)'
  BY <1>2, <1>3, <1>5, <1>6 DEF GoesOn
<1>12. Ordered(R) /\ Complete(R)
  BY DEF Ordered, Complete
<1> QED
  BY <1>5, <1>6, <1>3, <1>8, <1>9, <1>10, <1>11, <1>12 DEF Good, Follows

(* A row is read behind those that were read before.                       *)
LEMMA OneRowMore ==
  ASSUME NEW r \in Readings, Ordered(r), NEW row \in Rows, RowOf(r, row),
         r.rows = <<>> => row[3] >= 1 /\ (~r.garbled => row[3] = 1),
         r.rows # <<>> => LET last == r.rows[Len(r.rows)]
                          IN  row[3] > last[3] /\ (~r.garbled => row[3] = last[3] + 1)
  PROVE  Ordered([r EXCEPT !.rows = Append(@, row)])
<1> DEFINE q == [r EXCEPT !.rows = Append(@, row)]
           n == Len(r.rows)
<1>1. /\ r.rows \in Seq(Rows) /\ n \in Nat /\ q.rows = Append(r.rows, row)
      /\ q.exec = r.exec /\ q.index = r.index /\ q.program = r.program
      /\ q.garbled = r.garbled
  BY DEF Readings
<1>2. /\ Len(q.rows) = n + 1 /\ q.rows[n + 1] = row
      /\ \A i \in 1..n : q.rows[i] = r.rows[i] /\ r.rows[i] \in Rows
  BY <1>1
<1> HIDE DEF q
<1>3. r.rows = <<>> <=> n = 0
  BY <1>1
<1>4. \A x \in Rows : x[3] \in Nat
  BY DEF Rows
<1>5. \A i \in 1..Len(q.rows) : RowOf(q, q.rows[i])
  BY <1>1, <1>2 DEF Ordered, RowOf
<1>6. \A i \in 1..Len(q.rows) : IF q.garbled THEN q.rows[i][3] >= i ELSE q.rows[i][3] = i
  <2> SUFFICES ASSUME NEW i \in 1..(n + 1)
               PROVE  IF q.garbled THEN q.rows[i][3] >= i ELSE q.rows[i][3] = i
    BY <1>2
  <2>1. CASE i = n + 1
    <3>1. q.rows[i] = row /\ row[3] \in Nat /\ q.garbled = r.garbled
      BY <2>1, <1>1, <1>2, <1>4
    <3>2. CASE n = 0
      BY <2>1, <1>3, <3>1, <3>2
    <3>3. CASE n > 0
      <4>1. /\ r.rows[n][3] \in Nat
            /\ IF r.garbled THEN r.rows[n][3] >= n ELSE r.rows[n][3] = n
        BY <1>1, <1>2, <1>4, <3>3 DEF Ordered
      <4>2. row[3] > r.rows[n][3] /\ (~r.garbled => row[3] = r.rows[n][3] + 1)
        BY <1>3, <3>3
      <4> QED
        BY <1>1, <2>1, <3>1, <4>1, <4>2
    <3> QED
      BY <1>1, <3>2, <3>3
  <2>2. CASE i \in 1..n
    BY <2>2, <1>1, <1>2, <1>3, <1>4, SMTT(30) DEF Ordered
  <2> QED
    BY <2>1, <2>2, <1>2
<1>7. \A i \in 2..Len(q.rows) : q.rows[i-1][3] < q.rows[i][3]
  <2> SUFFICES ASSUME NEW i \in 2..(n + 1) PROVE q.rows[i-1][3] < q.rows[i][3]
    BY <1>2
  <2>1. CASE i = n + 1
    BY <2>1, <1>1, <1>2, <1>3
  <2>2. CASE i \in 2..n
    <3>1. i - 1 \in 1..n /\ i \in 1..n
      BY <2>2
    <3> QED
      BY <2>2, <3>1, <1>2 DEF Ordered
  <2> QED
    BY <1>1, <2>1, <2>2
<1> QED
  BY <1>5, <1>6, <1>7 DEF Ordered, q

-----------------------------------------------------------------------------
(* The initial state and the steps                                         *)

LEMMA InitInv == Init => Inv
<1> SUFFICES ASSUME Init PROVE Inv
  OBVIOUS
<1>1. TypeOK
  BY SizesAssumption DEF Init, TypeOK, Idle, Unread, Begun, Readings
<1>2. Cursors
  BY DEF Init, Cursors
<1>3. \A s \in Statements : Good(s)
  BY DEF Init, Good, AtItsResult, Unspoilt, Exhausted, Follows, GoesOn, Ordered, Complete,
         Valid, Unread, Begun
<1> QED
  BY <1>1, <1>2, <1>3 DEF Inv

LEMMA TouchedKeeps ==
  ASSUME TypeOK, reading' = Touched
  PROVE  /\ reading' \in [Statements -> Readings]
         /\ \A s \in Statements : /\ reading'[s] = [reading[s] EXCEPT !.touched = TRUE]
                                  /\ reading'[s].touched
<1>1. ASSUME NEW s \in Statements
      PROVE  /\ [reading[s] EXCEPT !.touched = TRUE] \in Readings
             /\ [reading[s] EXCEPT !.touched = TRUE].touched
  <2>1. reading[s] \in Readings
    BY DEF TypeOK
  <2> QED
    BY <2>1 DEF Readings
<1>2. \A s \in Statements : reading'[s] = [reading[s] EXCEPT !.touched = TRUE]
  BY DEF Touched
<1> QED
  BY <1>1, <1>2 DEF Touched

(* A request that leaves the plugin without a result.                      *)
LEMMA DropKeeps ==
  ASSUME Inv, m_Result' = None, reading' = Touched,
         UNCHANGED <<dbtype, m_CursorID, wire, exhausted>>,
         answer' \in [Statements -> {"none", "rows", "update", "error", "outOfSync"}],
         executions' \in executions..MaxExecutions,
         \A u \in Statements :
           \/ resultSet'[u] = resultSet[u]
           \/ resultSet[u] # None /\ resultSet'[u] = [resultSet[u] EXCEPT !.closed = TRUE],
         resultSet' = [u \in Statements |-> resultSet'[u]]
  PROVE  Inv'
<1>1. TypeOK
  BY DEF Inv
<1>2. /\ reading' \in [Statements -> Readings]
      /\ \A u \in Statements : /\ reading'[u] = [reading[u] EXCEPT !.touched = TRUE]
                               /\ reading'[u].touched
  BY <1>1, TouchedKeeps
<1>3. ASSUME NEW u \in Statements
      PROVE  /\ resultSet'[u] \in Sets \cup {None}
             /\ resultSet'[u] # None =>
                  /\ resultSet[u] # None
                  /\ resultSet'[u].cursor = resultSet[u].cursor
                  /\ resultSet'[u].currRow = resultSet[u].currRow
                  /\ resultSet'[u].rows = resultSet[u].rows
  <2>1. resultSet[u] \in Sets \cup {None}
    BY <1>1 DEF TypeOK
  <2>2. CASE resultSet'[u] = resultSet[u]
    BY <2>1, <2>2
  <2>3. CASE resultSet[u] # None /\ resultSet'[u] = [resultSet[u] EXCEPT !.closed = TRUE]
    BY <2>1, <2>3 DEF Sets
  <2> QED
    BY <2>2, <2>3
<1>4. TypeOK'
  <2>1. resultSet' \in [Statements -> Sets \cup {None}]
    BY <1>3
  <2>2. \A u \in Statements : resultSet'[u] # None =>
          /\ resultSet'[u].cursor <= m_CursorID'
          /\ resultSet'[u].currRow <= Len(resultSet'[u].rows)
    BY <1>1, <1>3 DEF TypeOK
  <2> QED
    BY <1>1, <1>2, <2>1, <2>2 DEF TypeOK
<1>5. Cursors'
  BY <1>3 DEF Inv, Cursors
<1>6. ASSUME NEW u \in Statements PROVE Good(u)'
  <2>1. Good(u) /\ ~Valid(u)' /\ exhausted'[u] = exhausted[u] /\ dbtype' = dbtype
    BY DEF Inv, Valid, CursorValid
  <2> QED
    BY <1>1, <1>2, <2>1, OthersKeep
<1> QED
  BY <1>4, <1>5, <1>6 DEF Inv

LEMMA ExecuteUpdateKeeps ==
  ASSUME Inv, NEW s \in Statements, ExecuteUpdate(s) PROVE Inv'
<1>1. /\ answer' \in [Statements -> {"none", "rows", "update", "error", "outOfSync"}]
      /\ executions' \in executions..MaxExecutions
      /\ resultSet' = [u \in Statements |-> resultSet'[u]]
  BY SizesAssumption DEF ExecuteUpdate, Execute, Inv, TypeOK
<1> QED
  BY <1>1, DropKeeps DEF ExecuteUpdate, Execute

LEMMA ExecuteFailsKeeps ==
  ASSUME Inv, NEW s \in Statements, ExecuteFails(s) PROVE Inv'
<1>1. /\ answer' \in [Statements -> {"none", "rows", "update", "error", "outOfSync"}]
      /\ executions' \in executions..MaxExecutions
      /\ resultSet' = [u \in Statements |-> resultSet'[u]]
  BY SizesAssumption DEF ExecuteFails, Execute, Inv, TypeOK
<1> QED
  BY <1>1, DropKeeps DEF ExecuteFails, Execute

LEMMA UpdateKeeps ==
  ASSUME Inv, Update PROVE Inv'
<1>1. /\ answer' \in [Statements -> {"none", "rows", "update", "error", "outOfSync"}]
      /\ executions' \in executions..MaxExecutions
      /\ resultSet' = [u \in Statements |-> resultSet'[u]]
  BY SizesAssumption DEF Update, Inv, TypeOK
<1> QED
  BY <1>1, DropKeeps DEF Update

LEMMA CloseSetKeeps ==
  ASSUME Inv, NEW s \in Statements, CloseSet(s) PROVE Inv'
<1>1. /\ answer' \in [Statements -> {"none", "rows", "update", "error", "outOfSync"}]
      /\ executions' \in executions..MaxExecutions
      /\ resultSet' = [u \in Statements |-> resultSet'[u]]
  <2>1. executions \in 0..MaxExecutions /\ executions' = executions
    BY DEF CloseSet, Inv, TypeOK
  <2>2. answer' = answer /\ answer \in [Statements -> {"none", "rows", "update", "error", "outOfSync"}]
    BY DEF CloseSet, Inv, TypeOK
  <2>3. resultSet' = [u \in Statements |-> resultSet'[u]]
    BY DEF CloseSet, Inv, TypeOK
  <2> QED
    BY <2>1, <2>2, <2>3, SizesAssumption
<1>2. \A u \in Statements :
        \/ resultSet'[u] = resultSet[u]
        \/ resultSet[u] # None /\ resultSet'[u] = [resultSet[u] EXCEPT !.closed = TRUE]
  BY DEF CloseSet, Inv, TypeOK
<1> QED
  BY <1>1, <1>2, DropKeeps DEF CloseSet

LEMMA ClearKeeps ==
  ASSUME Inv, NEW s \in Statements, Clear(s) PROVE Inv'
<1>1. TypeOK
  BY DEF Inv
<1>2. /\ resultSet' = [resultSet EXCEPT ![s] = None]
      /\ UNCHANGED <<dbtype, m_Result, m_CursorID, wire, answer, reading, exhausted, executions>>
  BY DEF Clear, plugin, app
<1>3. TypeOK' /\ Cursors'
  BY <1>2 DEF Inv, TypeOK, Cursors
<1>4. Good(s)'
  BY <1>1, <1>2 DEF Inv, TypeOK, Good, AtItsResult, Unspoilt, Exhausted, Follows, GoesOn,
                    Ordered, RowOf, Complete, Valid
<1>5. ASSUME NEW u \in Statements \ {s} PROVE Good(u)'
  <2>1. /\ Good(u) /\ resultSet'[u] = resultSet[u] /\ reading'[u] = reading[u]
        /\ Valid(u)' = Valid(u) /\ Unspoilt(u)
    BY <1>1, <1>2 DEF Inv, Good, TypeOK, Valid, CursorValid
  <2> QED
    BY <1>1, <1>2, <2>1, OthersKeep DEF Unspoilt
<1> QED
  BY <1>3, <1>4, <1>5 DEF Inv

-----------------------------------------------------------------------------
(* execute() with a query                                                  *)

LEMMA OutcomeParts ==
  ASSUME NEW x, NEW r, NEW w, x = [result |-> r, wire |-> w]
  PROVE  x.result = r /\ x.wire = w
OBVIOUS

LEMMA FreshReading ==
  ASSUME NEW e \in Nat, NEW i \in Nat, NEW p \in Seq(Nat), NEW g \in BOOLEAN
  PROVE  /\ Begun(e, i, p, g) \in Readings
         /\ Begun(e, i, p, g).exec = e /\ Begun(e, i, p, g).index = i
         /\ Begun(e, i, p, g).program = p /\ Begun(e, i, p, g).rows = <<>>
         /\ ~Begun(e, i, p, g).ended /\ ~Begun(e, i, p, g).touched
         /\ Begun(e, i, p, g).garbled = g
<1> DEFINE none == <<>>
           no == FALSE
           R == Begun(e, i, p, g)
<1>1. R = [exec |-> e, index |-> i, program |-> p, rows |-> none, ended |-> no,
           touched |-> no, garbled |-> g]
  BY DEF Begun
<1>2. none \in Seq(Rows) /\ no \in BOOLEAN
  OBVIOUS
<1> HIDE DEF none, no, R
<1>3. R \in Readings
  BY <1>1, <1>2 DEF Readings
<1>4. R.exec = e /\ R.index = i /\ R.program = p /\ R.rows = none
  BY <1>1
<1>5. R.ended = no
  BY <1>1
<1>6. R.touched = no
  BY <1>1
<1>7. R.garbled = g
  BY <1>1
<1> QED
  BY <1>3, <1>4, <1>5, <1>6, <1>7, Zenon DEF none, no, R

LEMMA ExecuteQueryKeeps ==
  ASSUME Inv, NEW s \in Statements, ExecuteQuery(s) PROVE Inv'
<1>1. TypeOK
  BY DEF Inv
<1>2. /\ executions < MaxExecutions /\ executions' = executions + 1 /\ dbtype' = dbtype
      /\ answer' = [answer EXCEPT ![s] = "rows"]
      /\ exhausted' = [exhausted EXCEPT ![s] = FALSE]
  BY DEF ExecuteQuery, Execute
<1>3. PICK program \in Programs \ {<<>>}, fetch \in FetchSizes :
        \E outcome \in OnExecute(NewResult(executions + 1, 1, Head(program), fetch), program) :
          /\ Answer(s, outcome.result)
          /\ wire' = outcome.wire
          /\ reading' =
               [Touched EXCEPT ![s] =
                  Begun(executions + 1, 1, program,
                        outcome.result.offset # 0 \/ outcome.result.limit # 0)]
  BY DEF ExecuteQuery, NewResult
<1> DEFINE first == NewResult(executions + 1, 1, Head(program), fetch)
<1>4. PICK outcome \in OnExecute(first, program) :
        /\ Answer(s, outcome.result)
        /\ wire' = outcome.wire
        /\ reading' =
             [Touched EXCEPT ![s] =
                Begun(executions + 1, 1, program,
                      outcome.result.offset # 0 \/ outcome.result.limit # 0)]
  BY <1>3
<1>5. /\ program \in Seq(Nat) /\ program # <<>> /\ Len(program) \in Nat /\ Len(program) >= 1
      /\ Head(program) = program[1] /\ program[1] \in Nat
      /\ Tail(program) \in Seq(Nat) /\ Len(Tail(program)) = Len(program) - 1
      /\ \A k \in 1..Len(Tail(program)) : Tail(program)[k] = program[1 + k]
  BY ProgramsAssumption
<1> DEFINE r == outcome.result
           w == outcome.wire
<1>6. /\ r \in Results /\ r.exec = executions + 1 /\ r.index = 1 /\ r.total = program[1]
      /\ r.current = 0 /\ r.open
      /\ w \in [results : Seq(Nat), status : BOOLEAN]
      /\ dbtype = "pgsql" => Len(program) = 1
      /\ dbtype = "mysql" => /\ Len(w.results) = Len(program) - 1
                             /\ \A k \in 1..Len(w.results) : w.results[k] = program[1 + k]
      /\ dbtype = "oracle" => /\ Len(r.rest) = Len(program) - 1
                              /\ \A k \in 1..Len(r.rest) : r.rest[k] = program[1 + k]
  <2>1. /\ first \in Results /\ first.exec = executions + 1 /\ first.index = 1
        /\ first.total = program[1] /\ first.current = 0 /\ first.open /\ first.rest = <<>>
    BY <1>1, <1>5, SizesAssumption DEF NewResult, Results, TypeOK
  <2> HIDE DEF first
  <2>2. CASE dbtype = "pgsql"
    <3>1. Len(program) = 1 /\ r = first /\ w = Idle
      BY <2>2, <1>4 DEF OnExecute, PgsqlExecute
    <3> QED
      BY <2>1, <2>2, <3>1 DEF Idle
  <2>3. CASE dbtype = "mysql"
    <3>1. \/ outcome = [result |-> first, wire |-> [results |-> Tail(program), status |-> TRUE]]
          \/ Len(program) = 1 /\ outcome = [result |-> first, wire |-> Idle]
      <4>1. outcome \in MysqlExecute(first, program)
        BY <2>3, <1>4 DEF OnExecute
      <4> QED
        BY <4>1 DEF MysqlExecute
    <3>2. /\ r = first
          /\ \/ w = [results |-> Tail(program), status |-> TRUE]
             \/ Len(program) = 1 /\ w = Idle
      <4>1. ASSUME NEW v, outcome = [result |-> first, wire |-> v]
            PROVE  r = first /\ w = v
        BY <4>1, OutcomeParts, Zenon
      <4> HIDE DEF r, w
      <4> QED
        BY <3>1, <4>1, Zenon
    <3> HIDE DEF r, w
    <3>3. CASE w = [results |-> Tail(program), status |-> TRUE]
      BY <2>1, <2>3, <3>2, <3>3, <1>5
    <3>4. CASE Len(program) = 1 /\ w = Idle
      BY <2>1, <2>3, <3>2, <3>4, <1>5 DEF Idle
    <3> QED
      BY <3>2, <3>3, <3>4
  <2>4. CASE dbtype = "oracle"
    <3>1. outcome \in OracleExecute(first, program)
      BY <2>4, <1>4 DEF OnExecute
    <3> DEFINE out(g) ==
                 [result |-> [first EXCEPT !.rest = Tail(program), !.offset = g[1],
                                           !.limit = g[2]],
                  wire |-> Idle]
               many == {out(g) : g \in Garbage \X Garbage}
               one  == IF Len(program) = 1 THEN {[result |-> first, wire |-> Idle]} ELSE {}
    <3>2. /\ \/ \E g \in Garbage \X Garbage :
                  r = [first EXCEPT !.rest = Tail(program), !.offset = g[1], !.limit = g[2]]
             \/ Len(program) = 1 /\ r = first
          /\ w = Idle
      <4>1. OracleExecute(first, program) = many \cup one
        BY DEF OracleExecute
      <4>2. outcome \in one => Len(program) = 1 /\ outcome = [result |-> first, wire |-> Idle]
        OBVIOUS
      <4> HIDE DEF one, out
      <4>3. outcome \in many => \E g \in Garbage \X Garbage : outcome = out(g)
        OBVIOUS
      <4> HIDE DEF many
      <4>4. ASSUME NEW v, outcome = [result |-> v, wire |-> Idle]
            PROVE  r = v /\ w = Idle
        BY <4>4, OutcomeParts, Zenon
      <4> HIDE DEF r, w
      <4>5. ASSUME NEW g \in Garbage \X Garbage, outcome = out(g)
            PROVE  /\ r = [first EXCEPT !.rest = Tail(program), !.offset = g[1], !.limit = g[2]]
                   /\ w = Idle
        BY <4>4, <4>5, Zenon DEF out
      <4>6. outcome \in many \/ outcome \in one
        BY <3>1, <4>1
      <4> QED
        BY <4>2, <4>3, <4>4, <4>5, <4>6, Zenon
    <3> HIDE DEF out, many, one
    <3> HIDE DEF r, w
    <3>3. w \in [results : Seq(Nat), status : BOOLEAN]
      <4>1. Idle \in [results : Seq(Nat), status : BOOLEAN]
        BY DEF Idle
      <4> QED
        BY <3>2, <4>1
    <3>4. CASE Len(program) = 1 /\ r = first
      BY <2>1, <2>4, <3>3, <3>4, <1>5
    <3>5. ASSUME NEW g \in Garbage \X Garbage,
                 r = [first EXCEPT !.rest = Tail(program), !.offset = g[1], !.limit = g[2]]
          PROVE  /\ r \in Results /\ r.exec = first.exec /\ r.index = first.index
                 /\ r.total = first.total /\ r.current = first.current /\ r.open = first.open
                 /\ r.rest = Tail(program)
      BY <2>1, <3>5, <1>5, SizesAssumption DEF Results
    <3>6. CASE \E g \in Garbage \X Garbage :
                 r = [first EXCEPT !.rest = Tail(program), !.offset = g[1], !.limit = g[2]]
      <4>1. /\ r \in Results /\ r.exec = first.exec /\ r.index = first.index
            /\ r.total = first.total /\ r.current = first.current /\ r.open = first.open
            /\ r.rest = Tail(program)
        BY <3>5, <3>6, Zenon
      <4> QED
        BY <2>1, <2>4, <3>3, <4>1, <1>5
    <3> QED
      BY <3>2, <3>4, <3>6
  <2> QED
    BY <2>2, <2>3, <2>4, <1>1, PluginsAssumption DEF TypeOK
<1> HIDE DEF first, r, w
<1>7. Answer(s, r) /\ wire' = w
  BY <1>4 DEF r, w
<1>8. /\ reading' \in [Statements -> Readings]
      /\ reading'[s].exec = r.exec /\ reading'[s].index = 1
      /\ reading'[s].program = program /\ reading'[s].rows = <<>>
      /\ ~reading'[s].ended /\ ~reading'[s].touched
      /\ reading'[s].garbled = (r.offset # 0 \/ r.limit # 0)
      /\ \A u \in Statements \ {s} : /\ reading'[u] = [reading[u] EXCEPT !.touched = TRUE]
                                     /\ reading'[u].touched
  <2> DEFINE garbled == r.offset # 0 \/ r.limit # 0
             R == Begun(executions + 1, 1, program, garbled)
  <2>1. /\ R \in Readings /\ R.exec = executions + 1 /\ R.index = 1
        /\ R.program = program /\ R.rows = <<>> /\ ~R.ended /\ ~R.touched
        /\ R.garbled = garbled
    <3>1. garbled \in BOOLEAN /\ executions + 1 \in Nat
      BY <1>1 DEF TypeOK
    <3> HIDE DEF garbled
    <3> QED
      BY <1>5, <3>1, 1 \in Nat, FreshReading
  <2>2. reading' = [Touched EXCEPT ![s] = R]
    BY <1>4 DEF r
  <2> HIDE DEF R
  <2>3. /\ reading'[s] = R
        /\ \A u \in Statements \ {s} : reading'[u] = [reading[u] EXCEPT !.touched = TRUE]
        /\ reading' = [u \in Statements |-> reading'[u]]
    BY <2>2 DEF Touched
  <2>4. \A u \in Statements \ {s} : reading'[u] \in Readings /\ reading'[u].touched
    <3> SUFFICES ASSUME NEW u \in Statements \ {s}
                 PROVE  reading'[u] \in Readings /\ reading'[u].touched
      OBVIOUS
    <3>1. reading[u] \in Readings
      BY <1>1 DEF TypeOK
    <3> QED
      BY <2>3, <3>1 DEF Readings
  <2>5. reading' \in [Statements -> Readings]
    BY <2>1, <2>3, <2>4
  <2> QED
    BY <1>6, <2>1, <2>3, <2>4, <2>5
<1>9. /\ m_Result' = [r EXCEPT !.current = CreateDataset(r, 0, 0).current]
      /\ m_CursorID' = m_CursorID + 1
      /\ \A u \in Statements \ {s} : resultSet'[u] = resultSet[u]
      /\ resultSet' = [u \in Statements |-> resultSet'[u]]
  BY <1>1, <1>7 DEF Answer, TypeOK
<1>10. Remaining(reading'[s], Rest')
  <2>1. m_Result'.rest = r.rest
    BY <1>6, <1>9 DEF Results
  <2>2. /\ dbtype = "pgsql" => Rest' = <<>>
        /\ dbtype = "mysql" => Rest' = w.results
        /\ dbtype = "oracle" => Rest' = r.rest
        /\ dbtype \in {"pgsql", "mysql", "oracle"}
    BY <1>1, <1>2, <1>7, <2>1, PluginsAssumption DEF Rest, TypeOK
  <2>3. /\ Len(Rest') = Len(program) - 1
        /\ \A k \in 1..Len(Rest') : Rest'[k] = program[1 + k]
    <3>1. CASE dbtype = "pgsql"
      BY <1>6, <2>2, <3>1
    <3>2. CASE dbtype = "mysql"
      BY <1>6, <2>2, <3>2, ZenonT(60)
    <3>3. CASE dbtype = "oracle"
      BY <1>6, <2>2, <3>3, ZenonT(60)
    <3> QED
      BY <2>2, <3>1, <3>2, <3>3
  <2> QED
    BY <1>5, <1>8, <2>3 DEF Remaining
<1>11. /\ Good(s)'
       /\ resultSet'[s] \in Sets
       /\ resultSet'[s].cursor = m_CursorID + 1 /\ resultSet'[s].currRow = 0
       /\ m_Result' \in Results
       /\ m_Result'.exec = r.exec /\ m_Result'.current <= m_Result'.total
  <2>1. /\ r.exec \in 1..MaxExecutions
        /\ r.total = reading'[s].program[r.index]
        /\ reading'[s].index = r.index
        /\ ~reading'[s].garbled => r.offset = 0 /\ r.limit = 0
        /\ reading'[s] \in Readings
    <3>1. r.exec \in 1..MaxExecutions
      BY <1>1, <1>2, <1>6, SizesAssumption DEF TypeOK
    <3>2. reading'[s] \in Readings
      BY <1>8
    <3> QED
      BY <1>6, <1>8, <3>1, <3>2
  <2>2. ~exhausted'[s]
    BY <1>1, <1>2 DEF TypeOK
  <2> QED
    BY <1>1, <1>6, <1>7, <1>8, <1>10, <2>1, <2>2, AnswerIsGood
<1>12. TypeOK'
  <2>1. resultSet' \in [Statements -> Sets \cup {None}]
    BY <1>1, <1>9, <1>11 DEF TypeOK
  <2>2. \A u \in Statements : resultSet'[u] # None =>
          /\ resultSet'[u].cursor <= m_CursorID'
          /\ resultSet'[u].currRow <= Len(resultSet'[u].rows)
    <3>1. \A u \in Statements \ {s} : resultSet'[u] # None => resultSet[u].cursor \in Nat
      BY <1>1, <1>9 DEF TypeOK, Sets
    <3> QED
      BY <1>1, <1>9, <1>11, <3>1 DEF TypeOK, Sets
  <2>3. executions' \in 0..MaxExecutions /\ m_Result'.exec \in 1..executions'
    BY <1>1, <1>2, <1>6, <1>11, SizesAssumption DEF TypeOK
  <2>4. /\ dbtype' \in Plugins /\ m_CursorID' \in Nat
        /\ wire' \in [results : Seq(Nat), status : BOOLEAN]
        /\ answer' \in [Statements -> {"none", "rows", "update", "error", "outOfSync"}]
        /\ exhausted' \in [Statements -> BOOLEAN]
    BY <1>1, <1>2, <1>6, <1>7, <1>9 DEF TypeOK
  <2> QED
    BY <1>8, <1>11, <2>1, <2>2, <2>3, <2>4 DEF TypeOK
<1>13. Cursors'
  BY <1>1, <1>9, <1>11 DEF Inv, Cursors, TypeOK, Sets
<1>14. ASSUME NEW u \in Statements \ {s} PROVE Good(u)'
  <2>1. ~Valid(u)'
    BY <1>1, <1>9 DEF Valid, CursorValid, TypeOK, Sets
  <2>2. Good(u) /\ exhausted'[u] = exhausted[u]
    BY <1>1, <1>2 DEF Inv, TypeOK
  <2> QED
    BY <1>1, <1>2, <1>8, <1>9, <2>1, <2>2, OthersKeep
<1> QED
  BY <1>11, <1>12, <1>13, <1>14 DEF Inv

-----------------------------------------------------------------------------
(* getResultSet(true)                                                      *)

(* The plugin has another result, or there is none.                        *)
LEMMA MoreResult ==
  ASSUME Inv, NEW s \in Statements, Valid(s)
  PROVE  LET r == OnMoreResult.result
             w == OnMoreResult.wire
         IN  /\ w \in [results : Seq(Nat), status : BOOLEAN]
             /\ IF r # None /\ r.open
                THEN /\ r \in Results /\ r.exec = m_Result.exec /\ r.index = m_Result.index + 1
                     /\ r.current = 0
                     /\ m_Result.offset = 0 /\ m_Result.limit = 0 => r.offset = 0 /\ r.limit = 0
                     /\ Rest # <<>> /\ r.total = Head(Rest)
                     /\ dbtype = "mysql" => w.results = Tail(Rest)
                     /\ dbtype = "oracle" => r.rest = Tail(Rest)
                     /\ dbtype # "pgsql"
                ELSE /\ Rest = <<>>
                     /\ r \in Results \cup {None}
                     /\ r # None => r.exec = m_Result.exec /\ r.current <= r.total /\ ~r.open
<1> DEFINE r == OnMoreResult.result
           w == OnMoreResult.wire
<1>1. /\ m_Result \in Results /\ wire \in [results : Seq(Nat), status : BOOLEAN]
      /\ m_Result # None
      /\ dbtype \in {"pgsql", "mysql", "oracle"}
  BY PluginsAssumption DEF Inv, TypeOK, Valid, CursorValid
<1>2. CASE dbtype = "pgsql"
  <2>1. OnMoreResult = [result |-> None, wire |-> wire]
    BY <1>2 DEF OnMoreResult, PgsqlMoreResult
  <2>2. r = None /\ w = wire
    BY <2>1, OutcomeParts, Zenon
  <2>3. Rest = <<>>
    BY <1>2 DEF Rest
  <2> HIDE DEF r, w
  <2> QED
    BY <1>1, <2>2, <2>3 DEF r, w
<1>3. CASE dbtype = "mysql"
  <2>1. Rest = wire.results /\ wire.results \in Seq(Nat)
    BY <1>1, <1>3 DEF Rest
  <2>2. CASE Rest # <<>>
    <3> DEFINE q == NewResult(m_Result.exec, m_Result.index + 1, Head(Rest), m_Result.fetch)
               v == [wire EXCEPT !.results = Tail(@)]
    <3>1. OnMoreResult = [result |-> q, wire |-> v]
      BY <1>3, <2>1, <2>2 DEF OnMoreResult, MysqlMoreResult
    <3>2. /\ v \in [results : Seq(Nat), status : BOOLEAN] /\ v.results = Tail(Rest)
          /\ Head(Rest) \in Nat
      <4>1. Head(Rest) \in Nat /\ Tail(Rest) \in Seq(Nat)
        BY <2>1, <2>2
      <4>2. v = [wire EXCEPT !.results = Tail(Rest)]
        BY <2>1
      <4> QED
        BY <1>1, <4>1, <4>2
    <3>3. /\ q \in Results /\ q.exec = m_Result.exec /\ q.index = m_Result.index + 1
          /\ q.current = 0 /\ q.offset = 0 /\ q.limit = 0 /\ q.total = Head(Rest) /\ q.open
      BY <1>1, <3>2 DEF NewResult, Results
    <3> HIDE DEF q, v
    <3>4. r = q /\ w = v
      BY <3>1, OutcomeParts, Zenon
    <3> HIDE DEF r, w
    <3>5. q # None
      BY <3>3, NoneAssumption
    <3> QED
      BY <1>3, <2>2, <3>2, <3>3, <3>4, <3>5 DEF r, w
  <2>3. CASE Rest = <<>>
    <3>1. OnMoreResult = [result |-> None, wire |-> Idle]
      BY <1>3, <2>1, <2>3 DEF OnMoreResult, MysqlMoreResult
    <3>2. r = None /\ w = Idle
      BY <3>1, OutcomeParts, Zenon
    <3>3. Idle \in [results : Seq(Nat), status : BOOLEAN]
      BY DEF Idle
    <3> HIDE DEF r, w
    <3> QED
      BY <2>3, <3>2, <3>3 DEF r, w
  <2> QED
    BY <2>2, <2>3
<1>4. CASE dbtype = "oracle"
  <2>1. Rest = m_Result.rest /\ m_Result.rest \in Seq(Nat)
    BY <1>1, <1>4 DEF Rest, Results
  <2>2. CASE Rest # <<>>
    <3> DEFINE q == [m_Result EXCEPT !.index = @ + 1, !.total = Head(m_Result.rest),
                                     !.current = 0, !.rest = Tail(@)]
    <3>1. OnMoreResult = [result |-> q, wire |-> wire]
      BY <1>4, <2>1, <2>2 DEF OnMoreResult, OracleMoreResult
    <3>2. /\ Head(m_Result.rest) \in Nat /\ Tail(m_Result.rest) \in Seq(Nat)
          /\ m_Result.index + 1 \in Nat
      BY <1>1, <2>1, <2>2 DEF Results
    <3>3. /\ q \in Results /\ q.exec = m_Result.exec /\ q.index = m_Result.index + 1
          /\ q.current = 0 /\ q.offset = m_Result.offset /\ q.limit = m_Result.limit
          /\ q.total = Head(Rest) /\ q.rest = Tail(Rest) /\ q.open = m_Result.open
      <4> DEFINE head == Head(m_Result.rest)
                 tail == Tail(m_Result.rest)
                 next == m_Result.index + 1
      <4>1. q = [m_Result EXCEPT !.index = next, !.total = head, !.current = 0, !.rest = tail]
        OBVIOUS
      <4>2. head \in Nat /\ tail \in Seq(Nat) /\ next \in Nat
        BY <3>2
      <4> HIDE DEF head, tail, next, q
      <4>3. /\ q \in Results /\ q.exec = m_Result.exec /\ q.index = next
            /\ q.current = 0 /\ q.offset = m_Result.offset /\ q.limit = m_Result.limit
            /\ q.total = head /\ q.rest = tail /\ q.open = m_Result.open
        BY <1>1, <4>1, <4>2 DEF Results
      <4> QED
        BY <2>1, <4>3 DEF head, tail, next
    <3>4. m_Result.open
      BY DEF Inv, Good, AtItsResult
    <3> HIDE DEF q
    <3>5. r = q /\ w = wire
      BY <3>1, OutcomeParts, Zenon
    <3> HIDE DEF r, w
    <3>6. q # None
      BY <3>3, NoneAssumption
    <3> QED
      BY <1>1, <1>4, <2>2, <3>3, <3>4, <3>5, <3>6 DEF r, w
  <2>3. CASE Rest = <<>>
    <3> DEFINE q == [m_Result EXCEPT !.total = 0, !.current = 0, !.open = FALSE]
    <3>1. OnMoreResult = [result |-> q, wire |-> wire]
      BY <1>4, <2>1, <2>3 DEF OnMoreResult, OracleMoreResult
    <3>2. /\ q \in Results /\ q.exec = m_Result.exec /\ q.total = 0 /\ q.current = 0
          /\ ~q.open
      BY <1>1 DEF Results
    <3> HIDE DEF q
    <3>3. r = q /\ w = wire
      BY <3>1, OutcomeParts, Zenon
    <3> HIDE DEF r, w
    <3> QED
      BY <1>1, <2>3, <3>2, <3>3 DEF r, w
  <2> QED
    BY <2>2, <2>3
<1> QED
  BY <1>1, <1>2, <1>3, <1>4

(* What else is open on the connection is no longer, or was not before.    *)
LEMMA OthersAtNextResult ==
  ASSUME Inv, NEW s \in Statements, Valid(s), NEW u \in Statements \ {s},
         resultSet'[u] = resultSet[u], reading'[u] = reading[u], exhausted'[u] = exhausted[u],
         dbtype' = dbtype, m_CursorID' \in {m_CursorID, m_CursorID + 1}
  PROVE  Good(u)'
<1>1. resultSet[u] # None =>
        /\ resultSet[u].cursor # m_CursorID
        /\ resultSet[u].cursor <= m_CursorID /\ resultSet[u].cursor \in Nat
  BY DEF Inv, Cursors, Valid, CursorValid, TypeOK, Sets
<1>2. ~Valid(u) /\ ~Valid(u)'
  BY <1>1 DEF Valid, CursorValid, Inv, TypeOK
<1>3. resultSet[u] # None => reading[u].touched
  BY <1>2 DEF Inv, Good, Unspoilt
<1> QED
  BY <1>2, <1>3, OthersKeep DEF Inv

NextResult(s) ==
  /\ OnMoreResult.result # None /\ OnMoreResult.result.open
  /\ Answer(s, OnMoreResult.result)
  /\ wire' = OnMoreResult.wire
  /\ reading' = [reading EXCEPT ![s] = Begun(@.exec, @.index + 1, @.program, @.garbled)]
  /\ UNCHANGED <<dbtype, answer, exhausted, executions>>

LEMMA NextResultKeeps ==
  ASSUME Inv, NEW s \in Statements, Valid(s), NextResult(s)
  PROVE  Inv'
<1> DEFINE r == OnMoreResult.result
           w == OnMoreResult.wire
<1>1. TypeOK
  BY DEF Inv
<1>2. /\ w \in [results : Seq(Nat), status : BOOLEAN]
      /\ r \in Results /\ r.exec = m_Result.exec /\ r.index = m_Result.index + 1
      /\ r.current = 0 /\ r.open
      /\ m_Result.offset = 0 /\ m_Result.limit = 0 => r.offset = 0 /\ r.limit = 0
      /\ Rest # <<>> /\ r.total = Head(Rest)
      /\ dbtype = "mysql" => w.results = Tail(Rest)
      /\ dbtype = "oracle" => r.rest = Tail(Rest)
      /\ dbtype # "pgsql"
  <2>1. r # None /\ r.open
    BY DEF NextResult
  <2> QED
    BY <2>1, MoreResult
<1>3. /\ Answer(s, r) /\ wire' = w
      /\ UNCHANGED <<dbtype, answer, exhausted, executions>>
  BY DEF NextResult
<1> HIDE DEF r, w
<1>4. /\ m_Result # None /\ m_Result \in Results /\ m_Result.exec \in 1..executions
      /\ dbtype \in {"pgsql", "mysql", "oracle"} /\ reading[s] \in Readings
      /\ executions \in 0..MaxExecutions
      /\ resultSet[s] # None
  BY <1>1, PluginsAssumption DEF Valid, CursorValid, TypeOK
<1>5. /\ m_Result.exec = reading[s].exec /\ m_Result.index = reading[s].index
      /\ Remaining(reading[s], Rest)
      /\ ~reading[s].garbled => m_Result.offset = 0 /\ m_Result.limit = 0
  BY DEF Inv, Good, AtItsResult
<1>6. /\ reading' \in [Statements -> Readings]
      /\ reading'[s].exec = reading[s].exec /\ reading'[s].index = reading[s].index + 1
      /\ reading'[s].program = reading[s].program /\ reading'[s].rows = <<>>
      /\ ~reading'[s].ended /\ ~reading'[s].touched
      /\ reading'[s].garbled = reading[s].garbled
      /\ \A u \in Statements \ {s} : reading'[u] = reading[u]
  <2> DEFINE R == Begun(reading[s].exec, reading[s].index + 1, reading[s].program,
                        reading[s].garbled)
  <2>1. /\ R \in Readings
        /\ R.exec = reading[s].exec /\ R.index = reading[s].index + 1
        /\ R.program = reading[s].program /\ R.rows = <<>>
        /\ ~R.ended /\ ~R.touched /\ R.garbled = reading[s].garbled
    <3>1. /\ reading[s].exec \in Nat /\ reading[s].index + 1 \in Nat
          /\ reading[s].program \in Seq(Nat) /\ reading[s].garbled \in BOOLEAN
      BY <1>4 DEF Readings
    <3> QED
      BY <3>1, FreshReading
  <2>2. reading' = [reading EXCEPT ![s] = R]
    BY DEF NextResult
  <2> HIDE DEF R
  <2> QED
    BY <1>1, <2>1, <2>2 DEF TypeOK
<1>7. /\ m_Result' = [r EXCEPT !.current = CreateDataset(r, 0, 0).current]
      /\ m_CursorID' = m_CursorID + 1
      /\ \A u \in Statements \ {s} : resultSet'[u] = resultSet[u]
      /\ resultSet' = [u \in Statements |-> resultSet'[u]]
  BY <1>1, <1>3 DEF Answer, TypeOK
<1>8. Rest' = Tail(Rest)
  <2>1. m_Result'.rest = r.rest /\ dbtype' = dbtype
    BY <1>2, <1>3, <1>7 DEF Results
  <2>2. /\ dbtype = "mysql" => Rest' = w.results
        /\ dbtype = "oracle" => Rest' = r.rest
    BY <1>3, <2>1 DEF Rest
  <2> QED
    BY <1>2, <1>4, <2>2
<1>9. Remaining(reading'[s], Rest') /\ r.total = reading'[s].program[r.index]
  <2>1. Rest \in Seq(Nat)
    BY <1>1, <1>4 DEF Rest, TypeOK, Results
  <2>2. /\ Len(Rest) \in Nat /\ Len(Rest) >= 1 /\ Len(Tail(Rest)) = Len(Rest) - 1
        /\ \A k \in 1..Len(Tail(Rest)) : Tail(Rest)[k] = Rest[k + 1] /\ k + 1 \in 1..Len(Rest)
        /\ Head(Rest) = Rest[1] /\ 1 \in 1..Len(Rest)
    BY <1>2, <2>1
  <2>3. reading[s].index \in Nat /\ Len(reading[s].program) \in Nat
    BY <1>4 DEF Readings
  <2>4. \A k \in 1..Len(Rest') : Rest'[k] = reading[s].program[reading[s].index + 1 + k]
    <3> SUFFICES ASSUME NEW k \in 1..Len(Tail(Rest))
                 PROVE  Tail(Rest)[k] = reading[s].program[reading[s].index + 1 + k]
      BY <1>8
    <3>1. Rest[k + 1] = reading[s].program[reading[s].index + (k + 1)]
      BY <1>5, <2>2 DEF Remaining
    <3>2. reading[s].index + (k + 1) = reading[s].index + 1 + k
      <4>1. k \in Nat
        BY <2>2
      <4> QED
        BY <2>3, <4>1
    <3> QED
      BY <2>2, <3>1, <3>2
  <2>5. Len(Rest') = Len(reading'[s].program) - reading'[s].index
    BY <1>5, <1>6, <1>8, <2>2, <2>3 DEF Remaining
  <2>6. reading'[s].index \in 1..Len(reading'[s].program)
    BY <1>5, <1>6, <2>2, <2>3 DEF Remaining
  <2>7. r.total = reading'[s].program[r.index]
    <3>1. Rest[1] = reading[s].program[reading[s].index + 1]
      BY <1>5, <2>2 DEF Remaining
    <3> QED
      BY <1>2, <1>5, <1>6, <2>2, <3>1
  <2> QED
    BY <1>6, <2>4, <2>5, <2>6, <2>7 DEF Remaining
<1>10. /\ Good(s)'
       /\ resultSet'[s] \in Sets
       /\ resultSet'[s].cursor = m_CursorID + 1 /\ resultSet'[s].currRow = 0
       /\ m_Result' \in Results
       /\ m_Result'.exec = r.exec /\ m_Result'.current <= m_Result'.total
  <2>1. /\ r.exec \in 1..MaxExecutions
        /\ reading'[s] \in Readings
        /\ reading'[s].exec = r.exec /\ reading'[s].index = r.index
    BY <1>2, <1>4, <1>5, <1>6, SizesAssumption
  <2>2. ~exhausted'[s]
    BY <1>3, <1>4 DEF Inv, Good, Exhausted
  <2>3. ~reading'[s].garbled => r.offset = 0 /\ r.limit = 0
    BY <1>2, <1>5, <1>6
  <2> QED
    BY <1>1, <1>2, <1>3, <1>6, <1>9, <2>1, <2>2, <2>3, AnswerIsGood
<1>11. TypeOK'
  <2>1. resultSet' \in [Statements -> Sets \cup {None}]
    BY <1>1, <1>7, <1>10 DEF TypeOK
  <2>2. \A u \in Statements : resultSet'[u] # None =>
          /\ resultSet'[u].cursor <= m_CursorID'
          /\ resultSet'[u].currRow <= Len(resultSet'[u].rows)
    <3>1. \A u \in Statements \ {s} : resultSet'[u] # None => resultSet[u].cursor \in Nat
      BY <1>1, <1>7 DEF TypeOK, Sets
    <3> QED
      BY <1>1, <1>7, <1>10, <3>1 DEF TypeOK, Sets
  <2>3. m_Result'.exec \in 1..executions'
    BY <1>2, <1>3, <1>4, <1>10
  <2> QED
    BY <1>1, <1>2, <1>3, <1>6, <1>7, <1>10, <2>1, <2>2, <2>3 DEF TypeOK
<1>12. Cursors'
  BY <1>1, <1>7, <1>10 DEF Inv, Cursors, TypeOK, Sets
<1>13. ASSUME NEW u \in Statements \ {s} PROVE Good(u)'
  BY <1>3, <1>6, <1>7, OthersAtNextResult
<1> QED
  BY <1>10, <1>11, <1>12, <1>13 DEF Inv

LEMMA NoMoreResultKeeps ==
  ASSUME Inv, NEW s \in Statements, Valid(s),
         ~(OnMoreResult.result # None /\ OnMoreResult.result.open),
         m_Result' = OnMoreResult.result, wire' = OnMoreResult.wire, NoMore(s),
         UNCHANGED <<dbtype, m_CursorID, answer, reading, executions>>
  PROVE  Inv'
<1> DEFINE r == OnMoreResult.result
           w == OnMoreResult.wire
<1>1. TypeOK
  BY DEF Inv
<1>2. /\ w \in [results : Seq(Nat), status : BOOLEAN]
      /\ Rest = <<>>
      /\ r \in Results \cup {None}
      /\ r # None => r.exec = m_Result.exec /\ r.current <= r.total /\ ~r.open
  BY MoreResult
<1>3. m_Result' = r /\ wire' = w
  OBVIOUS
<1> HIDE DEF r, w
<1>4. /\ resultSet' = [resultSet EXCEPT ![s] = None]
      /\ exhausted' = [exhausted EXCEPT ![s] = TRUE]
  BY DEF NoMore
<1>5. m_Result # None /\ Remaining(reading[s], Rest)
  BY DEF Inv, Good, AtItsResult, Valid, CursorValid
<1>6. TypeOK'
  <2>1. m_Result' # None => m_Result'.exec \in 1..executions
    BY <1>1, <1>2, <1>3, <1>5 DEF TypeOK
  <2> QED
    BY <1>1, <1>2, <1>3, <1>4, <2>1 DEF TypeOK
<1>7. Cursors'
  BY <1>1, <1>4 DEF Inv, Cursors, TypeOK
<1>8. Good(s)'
  <2>1. reading[s].index = Len(reading[s].program)
    BY <1>1, <1>2, <1>5 DEF Remaining, TypeOK, Readings
  <2>2. resultSet'[s] = None
    BY <1>1, <1>4 DEF TypeOK
  <2> QED
    BY <2>1, <2>2 DEF Inv, Good, AtItsResult, Unspoilt, Exhausted, Follows, GoesOn, Ordered,
                      RowOf, Complete, Valid
<1>9. ASSUME NEW u \in Statements \ {s} PROVE Good(u)'
  <2>1. resultSet'[u] = resultSet[u] /\ exhausted'[u] = exhausted[u]
    BY <1>1, <1>4 DEF TypeOK
  <2> QED
    BY <1>1, <2>1, OthersAtNextResult
<1> QED
  BY <1>6, <1>7, <1>8, <1>9 DEF Inv

LEMMA MoreResultsKeeps ==
  ASSUME Inv, NEW s \in Statements, MoreResults(s) PROVE Inv'
<1>1. Valid(s)
  BY DEF MoreResults, Valid
<1>2. CASE OnMoreResult.result # None /\ OnMoreResult.result.open
  BY <1>1, <1>2, NextResultKeeps DEF MoreResults, NextResult
<1>3. CASE ~(OnMoreResult.result # None /\ OnMoreResult.result.open)
  BY <1>1, <1>3, NoMoreResultKeeps DEF MoreResults
<1> QED
  BY <1>2, <1>3

-----------------------------------------------------------------------------
(* next()                                                                  *)

(* The rows of a data set that was followed so far.                        *)
LEMMA FollowedRows ==
  ASSUME NEW S \in Sets, NEW r \in Readings, InStep(S, r), Ordered(r),
         S.currRow <= Len(S.rows)
  PROVE  /\ S.rows \in Seq(Rows) /\ Len(S.rows) \in Nat /\ S.currRow \in Nat
         /\ \A i \in 1..Len(S.rows) : S.rows[i] \in Rows /\ S.rows[i][3] \in Nat
         /\ r.rows \in Seq(Rows) /\ Len(r.rows) \in Nat
         /\ r.rows = <<>> <=> Len(r.rows) = 0
         /\ S.rows = <<>> <=> Len(S.rows) = 0
         /\ r.program[r.index] \in Nat
         /\ S.currRow > 0 /\ ~r.garbled => S.rows[S.currRow][3] = Len(r.rows)
<1>1. /\ S.rows \in Seq(Rows) /\ Len(S.rows) \in Nat /\ S.currRow \in Nat
      /\ r.rows \in Seq(Rows) /\ Len(r.rows) \in Nat /\ r.program \in Seq(Nat)
  BY DEF Sets, Readings
<1>2. \A x \in Rows : x[3] \in Nat
  BY DEF Rows
<1>3. \A i \in 1..Len(S.rows) : S.rows[i] \in Rows
  BY <1>1
<1>4. r.program[r.index] \in Nat
  <2>1. r.index \in 1..Len(r.program)
    BY DEF InStep
  <2> QED
    BY <1>1, <2>1
<1>5. S.currRow > 0 /\ ~r.garbled => S.rows[S.currRow][3] = Len(r.rows)
  <2> SUFFICES ASSUME S.currRow > 0, ~r.garbled PROVE S.rows[S.currRow][3] = Len(r.rows)
    OBVIOUS
  <2>1. r.rows # <<>> /\ r.rows[Len(r.rows)] = S.rows[S.currRow]
    BY DEF InStep
  <2>2. Len(r.rows) \in 1..Len(r.rows)
    BY <1>1, <2>1
  <2> QED
    BY <2>1, <2>2 DEF Ordered
<1>6. (r.rows = <<>> <=> Len(r.rows) = 0) /\ (S.rows = <<>> <=> Len(S.rows) = 0)
  BY <1>1
<1> QED
  BY <1>1, <1>2, <1>3, <1>4, <1>5, <1>6

(* The application hears of the end: nothing of the rest matters any more. *)
LEMMA EndIsGood ==
  ASSUME NEW r \in Readings, Ordered(r), ~r.ended,
         ~r.touched /\ ~r.garbled => Len(r.rows) = r.program[r.index],
         NEW q, q = [r EXCEPT !.ended = TRUE]
  PROVE  /\ q \in Readings /\ Ordered(q) /\ Complete(q) /\ q.ended
         /\ q.exec = r.exec /\ q.index = r.index /\ q.program = r.program
         /\ q.garbled = r.garbled /\ q.touched = r.touched
<1>1. /\ q \in Readings /\ q.ended
      /\ q.exec = r.exec /\ q.index = r.index /\ q.program = r.program
      /\ q.garbled = r.garbled /\ q.touched = r.touched /\ q.rows = r.rows
  BY DEF Readings
<1> QED
  BY <1>1 DEF Ordered, RowOf, Complete

(* next() changes the statement's own set and reading, and how far its     *)
(* result was read if that is the plugin's.                                *)
NextKeeps(s) ==
  /\ resultSet[s] # None
  /\ resultSet' = [resultSet EXCEPT ![s] = resultSet'[s]]
  /\ resultSet'[s] \in Sets
  /\ resultSet'[s].cursor = resultSet[s].cursor
  /\ resultSet'[s].currRow <= Len(resultSet'[s].rows)
  /\ reading' = [reading EXCEPT ![s] = reading'[s]]
  /\ reading'[s] \in Readings
  /\ reading'[s].exec = reading[s].exec /\ reading'[s].index = reading[s].index
  /\ reading'[s].program = reading[s].program
  /\ reading'[s].garbled = reading[s].garbled /\ reading'[s].touched = reading[s].touched
  /\ IF Valid(s) THEN \E c \in 0..m_Result.total : m_Result' = [m_Result EXCEPT !.current = c]
                 ELSE m_Result' = m_Result
  /\ UNCHANGED <<dbtype, m_CursorID, wire, answer, exhausted, executions>>

LEMMA NextInv ==
  ASSUME Inv, NEW s \in Statements, NextKeeps(s),
         Follows(s)', GoesOn(s)', Ordered(reading[s])', Complete(reading[s])'
  PROVE  Inv'
<1>1. TypeOK
  BY DEF Inv
<1>2. resultSet'[s] # None /\ (Valid(s)' <=> Valid(s))
  <2>1. resultSet'[s] # None
    BY NoneAssumption DEF NextKeeps
  <2>2. m_Result' = None <=> m_Result = None
    <3>1. ASSUME Valid(s), NEW c \in 0..m_Result.total, m_Result' = [m_Result EXCEPT !.current = c]
          PROVE  m_Result' # None /\ m_Result # None
      <4>1. m_Result \in Results /\ m_Result # None
        BY <1>1, <3>1 DEF TypeOK, Valid, CursorValid
      <4>2. m_Result' \in Results
        BY <3>1, <4>1 DEF Results
      <4> QED
        BY <4>1, <4>2, NoneAssumption
    <3> QED
      BY <3>1 DEF NextKeeps
  <2> QED
    BY <2>1, <2>2 DEF NextKeeps, Valid, CursorValid
<1>3. /\ m_Result' \in Results \cup {None}
      /\ m_Result' # None =>
           /\ m_Result # None
           /\ m_Result'.exec = m_Result.exec /\ m_Result'.index = m_Result.index
           /\ m_Result'.total = m_Result.total /\ m_Result'.open = m_Result.open
           /\ m_Result'.offset = m_Result.offset /\ m_Result'.limit = m_Result.limit
           /\ m_Result'.rest = m_Result.rest
           /\ m_Result'.current <= m_Result'.total
  <2>1. CASE Valid(s)
    <3>1. m_Result \in Results /\ m_Result # None
      BY <1>1, <2>1 DEF TypeOK, Valid, CursorValid
    <3>2. PICK c \in 0..m_Result.total : m_Result' = [m_Result EXCEPT !.current = c]
      BY <2>1 DEF NextKeeps
    <3> QED
      BY <3>1, <3>2 DEF Results
  <2>2. CASE ~Valid(s)
    <3>1. m_Result' = m_Result
      BY <2>2 DEF NextKeeps
    <3> QED
      BY <1>1, <3>1 DEF TypeOK
  <2> QED
    BY <2>1, <2>2
<1>4. /\ \A u \in Statements \ {s} : resultSet'[u] = resultSet[u] /\ reading'[u] = reading[u]
      /\ resultSet' \in [Statements -> Sets \cup {None}]
      /\ reading' \in [Statements -> Readings]
  BY <1>1 DEF NextKeeps, TypeOK
<1>5. UNCHANGED <<dbtype, m_CursorID, wire, answer, exhausted, executions>>
  BY DEF NextKeeps
<1>6. TypeOK'
  <2>1. \A u \in Statements : resultSet'[u] # None =>
          /\ resultSet'[u].cursor <= m_CursorID'
          /\ resultSet'[u].currRow <= Len(resultSet'[u].rows)
    BY <1>1, <1>4, <1>5 DEF TypeOK, NextKeeps
  <2> QED
    BY <1>1, <1>3, <1>4, <1>5, <2>1 DEF TypeOK
<1>7. Cursors'
  BY <1>4 DEF Inv, Cursors, NextKeeps
<1>8. Good(s)'
  <2>1. AtItsResult(s)'
    <3> SUFFICES ASSUME Valid(s)' PROVE AtItsResult(s)'
      BY DEF AtItsResult
    <3>1. Valid(s) /\ m_Result' # None
      BY <1>2 DEF Valid, CursorValid
    <3>2. Rest' = Rest
      BY <1>3, <1>5, <3>1 DEF Rest
    <3>3. AtItsResult(s)
      BY DEF Inv, Good
    <3> QED
      BY <1>3, <3>1, <3>2, <3>3 DEF AtItsResult, Remaining, NextKeeps
  <2>2. Unspoilt(s)' /\ Exhausted(s)'
    BY <1>2, <1>5 DEF Inv, Good, Unspoilt, Exhausted, NextKeeps
  <2> QED
    BY <2>1, <2>2 DEF Good
<1>9. ASSUME NEW u \in Statements \ {s} PROVE Good(u)'
  <2>1. CASE Valid(s)
    <3>1. ~Valid(u)
      BY <1>9, <2>1 DEF Inv, Cursors, Valid, CursorValid
    <3>2. ~Valid(u)'
      BY <1>2, <1>4, <1>5, <2>1, <3>1 DEF Valid, CursorValid
    <3> QED
      BY <1>1, <1>4, <1>5, <3>1, <3>2, OthersKeep DEF Inv, Good, Unspoilt
  <2>2. CASE ~Valid(s)
    <3>1. m_Result' = m_Result /\ (Valid(u)' <=> Valid(u))
      BY <1>4, <1>5, <2>2 DEF NextKeeps, Valid, CursorValid
    <3> QED
      BY <1>1, <1>4, <1>5, <3>1, OthersKeep DEF Inv, Good, Unspoilt
  <2> QED
    BY <2>1, <2>2
<1> QED
  BY <1>6, <1>7, <1>8, <1>9 DEF Inv

(* What is known of the reading r once it was told row of rows.            *)
Told(r, rows, row) ==
  IF r.ended THEN r
  ELSE IF row = 0 THEN [r EXCEPT !.ended = TRUE]
  ELSE [r EXCEPT !.rows = Append(@, rows[row])]

LEMMA TellOne ==
  ASSUME TypeOK, NEW s \in Statements, NEW rows, NEW row, Tell(s, rows, row)
  PROVE  /\ reading' = [reading EXCEPT ![s] = reading'[s]]
         /\ reading'[s] = Told(reading[s], rows, row)
<1> DEFINE R == Told(reading[s], rows, row)
<1>1. reading' = [reading EXCEPT ![s] = R]
  BY DEF Tell, TypeOK, Told
<1> HIDE DEF R
<1>2. reading'[s] = R
  BY <1>1 DEF TypeOK
<1> QED
  BY <1>1, <1>2 DEF R

LEMMA NextRowKeeps ==
  ASSUME Inv, NEW s \in Statements, NextRow(s) PROVE Inv'
<1> DEFINE S == resultSet[s]
           T == resultSet'[s]
           r == reading[s]
           q == reading'[s]
           row == RowAfter(S)
<1>1. TypeOK
  BY DEF Inv
<1>2. /\ S # None /\ S \in Sets /\ r \in Readings
      /\ S.currRow <= Len(S.rows) /\ S.currRow \in Nat /\ Len(S.rows) \in Nat
  BY <1>1 DEF NextRow, TypeOK, Sets
<1>3. /\ row \in Nat /\ row <= Len(S.rows)
      /\ row > 0 => row = S.currRow + 1
      /\ row = 0 => S.currRow = Len(S.rows) /\ S.eof
  BY <1>2 DEF RowAfter, NextRow, NeedsFetch
<1>4. resultSet' = [resultSet EXCEPT ![s] = [S EXCEPT !.currRow = row]]
  BY DEF NextRow
<1>5. /\ reading' = [reading EXCEPT ![s] = q]
      /\ q = IF r.ended THEN r
             ELSE IF row = 0 THEN [r EXCEPT !.ended = TRUE]
             ELSE [r EXCEPT !.rows = Append(@, S.rows[row])]
  <2> DEFINE rows == S.rows
  <2>1. Tell(s, rows, row)
    BY DEF NextRow
  <2> HIDE DEF row, rows
  <2>2. /\ reading' = [reading EXCEPT ![s] = reading'[s]]
        /\ reading'[s] = Told(reading[s], rows, row)
    BY <1>1, <2>1, TellOne
  <2> QED
    BY <2>2, Zenon DEF rows, Told
<1>6. UNCHANGED <<dbtype, m_Result, m_CursorID, wire, answer, exhausted, executions>>
  BY DEF NextRow, plugin
<1> HIDE DEF row
<1>7. /\ T = [S EXCEPT !.currRow = row]
      /\ T \in Sets /\ T.cursor = S.cursor /\ T.rows = S.rows /\ T.eof = S.eof
      /\ T.currRow = row
  BY <1>1, <1>2, <1>3, <1>4 DEF TypeOK, Sets
<1>8. /\ resultSet' = [resultSet EXCEPT ![s] = T]
      /\ T # None
  BY <1>4, <1>7, NoneAssumption
<1>9. Valid(s)' <=> Valid(s)
  BY <1>2, <1>6, <1>7, <1>8 DEF Valid, CursorValid
<1>10. /\ Ordered(r) /\ Complete(r) /\ GoesOn(s)
       /\ ~r.ended => InStep(S, r)
  BY <1>2 DEF Inv, Good, Follows
<1> HIDE DEF S, T, r, q
<1>11. ASSUME q \in Readings, q.exec = r.exec, q.index = r.index, q.program = r.program,
              q.garbled = r.garbled, q.touched = r.touched
       PROVE  NextKeeps(s)
  <2>1. Valid(s) => \E c \in 0..m_Result.total : m_Result' = [m_Result EXCEPT !.current = c]
    <3> SUFFICES ASSUME Valid(s)
                 PROVE  \E c \in 0..m_Result.total : m_Result' = [m_Result EXCEPT !.current = c]
      OBVIOUS
    <3>1. m_Result \in Results /\ m_Result.current <= m_Result.total
      BY <1>1 DEF Valid, CursorValid, TypeOK
    <3>2. m_Result.current \in 0..m_Result.total
      BY <3>1 DEF Results
    <3>3. m_Result' = [m_Result EXCEPT !.current = m_Result.current]
      BY <1>6, <3>1 DEF Results
    <3> QED
      BY <3>2, <3>3
  <2> QED
    BY <1>2, <1>3, <1>5, <1>6, <1>7, <1>8, <1>11, <2>1 DEF NextKeeps, S, T, r, q
<1>12. CASE r.ended
  <2>1. q = r
    BY <1>5, <1>12
  <2>2. Follows(s)' /\ GoesOn(s)'
    BY <1>12, <2>1 DEF Follows, GoesOn, q
  <2> QED
    BY <1>2, <1>10, <1>11, <2>1, <2>2, NextInv DEF q
<1>13. CASE ~r.ended /\ row = 0
  <2>1. q = [r EXCEPT !.ended = TRUE]
    BY <1>5, <1>13
  <2>2. ~r.touched /\ ~r.garbled => Len(r.rows) = r.program[r.index]
    <3> SUFFICES ASSUME ~r.garbled PROVE Len(r.rows) = r.program[r.index]
      OBVIOUS
    <3>1. InStep(S, r) /\ S.currRow = Len(S.rows) /\ S.eof
      BY <1>3, <1>10, <1>13
    <3>2. CASE S.rows = <<>>
      BY <1>2, <3>1, <3>2 DEF InStep
    <3>3. CASE S.rows # <<>>
      <4>1. S.currRow > 0 /\ S.rows[S.currRow][3] = Len(r.rows)
        BY <1>2, <1>10, <3>1, <3>3, FollowedRows
      <4> QED
        BY <3>1, <3>3, <4>1 DEF InStep
    <3> QED
      BY <3>2, <3>3
  <2>3. /\ q \in Readings /\ Ordered(q) /\ Complete(q) /\ q.ended
        /\ q.exec = r.exec /\ q.index = r.index /\ q.program = r.program
        /\ q.garbled = r.garbled /\ q.touched = r.touched
    BY <1>2, <1>10, <1>13, <2>1, <2>2, EndIsGood
  <2>4. Follows(s)' /\ GoesOn(s)'
    BY <2>3 DEF Follows, GoesOn, q
  <2> QED
    BY <1>11, <2>3, <2>4, NextInv DEF q
<1>14. CASE ~r.ended /\ row > 0
  <2>1. q = [r EXCEPT !.rows = Append(@, S.rows[row])]
    BY <1>5, <1>14
  <2>2. /\ InStep(S, r) /\ row = S.currRow + 1 /\ row \in 1..Len(S.rows)
    BY <1>2, <1>3, <1>10, <1>14
  <2>3. /\ S.rows[row] \in Rows /\ RowOf(r, S.rows[row])
        /\ S.rows[row][3] = S.rows[1][3] + row - 1
        /\ S.rows # <<>> /\ S.rows[1][3] \in Nat /\ 1 \in 1..Len(S.rows)
        /\ S.currRow > 0 => S.rows[S.currRow][3] = S.rows[1][3] + S.currRow - 1
    <3>1. /\ \A i \in 1..Len(S.rows) : S.rows[i] \in Rows /\ S.rows[i][3] \in Nat
          /\ S.rows = <<>> <=> Len(S.rows) = 0
      BY <1>2, <1>10, <2>2, FollowedRows
    <3>2. \A i \in 1..Len(S.rows) : RowOf(r, S.rows[i]) /\ S.rows[i][3] = S.rows[1][3] + i - 1
      BY <2>2 DEF InStep
    <3>3. 1 \in 1..Len(S.rows) /\ (S.currRow > 0 => S.currRow \in 1..Len(S.rows))
      BY <1>2, <2>2
    <3>4. S.currRow > 0 => S.rows[S.currRow][3] = S.rows[1][3] + S.currRow - 1
      BY <3>2, <3>3
    <3>5. S.rows # <<>>
      BY <1>2, <2>2, <3>1
    <3>6. S.rows[row] \in Rows /\ RowOf(r, S.rows[row]) /\ S.rows[1][3] \in Nat
      BY <2>2, <3>1, <3>2, <3>3
    <3>7. S.rows[row][3] = S.rows[1][3] + row - 1
      BY <2>2, <3>2
    <3> QED
      BY <3>3, <3>4, <3>5, <3>6, <3>7
  <2>4. /\ r.rows = <<>> => S.rows[row][3] >= 1 /\ (~r.garbled => S.rows[row][3] = 1)
        /\ r.rows # <<>> =>
             /\ S.rows[row][3] > r.rows[Len(r.rows)][3]
             /\ ~r.garbled => S.rows[row][3] = r.rows[Len(r.rows)][3] + 1
    <3>1. CASE S.currRow = 0
      <4>1. r.rows = <<>> /\ S.rows[1][3] = 1
        BY <2>2, <2>3, <3>1 DEF InStep
      <4> QED
        BY <2>2, <2>3, <3>1, <4>1
    <3>2. CASE S.currRow > 0
      <4>1. r.rows # <<>> /\ r.rows[Len(r.rows)] = S.rows[S.currRow]
        BY <2>2, <3>2 DEF InStep
      <4> DEFINE base == S.rows[1][3]
                 here == S.currRow
      <4>2. /\ base \in Nat /\ here \in Nat /\ row = here + 1
            /\ S.rows[row][3] = base + row - 1
            /\ S.rows[here][3] = base + here - 1
        BY <1>2, <2>2, <2>3, <3>2
      <4> HIDE DEF base, here
      <4>3. /\ S.rows[here][3] \in Int
            /\ S.rows[row][3] = S.rows[here][3] + 1
        BY <4>2
      <4>4. S.rows[row][3] > S.rows[here][3]
        BY <4>3
      <4> USE DEF here
      <4>5. /\ S.rows[row][3] > r.rows[Len(r.rows)][3]
            /\ S.rows[row][3] = r.rows[Len(r.rows)][3] + 1
        BY <4>1, <4>3, <4>4, Zenon
      <4> QED
        BY <4>1, <4>5
    <3> QED
      BY <1>2, <3>1, <3>2
  <2>5. Ordered(q)
    BY <1>2, <1>10, <2>1, <2>3, <2>4, OneRowMore
  <2>6. /\ q \in Readings /\ q.exec = r.exec /\ q.index = r.index /\ q.program = r.program
        /\ q.garbled = r.garbled /\ q.touched = r.touched /\ q.ended = r.ended
        /\ q.rows = Append(r.rows, S.rows[row])
    <3>1. Append(r.rows, S.rows[row]) \in Seq(Rows)
      BY <1>2, <2>3 DEF Readings
    <3> QED
      BY <1>2, <2>1, <3>1 DEF Readings
  <2>7. InStep(T, q)
    <3>1. q.rows # <<>> /\ q.rows[Len(q.rows)] = T.rows[T.currRow]
      BY <1>2, <1>7, <2>6, SMTT(30) DEF Readings
    <3> QED
      BY <1>7, <2>2, <2>6, <3>1 DEF InStep, RowOf
  <2>8. Follows(s)'
    BY <2>7 DEF Follows, T, q
  <2>9. GoesOn(s)'
    BY <1>6, <1>7, <1>9, <1>10, <1>14, <2>6 DEF GoesOn, S, T, r, q
  <2>10. Complete(q)
    BY <1>14, <2>6 DEF Complete
  <2> QED
    BY <1>11, <2>5, <2>6, <2>8, <2>9, <2>10, NextInv DEF q
<1> QED
  BY <1>3, <1>12, <1>13, <1>14

(* A fetch from the plugin's result, which is the statement's.             *)
LEMMA FetchKeeps ==
  ASSUME Inv, NEW s \in Statements, NextFetch(s), Valid(s) PROVE Inv'
<1> DEFINE S == resultSet[s]
           T == resultSet'[s]
           r == reading[s]
           q == reading'[s]
           d == CreateDataset(m_Result, m_Result.offset, m_Result.limit)
           row == IF d.rows = <<>> THEN 0 ELSE 1
<1>1. TypeOK
  BY DEF Inv
<1>2. /\ S # None /\ S \in Sets /\ r \in Readings
      /\ S.currRow <= Len(S.rows) /\ S.currRow \in Nat /\ Len(S.rows) \in Nat
      /\ S.currRow = Len(S.rows) /\ ~S.eof
  BY <1>1 DEF NextFetch, NeedsFetch, RowAfter, TypeOK, Sets
<1>3. /\ m_Result \in Results /\ m_Result # None
      /\ m_Result.exec \in 1..MaxExecutions /\ m_Result.current <= m_Result.total
      /\ m_Result.current \in Nat /\ m_Result.total \in Nat /\ m_Result.index \in Nat
      /\ m_Result.offset \in Nat /\ m_Result.limit \in Nat
  <2>1. /\ m_Result \in Results /\ m_Result # None
        /\ m_Result.exec \in 1..executions /\ m_Result.current <= m_Result.total
        /\ executions \in 0..MaxExecutions
    BY <1>1 DEF Valid, CursorValid, TypeOK
  <2> QED
    BY <2>1, SizesAssumption DEF Results
<1>4. PICK first \in Nat, n \in Nat :
        IsDataset(d, m_Result, m_Result.offset, m_Result.limit, first, n)
  BY <1>3, Datasets
<1>5. /\ resultSet' = [resultSet EXCEPT ![s].rows = d.rows, ![s].eof = d.eof,
                                       ![s].currRow = row]
      /\ m_Result' = [m_Result EXCEPT !.current = d.current]
      /\ Tell(s, d.rows, row)
      /\ UNCHANGED <<dbtype, m_CursorID, wire, answer, exhausted, executions>>
  BY DEF NextFetch, Fetched, Valid
<1> HIDE DEF d
<1>6. /\ d.rows \in Seq(Rows) /\ Len(d.rows) = n
      /\ \A i \in 1..n : d.rows[i] = <<m_Result.exec, m_Result.index, first + i - 1>>
  <2>1. /\ Block(m_Result, first, n) \in Seq(Rows) /\ Len(Block(m_Result, first, n)) = n
        /\ \A i \in 1..n :
             Block(m_Result, first, n)[i] = <<m_Result.exec, m_Result.index, first + i - 1>>
    BY <1>3, Blocks
  <2>2. d.rows = Block(m_Result, first, n)
    BY <1>4 DEF IsDataset
  <2> QED
    BY <2>1, <2>2
<1>7. /\ d.eof \in BOOLEAN /\ d.current \in 0..m_Result.total
      /\ first > m_Result.current
      /\ m_Result.offset = 0 => first = m_Result.current + 1
      /\ n > 0 => first + n - 1 <= m_Result.total
      /\ ~d.eof => n > 0 /\ d.current = first + n - 1
      /\ d.eof /\ m_Result.offset = 0 /\ m_Result.limit = 0 => first + n - 1 = m_Result.total
  BY <1>4 DEF IsDataset
<1>8. /\ row \in {0, 1} /\ row <= n
      /\ row = 0 <=> n = 0
      /\ row = 1 <=> n > 0
  BY <1>6
<1> HIDE DEF row
<1>9. /\ resultSet' = [resultSet EXCEPT ![s] = T]
      /\ T \in Sets /\ T.cursor = S.cursor /\ T.rows = d.rows /\ T.eof = d.eof
      /\ T.currRow = row
  <2>1. resultSet' = [resultSet EXCEPT ![s] = [S EXCEPT !.rows = d.rows, !.eof = d.eof,
                                                       !.currRow = row]]
    BY <1>1, <1>5 DEF TypeOK
  <2>2. T = [S EXCEPT !.rows = d.rows, !.eof = d.eof, !.currRow = row]
    BY <1>1, <2>1 DEF TypeOK
  <2>3. row \in Nat
    BY <1>8
  <2>4. S \in Sets /\ d.rows \in Seq(Rows) /\ d.eof \in BOOLEAN
    BY <1>2, <1>6, <1>7
  <2> HIDE DEF S, T
  <2>5. /\ T \in Sets /\ T.cursor = S.cursor /\ T.rows = d.rows /\ T.eof = d.eof
        /\ T.currRow = row
    BY <2>2, <2>3, <2>4 DEF Sets
  <2>6. resultSet' = [resultSet EXCEPT ![s] = T]
    BY <2>1, <2>2, Zenon
  <2> QED
    BY <2>5, <2>6
<1>10. /\ reading' = [reading EXCEPT ![s] = q]
       /\ q = IF r.ended THEN r
              ELSE IF row = 0 THEN [r EXCEPT !.ended = TRUE]
              ELSE [r EXCEPT !.rows = Append(@, d.rows[row])]
  <2> DEFINE rows == d.rows
  <2>1. Tell(s, rows, row)
    BY <1>5
  <2> HIDE DEF rows
  <2>2. /\ reading' = [reading EXCEPT ![s] = reading'[s]]
        /\ reading'[s] = Told(reading[s], rows, row)
    BY <1>1, <2>1, TellOne
  <2> QED
    BY <2>2, Zenon DEF rows, Told
<1>11. /\ Ordered(r) /\ Complete(r)
       /\ m_Result.exec = r.exec /\ m_Result.index = r.index
       /\ m_Result.total = r.program[r.index]
       /\ ~r.garbled => m_Result.offset = 0 /\ m_Result.limit = 0
       /\ r.index \in 1..Len(r.program)
       /\ ~r.ended => InStep(S, r) /\ m_Result.current = S.rows[Len(S.rows)][3]
  BY <1>2 DEF Inv, Good, Follows, AtItsResult, Remaining, GoesOn
<1> HIDE DEF S, T, r, q
<1>12. ASSUME ~r.ended
       PROVE  /\ S.currRow > 0 /\ r.rows # <<>>
              /\ m_Result.current = r.rows[Len(r.rows)][3]
              /\ ~r.garbled => m_Result.current = Len(r.rows)
  <2>1. InStep(S, r) /\ m_Result.current = S.rows[Len(S.rows)][3]
    BY <1>11, <1>12
  <2>2. S.rows # <<>> /\ S.currRow > 0
    <3>1. S.rows # <<>>
      BY <1>2, <2>1 DEF InStep
    <3> QED
      BY <1>2, <1>11, <2>1, <3>1, FollowedRows
  <2>3. r.rows # <<>> /\ r.rows[Len(r.rows)] = S.rows[S.currRow]
    BY <2>1, <2>2 DEF InStep
  <2>4. ~r.garbled => S.rows[S.currRow][3] = Len(r.rows)
    BY <1>2, <1>11, <2>1, <2>2, FollowedRows
  <2> QED
    BY <1>2, <2>1, <2>2, <2>3, <2>4
<1>13. ASSUME q \in Readings, q.exec = r.exec, q.index = r.index, q.program = r.program,
              q.garbled = r.garbled, q.touched = r.touched
       PROVE  NextKeeps(s)
  BY <1>2, <1>5, <1>6, <1>7, <1>8, <1>9, <1>10, <1>13 DEF NextKeeps, S, T, r, q
<1>14. CASE r.ended
  <2>1. q = r
    BY <1>10, <1>14
  <2>2. Follows(s)' /\ GoesOn(s)'
    BY <1>14, <2>1 DEF Follows, GoesOn, q
  <2> QED
    BY <1>2, <1>11, <1>13, <2>1, <2>2, NextInv DEF q
<1>15. CASE ~r.ended /\ row = 0
  <2>1. q = [r EXCEPT !.ended = TRUE]
    BY <1>10, <1>15
  <2>2. ~r.touched /\ ~r.garbled => Len(r.rows) = r.program[r.index]
    <3> SUFFICES ASSUME ~r.garbled PROVE Len(r.rows) = r.program[r.index]
      OBVIOUS
    <3>1. n = 0 /\ d.eof /\ m_Result.offset = 0 /\ m_Result.limit = 0
      BY <1>7, <1>8, <1>11, <1>15
    <3>2. first = m_Result.current + 1 /\ first + n - 1 = m_Result.total
      BY <1>7, <3>1
    <3>3. m_Result.current = m_Result.total
      BY <1>3, <3>1, <3>2
    <3> QED
      BY <1>11, <1>12, <1>15, <3>3
  <2>3. /\ q \in Readings /\ Ordered(q) /\ Complete(q) /\ q.ended
        /\ q.exec = r.exec /\ q.index = r.index /\ q.program = r.program
        /\ q.garbled = r.garbled /\ q.touched = r.touched
    BY <1>2, <1>11, <1>15, <2>1, <2>2, EndIsGood
  <2>4. Follows(s)' /\ GoesOn(s)'
    BY <2>3 DEF Follows, GoesOn, q
  <2> QED
    BY <1>13, <2>3, <2>4, NextInv DEF q
<1>16. CASE ~r.ended /\ row = 1
  <2>1. q = [r EXCEPT !.rows = Append(@, d.rows[1])]
    BY <1>10, <1>16
  <2>2. n > 0 /\ 1 \in 1..n /\ n \in 1..n
    BY <1>8, <1>16
  <2>3. /\ d.rows[1] \in Rows /\ d.rows[1][1] = r.exec /\ d.rows[1][2] = r.index
        /\ d.rows[1][3] = first /\ d.rows[n][3] = first + n - 1
    BY <1>6, <1>11, <2>2
  <2>4. /\ d.rows[1][3] > r.rows[Len(r.rows)][3]
        /\ ~r.garbled => d.rows[1][3] = r.rows[Len(r.rows)][3] + 1
    BY <1>7, <1>11, <1>12, <1>16, <2>3
  <2>5. RowOf(r, d.rows[1])
    <3>1. first <= m_Result.total
      BY <1>3, <1>7, <2>2
    <3> QED
      BY <1>11, <2>3, <3>1 DEF RowOf
  <2>6. Ordered(q)
    BY <1>2, <1>11, <1>12, <1>16, <2>1, <2>3, <2>4, <2>5, OneRowMore
  <2>7. /\ q \in Readings /\ q.exec = r.exec /\ q.index = r.index /\ q.program = r.program
        /\ q.garbled = r.garbled /\ q.touched = r.touched /\ q.ended = r.ended
        /\ q.rows = Append(r.rows, d.rows[1])
    <3>1. Append(r.rows, d.rows[1]) \in Seq(Rows)
      BY <1>2, <2>3 DEF Readings
    <3> QED
      BY <1>2, <2>1, <3>1 DEF Readings
  <2>8. InStep(T, q)
    <3>1. q.rows # <<>> /\ q.rows[Len(q.rows)] = T.rows[T.currRow]
      BY <1>2, <1>9, <1>16, <2>7 DEF Readings
    <3>2. \A i \in 1..n : RowOf(q, T.rows[i]) /\ T.rows[i][3] = T.rows[1][3] + i - 1
      <4> SUFFICES ASSUME NEW i \in 1..n
                   PROVE  RowOf(q, T.rows[i]) /\ T.rows[i][3] = T.rows[1][3] + i - 1
        OBVIOUS
      <4>1. T.rows[i] = <<m_Result.exec, m_Result.index, first + i - 1>>
        BY <1>6, <1>9
      <4>2. first + i - 1 <= m_Result.total
        BY <1>3, <1>7, <2>2
      <4> QED
        BY <1>9, <1>11, <2>3, <2>7, <4>1, <4>2 DEF RowOf
    <3>3. T.rows # <<>> /\ Len(T.rows) = n /\ T.currRow = 1
      BY <1>6, <1>9, <1>16, <2>2
    <3>4. T.eof /\ ~q.garbled => T.rows[Len(T.rows)][3] = q.program[q.index]
      BY <1>7, <1>9, <1>11, <2>3, <2>7, <3>3
    <3> QED
      BY <1>11, <2>7, <3>1, <3>2, <3>3, <3>4 DEF InStep
  <2>9. Follows(s)'
    BY <2>8 DEF Follows, T, q
  <2>10. GoesOn(s)'
    <3>1. m_Result'.current = d.current
      BY <1>3, <1>5 DEF Results
    <3>2. ~T.eof => m_Result'.current = T.rows[Len(T.rows)][3]
      BY <1>6, <1>7, <1>9, <2>3, <3>1
    <3> QED
      BY <3>2 DEF GoesOn, T
  <2>11. Complete(q)
    BY <1>16, <2>7 DEF Complete
  <2> QED
    BY <1>13, <2>6, <2>7, <2>9, <2>10, <2>11, NextInv DEF q
<1> QED
  BY <1>8, <1>14, <1>15, <1>16

(* A fetch the plugin answers with "cursor error.": no rows, and the end.  *)
LEMMA StaleFetchKeeps ==
  ASSUME Inv, NEW s \in Statements, NextFetch(s), ~Valid(s) PROVE Inv'
<1> DEFINE S == resultSet[s]
           T == resultSet'[s]
           r == reading[s]
           q == reading'[s]
<1>1. TypeOK
  BY DEF Inv
<1>2. S # None /\ S \in Sets /\ r \in Readings
  BY <1>1 DEF NextFetch, TypeOK
<1>3. ~CursorValid(S.cursor)
  BY <1>2 DEF Valid
<1>4. Fetched(S.cursor) = [rows |-> <<>>, eof |-> FALSE]
  BY <1>3 DEF Fetched
<1> DEFINE d == Fetched(S.cursor)
<1>5. d.rows = <<>> /\ d.eof = FALSE
  BY <1>4
<1>6. /\ resultSet' = [resultSet EXCEPT ![s].rows = d.rows, ![s].eof = d.eof, ![s].currRow = 0]
      /\ m_Result' = m_Result
      /\ Tell(s, d.rows, 0)
      /\ UNCHANGED <<dbtype, m_CursorID, wire, answer, exhausted, executions>>
  BY <1>3, <1>5 DEF NextFetch
<1> HIDE DEF d
<1>7. /\ resultSet' = [resultSet EXCEPT ![s] = T]
      /\ T \in Sets /\ T.cursor = S.cursor /\ T.rows = <<>> /\ T.currRow = 0
  <2>1. resultSet' = [resultSet EXCEPT ![s] = [S EXCEPT !.rows = d.rows, !.eof = d.eof,
                                                       !.currRow = 0]]
    BY <1>1, <1>6 DEF TypeOK
  <2>2. T = [S EXCEPT !.rows = d.rows, !.eof = d.eof, !.currRow = 0]
    BY <1>1, <2>1 DEF TypeOK
  <2>3. d.rows \in Seq(Rows) /\ d.eof \in BOOLEAN
    <3>1. d.rows \in Seq(Rows)
      <4>1. <<>> \in Seq(Rows)
        OBVIOUS
      <4> QED
        BY <1>5, <4>1, Zenon
    <3>2. d.eof \in BOOLEAN
      <4>1. FALSE \in BOOLEAN
        OBVIOUS
      <4> QED
        BY <1>5, <4>1, Zenon
    <3> QED
      BY <3>1, <3>2
  <2> HIDE DEF T
  <2>4. T \in Sets /\ T.cursor = S.cursor /\ T.rows = d.rows /\ T.currRow = 0
    BY <1>2, <2>2, <2>3 DEF Sets
  <2> QED
    BY <1>5, <2>1, <2>2, <2>4 DEF T
<1>8. /\ reading' = [reading EXCEPT ![s] = q]
      /\ q = IF r.ended THEN r ELSE [r EXCEPT !.ended = TRUE]
  BY <1>1, <1>6, TellOne DEF Told
<1>9. Ordered(r) /\ Complete(r) /\ r.touched
  BY <1>2 DEF Inv, Good, Unspoilt
<1> HIDE DEF S, T, r, q
<1>10. /\ q \in Readings /\ Ordered(q) /\ Complete(q) /\ q.ended
       /\ q.exec = r.exec /\ q.index = r.index /\ q.program = r.program
       /\ q.garbled = r.garbled /\ q.touched = r.touched
  <2>1. CASE r.ended
    BY <1>2, <1>8, <1>9, <2>1
  <2>2. CASE ~r.ended
    BY <1>2, <1>8, <1>9, <2>2, EndIsGood
  <2> QED
    BY <2>1, <2>2
<1>11. Follows(s)' /\ GoesOn(s)'
  BY <1>10 DEF Follows, GoesOn, q
<1>12. NextKeeps(s)
  BY <1>2, <1>6, <1>7, <1>8, <1>10 DEF NextKeeps, S, T, r, q
<1> QED
  BY <1>10, <1>11, <1>12, NextInv DEF q

-----------------------------------------------------------------------------
(* Theorems                                                                *)

LEMMA InvStep == Inv /\ [Next]_vars => Inv'
<1> SUFFICES ASSUME Inv, [Next]_vars PROVE Inv'
  OBVIOUS
<1>1. CASE UNCHANGED vars
  <2>1. /\ TypeOK' = TypeOK /\ Cursors' = Cursors
    BY <1>1 DEF vars, plugin, app, TypeOK, Cursors
  <2>2. \A u \in Statements : Good(u)' <=> Good(u)
    BY <1>1 DEF vars, plugin, app, Good, AtItsResult, Unspoilt, Exhausted, Follows, GoesOn,
               Valid, CursorValid, Rest
  <2> QED
    BY <2>1, <2>2 DEF Inv
<1>2. ASSUME NEW s \in Statements,
             \/ ExecuteQuery(s) \/ ExecuteUpdate(s) \/ ExecuteFails(s)
             \/ MoreResults(s) \/ Clear(s)
             \/ NextRow(s) \/ NextFetch(s) \/ CloseSet(s)
      PROVE  Inv'
  BY <1>2, ExecuteQueryKeeps, ExecuteUpdateKeeps, ExecuteFailsKeeps, MoreResultsKeeps,
     ClearKeeps, NextRowKeeps, FetchKeeps, StaleFetchKeeps, CloseSetKeeps
<1> QED
  BY <1>1, <1>2, UpdateKeeps DEF Next

LEMMA SpecInv == Spec => []Inv
BY InitInv, InvStep, PTL DEF Spec

(* The parts of the state are those of the program.                        *)
THEOREM TypeCorrect == Spec => []TypeOK
<1>1. Inv => TypeOK
  BY DEF Inv
<1> QED
  BY <1>1, SpecInv, PTL

(* Whatever other statements of the connection do, next() gives the rows   *)
(* of the statement's own result, in order and once each.                  *)
THEOREM RowsAreItsOwn == Spec => []RowsInOrder
<1>1. Inv => RowsInOrder
  BY DEF Inv, Good, Ordered, RowOf, RowsInOrder
<1> QED
  BY <1>1, SpecInv, PTL

(* An undisturbed result set ends only after its last row, whatever the    *)
(* fetch size and wherever the data sets end.                              *)
THEOREM EndIsTheEnd == Spec => []EndMeansAll
<1>1. Inv => EndMeansAll
  BY DEF Inv, Good, Complete, EndMeansAll
<1> QED
  BY <1>1, SpecInv, PTL

(* getMoreResults() returns false only after the last result, with every   *)
(* plugin.                                                                 *)
THEOREM NoResultIsSkipped == Spec => []AllResultsSeen
<1>1. Inv => AllResultsSeen
  BY DEF Inv, Good, Exhausted, AllResultsSeen
<1> QED
  BY <1>1, SpecInv, PTL

(* onResultFetch of the Oracle plugin never meets a Result without a       *)
(* ResultSet.                                                              *)
THEOREM FetchHasAResult == Spec => []NoFetchFromNull
<1>1. Inv => NoFetchFromNull
  BY DEF Inv, Good, AtItsResult, Valid, CursorValid, NoFetchFromNull
<1> QED
  BY <1>1, SpecInv, PTL
(* Only MySQL leaves results on the connection.                            *)
AlwaysInSync == dbtype # "mysql" => InSync /\ ReexecutionWorks

LEMMA AlwaysInSyncStep == Inv /\ AlwaysInSync /\ [Next]_vars => AlwaysInSync'
<1> DEFINE Served(answers) == \A s \in Statements : answers[s] # "outOfSync"
<1> SUFFICES ASSUME Inv, AlwaysInSync, [Next]_vars, dbtype' # "mysql"
             PROVE  wire' = Idle /\ Served(answer')
  BY DEF AlwaysInSync, InSync, Idle, ReexecutionWorks
<1>0. /\ dbtype \in {"pgsql", "mysql", "oracle"}
      /\ dbtype # "mysql" => wire = Idle /\ Served(answer)
      /\ answer \in [Statements -> {"none", "rows", "update", "error", "outOfSync"}]
  BY PluginsAssumption DEF AlwaysInSync, InSync, ReexecutionWorks, Inv, TypeOK
<1>1. ASSUME NEW s \in Statements, NEW a \in {"rows", "update", "error"}, Served(answer),
             answer' = [answer EXCEPT ![s] = a]
      PROVE  Served(answer')
  BY <1>0, <1>1
<1> HIDE DEF Told
<1>2. CASE UNCHANGED vars \/ Update
  BY <1>0, <1>2 DEF vars, plugin, app, Update
<1>3. ASSUME NEW s \in Statements, ExecuteQuery(s)
      PROVE  wire' = Idle /\ Served(answer')
  <2>1. dbtype # "mysql" /\ answer' = [answer EXCEPT ![s] = "rows"]
    BY <1>3 DEF ExecuteQuery, Execute
  <2>2. PICK program, r, outcome : outcome \in OnExecute(r, program) /\ wire' = outcome.wire
    BY <1>3 DEF ExecuteQuery
  <2>3. outcome \in PgsqlExecute(r, program) \cup OracleExecute(r, program)
    <3>1. CASE dbtype = "pgsql"
      BY <2>2, <3>1 DEF OnExecute
    <3>2. CASE dbtype = "oracle"
      BY <2>2, <3>2 DEF OnExecute
    <3> QED
      BY <1>0, <2>1, <3>1, <3>2
  <2>4. outcome.wire = Idle
    <3>1. CASE outcome \in PgsqlExecute(r, program)
      BY <3>1 DEF PgsqlExecute
    <3>2. CASE outcome \in OracleExecute(r, program)
      <4> DEFINE out(g) ==
                   [result |-> [r EXCEPT !.rest = Tail(program), !.offset = g[1], !.limit = g[2]],
                    wire |-> Idle]
                 many == {out(g) : g \in Garbage \X Garbage}
                 one  == IF Len(program) = 1 THEN {[result |-> r, wire |-> Idle]} ELSE {}
      <4>1. OracleExecute(r, program) = many \cup one
        BY DEF OracleExecute
      <4>2. \A g : out(g).wire = Idle
        OBVIOUS
      <4>3. outcome \in one => outcome.wire = Idle
        OBVIOUS
      <4> HIDE DEF one, out
      <4>4. outcome \in many => \E g \in Garbage \X Garbage : outcome = out(g)
        OBVIOUS
      <4> HIDE DEF many
      <4> QED
        BY <3>2, <4>1, <4>2, <4>3, <4>4
    <3> QED
      BY <2>3, <3>1, <3>2
  <2> QED
    BY <1>0, <1>1, <2>1, <2>2, <2>4
<1>4. ASSUME NEW s \in Statements, ExecuteUpdate(s) \/ ExecuteFails(s)
      PROVE  wire' = Idle /\ Served(answer')
  BY <1>0, <1>1, <1>4 DEF ExecuteUpdate, ExecuteFails, Execute, InSync
<1>5. ASSUME NEW s \in Statements, MoreResults(s)
      PROVE  wire' = Idle /\ Served(answer')
  BY <1>0, <1>5 DEF MoreResults, OnMoreResult, PgsqlMoreResult, OracleMoreResult
<1>6. ASSUME NEW s \in Statements, Clear(s) \/ NextRow(s) \/ NextFetch(s) \/ CloseSet(s)
      PROVE  wire' = Idle /\ Served(answer')
  BY <1>0, <1>6 DEF Clear, NextRow, NextFetch, CloseSet, plugin, app
<1> QED
  BY <1>2, <1>3, <1>4, <1>5, <1>6 DEF Next

(* With PostgreSQL and Oracle a statement can be executed at any time.     *)
THEOREM StatementsAreReusable == Spec => [](dbtype # "mysql" => ReexecutionWorks)
<1>1. Init => AlwaysInSync
  BY DEF Init, AlwaysInSync, InSync, ReexecutionWorks
<1>2. AlwaysInSync => (dbtype # "mysql" => ReexecutionWorks)
  BY DEF AlwaysInSync
<1> QED
  BY <1>1, <1>2, AlwaysInSyncStep, SpecInv, PTL DEF Spec
=============================================================================
