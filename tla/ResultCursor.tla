---------------------------- MODULE ResultCursor ----------------------------
(***************************************************************************)
(* Result sets of the statements of one EConnection.  Every                *)
(* ECommonStatement keeps its own EResultSet with the rows it was sent and *)
(* a cursor id; the EDatabase plugin keeps a single m_Result for the whole *)
(* connection and the id of the newest cursor, m_CursorID.  A fetch or a   *)
(* request for the next result names the cursor it means, a close does     *)
(* not.                                                                    *)
(*                                                                         *)
(* A statement's program is what the database answers to its SQL: the      *)
(* numbers of rows of its results, <<>> for an update.  A row is           *)
(* <<execution, result, position>>.  The database client libraries are     *)
(* external: libpq keeps a whole result, OCCI a cursor per result; a MySQL *)
(* connection holds the results of a procedure call, with a status at      *)
(* their end, until all were asked for, and refuses any command before.    *)
(*                                                                         *)
(* The application is a single thread that uses its statements in any      *)
(* order and calls no next() on a result set it closed (its data set is a  *)
(* null pointer).                                                          *)
(***************************************************************************)
EXTENDS Integers, Sequences, FiniteSetsExt

CONSTANTS
  Statements,        \* the ECommonStatement objects
  Plugins,           \* a subset of {"pgsql", "mysql", "oracle"}
  Programs,          \* what SQL may answer
  FetchSizes,        \* arguments of setFetchSize
  Garbage,           \* values of uninitialized row_offset and rows_size
  MaxExecutions,     \* bound on the calls of execute()
  None               \* no result and no result set

ASSUME PluginsAssumption == Plugins \subseteq {"pgsql", "mysql", "oracle"}
ASSUME ProgramsAssumption == Programs \subseteq Seq(Nat)
ASSUME SizesAssumption ==
  FetchSizes \subseteq Nat /\ Garbage \subseteq Nat /\ MaxExecutions \in Nat

(* EDatabase_*::Result: the result at hand (index and total), how far it   *)
(* was read, and the results that come after it.                           *)
Results ==
  [exec : Nat, index : Nat, total : Nat, current : Nat, fetch : Nat, offset : Nat,
   limit : Nat, rest : Seq(Nat), open : BOOLEAN]

Rows == (1..MaxExecutions) \X Nat \X Nat

(* EResultSet.                                                             *)
Sets == [cursor : Nat, rows : Seq(Rows), eof : BOOLEAN, currRow : Nat, closed : BOOLEAN]

ASSUME NoneAssumption == None \notin Results \cup Sets

VARIABLES
  dbtype,            \* the plugin
  m_Result,          \* EDatabase_*::m_Result, the open result, or None
  m_CursorID,        \* EDatabase::m_CursorID
  wire,              \* what a MySQL connection still holds: [results, status]
  resultSet,         \* ECommonStatement::resultSet of each statement, or None
  answer,            \* what the last execute() of each statement was told
  reading,           \* what the application read from each result set
  exhausted,         \* getMoreResults() of the statement returned false
  executions         \* calls of execute() so far

plugin == <<dbtype, m_Result, m_CursorID, wire>>
app    == <<answer, reading, exhausted, executions>>
vars   == <<plugin, resultSet, app>>

Idle == [results |-> <<>>, status |-> FALSE]

(* libmysqlclient's "commands out of sync".                                *)
InSync == wire = Idle

(* A result of which nothing was read.                                     *)
Begun(exec, index, program, garbled) ==
  [exec |-> exec, index |-> index, program |-> program, rows |-> <<>>, ended |-> FALSE,
   touched |-> FALSE, garbled |-> garbled]

Unread == Begun(0, 0, <<>>, FALSE)

Init ==
  /\ dbtype \in Plugins
  /\ m_Result = None /\ m_CursorID = 0 /\ wire = Idle
  /\ resultSet = [s \in Statements |-> None]
  /\ answer = [s \in Statements |-> "none"]
  /\ reading = [s \in Statements |-> Unread]
  /\ exhausted = [s \in Statements |-> FALSE]
  /\ executions = 0

-----------------------------------------------------------------------------
(* The plugin                                                              *)

(* Whether the data set was filled, which is all that tells createDataset  *)
(* that it may not be the last.                                            *)
FilledBeyond(from, to, size) == to > from + size - 1
Filled(from, to, size) == to = from + size - 1

(* createDataset: the next rows of result r, at most a fetch size (but     *)
(* one at least), behind the first offset rows and, unless limit is 0, up  *)
(* to limit rows after them.  The loop reads one row more to find the end  *)
(* of the limit; a data set that filled up is not the last, even when no   *)
(* row is left.                                                            *)
CreateDataset(r, offset, limit) ==
  LET size == Max({r.fetch, 1})
      stop == IF limit = 0 THEN r.total ELSE Min({r.total, offset + limit})
      from == Max({r.current, offset}) + 1
      to   == Min({stop, from + size - 1})
      full == Filled(from, to, size)
  IN  [rows    |-> [i \in 1..(to + 1 - from) |-> <<r.exec, r.index, from + i - 1>>],
       eof     |-> ~full,
       current |-> IF full THEN to
                   ELSE Min({r.total, IF stop = r.total THEN stop
                                      ELSE Max({r.current, stop}) + 1})]

(* A result that createDataset has not read from yet.                      *)
NewResult(exec, index, total, fetch) ==
  [exec |-> exec, index |-> index, total |-> total, current |-> 0, fetch |-> fetch,
   offset |-> 0, limit |-> 0, rest |-> <<>>, open |-> TRUE]

(* EDatabase_pgsql::onExecute: one result.                                 *)
PgsqlExecute(r, program) ==
  IF Len(program) = 1 THEN {[result |-> r, wire |-> Idle]} ELSE {}

(* EDatabase_mysql::onExecute: a query, or a procedure call whose further  *)
(* results and status stay on the connection.                              *)
MysqlExecute(r, program) ==
  {[result |-> r, wire |-> [results |-> Tail(program), status |-> TRUE]]}
    \cup (IF Len(program) = 1 THEN {[result |-> r, wire |-> Idle]} ELSE {})

(* EDatabase_oracle::onExecute: a query, or cursors as output parameters.  *)
(* The constructor for cursors initializes row_offset and rows_size with   *)
(* themselves.                                                             *)
OracleExecute(r, program) ==
  {[result |-> [r EXCEPT !.rest = Tail(program), !.offset = g[1], !.limit = g[2]],
    wire |-> Idle] : g \in Garbage \X Garbage}
    \cup (IF Len(program) = 1 THEN {[result |-> r, wire |-> Idle]} ELSE {})

OnExecute(r, program) ==
  CASE dbtype = "pgsql"  -> PgsqlExecute(r, program)
    [] dbtype = "mysql"  -> MysqlExecute(r, program)
    [] dbtype = "oracle" -> OracleExecute(r, program)

(* The check of onMoreResult and onResultFetch.                            *)
CursorValid(cursor) == cursor = m_CursorID /\ m_Result # None

(* onMoreResult: m_Result after it, and what is left on the connection.    *)
(* The answer holds a data set if the result is an open one.               *)
PgsqlMoreResult == [result |-> None, wire |-> wire]

MysqlMoreResult ==
  IF wire.results # <<>>
  THEN [result |-> NewResult(m_Result.exec, m_Result.index + 1,
                             Head(wire.results), m_Result.fetch),
        wire |-> [wire EXCEPT !.results = Tail(@)]]
  ELSE [result |-> None, wire |-> Idle]

OracleMoreStopsEarly ==
  IF Len(m_Result.rest) > 1
  THEN [result |-> [m_Result EXCEPT !.index = @ + 1, !.total = Head(m_Result.rest),
                                    !.current = 0, !.rest = Tail(@)],
        wire |-> wire]
  ELSE [result |-> [m_Result EXCEPT !.total = 0, !.current = 0, !.open = FALSE],
        wire |-> wire]

(* Result::next keeps the object, and its row_offset and rows_size.        *)
OracleMoreResult ==
  IF m_Result.rest # <<>>
  THEN [result |-> [m_Result EXCEPT !.index = @ + 1, !.total = Head(m_Result.rest),
                                    !.current = 0, !.rest = Tail(@)],
        wire |-> wire]
  ELSE [result |-> [m_Result EXCEPT !.total = 0, !.current = 0, !.open = FALSE],
        wire |-> wire]

OnMoreResult ==
  CASE dbtype = "pgsql"  -> PgsqlMoreResult
    [] dbtype = "mysql"  -> MysqlMoreResult
    [] dbtype = "oracle" -> OracleMoreResult

-----------------------------------------------------------------------------
(* ECommonStatement                                                        *)

NewSetOnFirstRow(cursor, dataset) ==
  [cursor |-> cursor, rows |-> dataset.rows, eof |-> dataset.eof, currRow |-> 1,
   closed |-> FALSE]

(* EResultSet(stmt, rep): the first rows of a result.                      *)
NewSet(cursor, dataset) ==
  [cursor |-> cursor, rows |-> dataset.rows, eof |-> dataset.eof, currRow |-> 0,
   closed |-> FALSE]

(* The plugin answers statement s with the first data set of result r.     *)
Answer(s, r) ==
  LET dataset == CreateDataset(r, 0, 0)
  IN  /\ m_CursorID' = m_CursorID + 1
      /\ m_Result' = [r EXCEPT !.current = dataset.current]
      /\ resultSet' = [resultSet EXCEPT ![s] = NewSet(m_CursorID + 1, dataset)]

(* What was read so far, once the plugin dropped its result.               *)
Touched == [s \in Statements |-> [reading[s] EXCEPT !.touched = TRUE]]

Execute(s) ==
  /\ executions < MaxExecutions
  /\ executions' = executions + 1
  /\ UNCHANGED dbtype

ExecuteQuery(s) ==
  /\ Execute(s)
  /\ InSync
  /\ \E program \in Programs \ {<<>>}, fetch \in FetchSizes :
       LET first == NewResult(executions + 1, 1, Head(program), fetch)
       IN  \E outcome \in OnExecute(first, program) :
             /\ Answer(s, outcome.result)
             /\ wire' = outcome.wire
             /\ reading' =
                  [Touched EXCEPT ![s] =
                     Begun(first.exec, 1, program,
                           outcome.result.offset # 0 \/ outcome.result.limit # 0)]
  /\ answer' = [answer EXCEPT ![s] = "rows"]
  /\ exhausted' = [exhausted EXCEPT ![s] = FALSE]

(* No data set in the answer: resultSet stays what it was.                 *)
ExecuteUpdate(s) ==
  /\ Execute(s)
  /\ InSync
  /\ <<>> \in Programs
  /\ m_Result' = None
  /\ answer' = [answer EXCEPT ![s] = "update"]
  /\ reading' = Touched
  /\ UNCHANGED <<m_CursorID, wire, resultSet, exhausted>>

(* The SQL is wrong, or the connection is out of sync: execute() throws.   *)
ExecuteFails(s) ==
  /\ Execute(s)
  /\ m_Result' = None
  /\ answer' = [answer EXCEPT ![s] = IF InSync THEN "error" ELSE "outOfSync"]
  /\ reading' = Touched
  /\ UNCHANGED <<m_CursorID, wire, resultSet, exhausted>>

(* An EUpdateStatement or a savepoint: onUpdate drops the result as well.  *)
Update ==
  /\ m_Result # None
  /\ m_Result' = None
  /\ reading' = Touched
  /\ UNCHANGED <<dbtype, m_CursorID, wire, resultSet, answer, exhausted, executions>>

NoMoreKeepsSet(s) ==
  /\ exhausted' = [exhausted EXCEPT ![s] = TRUE]
  /\ UNCHANGED resultSet

NoMore(s) ==
  /\ resultSet' = [resultSet EXCEPT ![s] = None]
  /\ exhausted' = [exhausted EXCEPT ![s] = TRUE]

(* getResultSet(true); it throws and changes nothing if the plugin says    *)
(* that the cursor is not the current one.                                 *)
MoreResults(s) ==
  /\ resultSet[s] # None
  /\ CursorValid(resultSet[s].cursor)
  /\ wire' = OnMoreResult.wire
  /\ IF OnMoreResult.result # None /\ OnMoreResult.result.open
     THEN /\ Answer(s, OnMoreResult.result)
          /\ reading' = [reading EXCEPT ![s] =
                           Begun(@.exec, @.index + 1, @.program, @.garbled)]
          /\ UNCHANGED exhausted
     ELSE /\ m_Result' = OnMoreResult.result
          /\ NoMore(s)
          /\ UNCHANGED <<m_CursorID, reading>>
  /\ UNCHANGED <<dbtype, answer, executions>>

(* clear() of the statement tells the plugin nothing.                      *)
Clear(s) ==
  /\ resultSet[s] # None
  /\ resultSet' = [resultSet EXCEPT ![s] = None]
  /\ UNCHANGED <<plugin, app>>

-----------------------------------------------------------------------------
(* EResultSet                                                              *)

(* What next() tells the application, which stops listening at the end.    *)
Tell(s, rows, row) ==
  reading' = IF reading[s].ended THEN reading
             ELSE IF row = 0 THEN [reading EXCEPT ![s].ended = TRUE]
             ELSE [reading EXCEPT ![s].rows = Append(@, rows[row])]

RowAfter(set) ==
  IF set.currRow < Len(set.rows) THEN set.currRow + 1 ELSE 0

NeedsFetch(set) == RowAfter(set) = 0 /\ ~set.eof

(* next() with a row at hand, or at the end of the last data set.          *)
NextRow(s) ==
  /\ resultSet[s] # None
  /\ ~resultSet[s].closed
  /\ ~NeedsFetch(resultSet[s])
  /\ resultSet' = [resultSet EXCEPT ![s].currRow = RowAfter(resultSet[s])]
  /\ Tell(s, resultSet[s].rows, RowAfter(resultSet[s]))
  /\ UNCHANGED <<plugin, answer, exhausted, executions>>

FetchedFromAny(cursor) ==
  IF m_Result # None
  THEN CreateDataset(m_Result, m_Result.offset, m_Result.limit)
  ELSE [rows |-> <<>>, eof |-> FALSE, current |-> 0]

(* onResultFetch; "cursor error." is an answer without rows and EOF mark.  *)
Fetched(cursor) ==
  IF CursorValid(cursor)
  THEN CreateDataset(m_Result, m_Result.offset, m_Result.limit)
  ELSE [rows |-> <<>>, eof |-> FALSE]

(* next() that fetches: the answer, whatever it says, is the new data set. *)
NextFetch(s) ==
  /\ resultSet[s] # None
  /\ ~resultSet[s].closed
  /\ NeedsFetch(resultSet[s])
  /\ LET dataset == Fetched(resultSet[s].cursor)
         row     == IF dataset.rows = <<>> THEN 0 ELSE 1
     IN  /\ resultSet' = [resultSet EXCEPT ![s].rows = dataset.rows,
                                           ![s].eof = dataset.eof, ![s].currRow = row]
         /\ m_Result' = IF CursorValid(resultSet[s].cursor)
                        THEN [m_Result EXCEPT !.current = dataset.current]
                        ELSE m_Result
         /\ Tell(s, dataset.rows, row)
  /\ UNCHANGED <<dbtype, m_CursorID, wire, answer, exhausted, executions>>

(* close(): onResultClose drops the result of whichever statement it is.   *)
CloseSet(s) ==
  /\ resultSet[s] # None
  /\ resultSet' = [resultSet EXCEPT ![s].closed = TRUE]
  /\ m_Result' = None
  /\ reading' = Touched
  /\ UNCHANGED <<dbtype, m_CursorID, wire, answer, exhausted, executions>>

Next ==
  \/ \E s \in Statements :
       \/ ExecuteQuery(s) \/ ExecuteUpdate(s) \/ ExecuteFails(s)
       \/ MoreResults(s) \/ Clear(s)
       \/ NextRow(s) \/ NextFetch(s) \/ CloseSet(s)
  \/ Update

Spec == Init /\ [][Next]_vars
-----------------------------------------------------------------------------
(* Properties                                                              *)

Readings ==
  [exec : Nat, index : Nat, program : Seq(Nat), rows : Seq(Rows), ended : BOOLEAN,
   touched : BOOLEAN, garbled : BOOLEAN]

TypeOK ==
  /\ dbtype \in Plugins
  /\ m_Result \in Results \cup {None}
  /\ m_Result # None => m_Result.exec \in 1..executions /\ m_Result.current <= m_Result.total
  /\ m_CursorID \in Nat
  /\ wire \in [results : Seq(Nat), status : BOOLEAN]
  /\ resultSet \in [Statements -> Sets \cup {None}]
  /\ \A s \in Statements : resultSet[s] # None =>
       /\ resultSet[s].cursor <= m_CursorID
       /\ resultSet[s].currRow <= Len(resultSet[s].rows)
  /\ answer \in [Statements -> {"none", "rows", "update", "error", "outOfSync"}]
  /\ reading \in [Statements -> Readings]
  /\ exhausted \in [Statements -> BOOLEAN]
  /\ executions \in 0..MaxExecutions

(* Up to the first false of next(), a result set gives the rows of its own *)
(* result, in order and once each, whatever the other statements of the    *)
(* connection do in between.  With an uninitialized offset or limit rows   *)
(* may be missing in between, but none is foreign or comes twice.          *)
RowsInOrder ==
  \A s \in Statements :
    LET r == reading[s] IN
    /\ \A i \in 1..Len(r.rows) : r.rows[i][1] = r.exec /\ r.rows[i][2] = r.index
    /\ \A i \in 1..Len(r.rows) : IF r.garbled THEN r.rows[i][3] >= i
                                 ELSE r.rows[i][3] = i
    /\ \A i \in 2..Len(r.rows) : r.rows[i-1][3] < r.rows[i][3]
    /\ \A i \in 1..Len(r.rows) : r.rows[i][3] <= r.program[r.index]

(* next() returns false only after the last row, unless the connection was *)
(* used for another execute(), update or close in the meantime: then a     *)
(* result set that needs to fetch ends early without an error, although    *)
(* EStatement.hh:22-26 lets different statements be read interleaved.      *)
EndMeansAll ==
  \A s \in Statements :
    LET r == reading[s] IN
    r.ended /\ ~r.touched /\ ~r.garbled => Len(r.rows) = r.program[r.index]

(* getMoreResults() says that there is no more only after the last result  *)
(* of the statement's own program: asked after another statement was       *)
(* executed it throws instead.                                             *)
AllResultsSeen ==
  \A s \in Statements :
    exhausted[s] => reading[s].index = Len(reading[s].program)

(* The Result that EDatabase_oracle keeps after its last cursor has no     *)
(* ResultSet; no result set may still be able to fetch from it, which      *)
(* would use a null pointer in the proxy.                                  *)
NoFetchFromNull ==
  m_Result # None /\ ~m_Result.open =>
    \A s \in Statements : resultSet[s] # None => resultSet[s].cursor # m_CursorID

(* EResultSet.hh, close(): a result set "is automatically closed by the    *)
(* Statement object that generated it when that Statement object is        *)
(* closed, re-executed, or is used to retrieve the next result": executing *)
(* a statement after a procedure call is possible.                         *)
ReexecutionWorks == \A s \in Statements : answer[s] # "outOfSync"
=============================================================================
