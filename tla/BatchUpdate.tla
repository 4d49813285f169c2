---------------------------- MODULE BatchUpdate ----------------------------
(***************************************************************************)
(* One batch of an EUpdateStatement: the application adds SQLs and rows of *)
(* parameters, some of them streams, execute() sends them as one request,  *)
(* onUpdate of the plugin runs them one by one and writes an entry for     *)
(* each, and the application asks by number what became of its i-th SQL.   *)
(*                                                                         *)
(* The number of an item is told nowhere in the request: the plugin counts *)
(* as it goes, and after a failed prepare it skips the rows of that SQL by *)
(* a count of child nodes, which is that of the rows in pgsql, that of the *)
(* parameters of the first row in mysql and the constant 2 in freetds.     *)
(*                                                                         *)
(* Streams are not told apart either: a row takes the next of an iterator, *)
(* over the packages of the connection behind the proxy, over the client's *)
(* list with a plugin in the client.  A stream is read whole or not at all *)
(* here; what a half-read one does to its connection is in ProxySession.   *)
(*                                                                         *)
(* The database is external: a SQL succeeds or fails.  The application     *)
(* adds rows only to an SQL it has bound parameters of, as the tests do,   *)
(* and no queries.                                                         *)
(***************************************************************************)
EXTENDS Integers, FiniteSets, Sequences, FiniteSetsExt

CONSTANTS
  Plugins,           \* a subset of AllPlugins
  Transports,        \* a subset of {"proxy", "direct"}
  MaxItems,          \* bound on the SQLs and rows of a batch
  MaxParams          \* bound on the parameters of a row

AllPlugins == {"pgsql", "mysql", "oracle", "freetds"}

ASSUME PluginsAssumption == Plugins \subseteq AllPlugins
ASSUME TransportsAssumption == Transports \subseteq {"proxy", "direct"}
ASSUME BoundsAssumption == MaxItems \in Nat /\ MaxParams \in Nat

VARIABLES
  dbtype, transport,
  items,             \* what was added: [opens, holes, params, first, streams]
  streamParams,      \* the number of streams that were bound
  resume,            \* isFailedResume
  phase,             \* "build", "sql", "row", "done" or "lost"
  at,                \* the item the plugin is at
  sqlIndex, hasFailed,
  reply,             \* the entries of RESULT: [index, count, of]
  pos, drained,      \* streams the iterator gave, streams read to their end
  tried,             \* the items the database was asked to execute
  succeeded,         \* those it did
  stored             \* [item, data]: the streams their rows were given

statement == <<dbtype, transport, items, streamParams, resume>>
plugin    == <<phase, at, sqlIndex, hasFailed, reply>>
streams   == <<pos, drained>>
history   == <<tried, succeeded, stored>>
vars      == <<statement, plugin, streams, history>>

Init ==
  /\ dbtype \in Plugins /\ transport \in Transports
  /\ items = <<>> /\ streamParams = 0 /\ resume = FALSE
  /\ phase = "build" /\ at = 1 /\ sqlIndex = 0 /\ hasFailed = FALSE /\ reply = <<>>
  /\ pos = 0 /\ drained = {}
  /\ tried = {} /\ succeeded = {} /\ stored = {}

-----------------------------------------------------------------------------
(* The batch                                                               *)

N == Len(items)

(* The item that starts the SQL after the one item i belongs to.           *)
NextSql(i) == Min({j \in (i + 1)..N : items[j].opens} \cup {N + 1})

(* The rows of the SQL that item i starts.                                 *)
RowsOf(i) == i..(NextSql(i) - 1)

HasParams(i) == items[i].params > 0

(* The part of streamParams that was bound to item i.                      *)
StreamsOf(i) == [k \in 1..items[i].streams |-> items[i].first + k]

NewItem(opens, holes) ==
  [opens |-> opens, holes |-> holes, params |-> 0, first |-> streamParams, streams |-> 0]

(* addBatch(sql); holes are the placeholders of the SQL.                   *)
AddSql(holes) ==
  /\ phase = "build"
  /\ N < MaxItems
  /\ items' = Append(items, NewItem(TRUE, holes))
  /\ UNCHANGED <<dbtype, transport, streamParams, resume, plugin, streams, history>>

(* addBatch(): another PARAMS node under the last SQL.                     *)
AddRow ==
  /\ phase = "build"
  /\ N \in 1..(MaxItems - 1)
  /\ ~items[N].opens \/ HasParams(N)
  /\ items' = Append(items, NewItem(FALSE, items[N].holes))
  /\ UNCHANGED <<dbtype, transport, streamParams, resume, plugin, streams, history>>

(* bind of a value, or of a stream, which goes to streamParams too.        *)
Bind(isStream) ==
  /\ phase = "build"
  /\ N > 0
  /\ items[N].params < MaxParams
  /\ LET more  == IF isStream THEN 1 ELSE 0
         bound == [items[N] EXCEPT !.params = @ + 1, !.streams = @ + more]
     IN  /\ items' = [items EXCEPT ![N] = bound]
         /\ streamParams' = streamParams + more
  /\ UNCHANGED <<dbtype, transport, resume, plugin, streams, history>>

(* execute(): the request reaches onUpdate.                                *)
Execute ==
  /\ phase = "build"
  /\ N > 0
  /\ resume' \in BOOLEAN
  /\ phase' = "sql"
  /\ UNCHANGED <<dbtype, transport, items, streamParams, at, sqlIndex, hasFailed, reply,
                 streams, history>>

-----------------------------------------------------------------------------
(* onUpdate                                                                *)

Stops == ~resume /\ hasFailed

(* pgsql prepares what it executes more than once; oracle never prepares.  *)
Prepares(i) ==
  \/ dbtype = "pgsql" /\ Cardinality(RowsOf(i)) > 1
  \/ dbtype \in {"mysql", "freetds"}

(* Mutant: rows and parameters are taken for each other in pgsql too.      *)
ParamsCount(i) ==
  CASE dbtype \in {"pgsql", "mysql"} -> items[i].params
    [] dbtype = "freetds"            -> 2
    [] OTHER                         -> Cardinality(RowsOf(i))

(* batch_count.                                                            *)
BatchCount(i) ==
  CASE dbtype = "mysql"   -> items[i].params
    [] dbtype = "freetds" -> 2
    [] OTHER              -> Cardinality(RowsOf(i))

(* Rows affected, 1 for any number of them; freetds passes CS_ROW_COUNT    *)
(* on, which is -1 (CS_NO_COUNT) for a success that has no count.          *)
RowCounts == IF dbtype = "freetds" THEN {1, -1} ELSE {1}

Entry(index, ok, count, of) ==
  \E rows \in RowCounts :
    reply' = Append(reply, [index |-> index, of |-> of,
                            count |-> IF ok THEN rows ELSE -count])

(* Mutant: the number is counted after the entry is written.               *)
AffectedThenCount(ok, count, of) ==
  /\ Entry(sqlIndex, ok, count, of)
  /\ hasFailed' = (hasFailed \/ ~ok)

(* AFFECTED_SUCCESS and AFFECTED_FAILURE with the index that was counted.  *)
Affected(ok, count, of) ==
  /\ Entry(sqlIndex + 1, ok, count, of)
  /\ hasFailed' = (hasFailed \/ ~ok)

(* To the next row of the SQL, or to the next SQL.                         *)
GoTo(i) ==
  /\ at' = i
  /\ phase' = IF i \in RowsOf(at) THEN "row" ELSE "sql"

(* The end of the request, or the check before every SQL.                  *)
Finish ==
  /\ phase = "sql"
  /\ at > N \/ Stops
  /\ phase' = "done"
  /\ UNCHANGED <<statement, at, sqlIndex, hasFailed, reply, streams, history>>

(* An SQL without PARAMS.                                                  *)
RunSql(ok) ==
  /\ phase = "sql" /\ at <= N /\ ~Stops
  /\ ~HasParams(at)
  /\ sqlIndex' = sqlIndex + 1
  /\ Affected(ok, 1, {at})
  /\ GoTo(NextSql(at))
  /\ tried' = tried \cup {at}
  /\ succeeded' = IF ok THEN succeeded \cup {at} ELSE succeeded
  /\ UNCHANGED <<statement, streams, stored>>

(* The iterator of the SQL: on the client's list it is a new one.          *)
OpenRows ==
  /\ phase = "sql" /\ at <= N /\ ~Stops
  /\ HasParams(at)
  /\ phase' = "row"
  /\ pos' = IF transport = "direct" THEN 0 ELSE pos
  /\ UNCHANGED <<statement, at, sqlIndex, hasFailed, reply, drained, history>>

(* Mutant: the entry of a failed prepare counts as one failure.            *)
PrepareFailsAsOne ==
  /\ phase = "sql" /\ at <= N /\ ~Stops
  /\ HasParams(at) /\ Prepares(at)
  /\ Affected(FALSE, 1, RowsOf(at))
  /\ sqlIndex' = sqlIndex + BatchCount(at)
  /\ GoTo(NextSql(at))
  /\ UNCHANGED <<statement, streams, history>>

(* One entry stands for all rows; their streams stay unread.  freetds      *)
(* comes here when the client library refuses: create_prepare_stmt skips   *)
(* the results, and of a prepare that the server rejects each row fails by *)
(* itself (RunRow).                                                        *)
PrepareFails ==
  /\ phase = "sql" /\ at <= N /\ ~Stops
  /\ HasParams(at) /\ Prepares(at)
  /\ Affected(FALSE, BatchCount(at), RowsOf(at))
  /\ sqlIndex' = sqlIndex + BatchCount(at)
  /\ GoTo(NextSql(at))
  /\ UNCHANGED <<statement, streams, history>>

(* The check before every row, after its number was counted.               *)
RowsStop ==
  /\ phase = "row" /\ Stops
  /\ sqlIndex' = sqlIndex + 1
  /\ GoTo(NextSql(at))
  /\ UNCHANGED <<statement, hasFailed, reply, streams, history>>

(* "bind params error.": the row's streams stay unread.                    *)
RowMisbound ==
  /\ phase = "row" /\ ~Stops
  /\ items[at].params # items[at].holes
  /\ sqlIndex' = sqlIndex + 1
  /\ Affected(FALSE, 1, {at})
  /\ GoTo(at + 1)
  /\ UNCHANGED <<statement, streams, history>>

(* Where the iterator of a row starts: mysql makes a new one for each.     *)
Start == IF dbtype = "mysql" /\ transport = "direct" THEN 0 ELSE pos

(* Mutant: a row always starts at the first stream.                        *)
ReadStreamsFromFirst(n) ==
  /\ pos' = n
  /\ drained' = drained \cup 1..n

(* n streams are read, each to its end.                                    *)
ReadStreams(n) ==
  /\ pos' = Start + n
  /\ drained' = drained \cup (Start + 1)..pos'

(* What the row gets: a stream that was read before is empty (0).          *)
Given(n) == [k \in 1..n |-> IF Start + k \in drained THEN 0 ELSE Start + k]

(* Mutant: the row is run whatever failed before it.                       *)
RunRowAnyway(ok, n) ==
  /\ phase = "row"
  /\ items[at].params = items[at].holes
  /\ n \in 0..items[at].streams
  /\ n = items[at].streams \/ (~ok /\ dbtype # "pgsql")
  /\ ReadStreams(n)
  /\ sqlIndex' = sqlIndex + 1
  /\ Affected(ok, 1, {at})
  /\ GoTo(at + 1)
  /\ tried' = tried \cup {at}
  /\ succeeded' = IF ok THEN succeeded \cup {at} ELSE succeeded
  /\ stored' = IF ok THEN stored \cup {[item |-> at, data |-> Given(n)]} ELSE stored
  /\ UNCHANGED statement

(* A row is bound and executed.  pgsql has the data of all its streams     *)
(* before it executes; the others may fail with n of them read.            *)
RunRow(ok, n) ==
  /\ phase = "row" /\ ~Stops
  /\ items[at].params = items[at].holes
  /\ n \in 0..items[at].streams
  /\ n = items[at].streams \/ (~ok /\ dbtype # "pgsql")
  /\ ReadStreams(n)
  /\ sqlIndex' = sqlIndex + 1
  /\ Affected(ok, 1, {at})
  /\ GoTo(at + 1)
  /\ tried' = tried \cup {at}
  /\ succeeded' = IF ok THEN succeeded \cup {at} ELSE succeeded
  /\ stored' = IF ok THEN stored \cup {[item |-> at, data |-> Given(n)]} ELSE stored
  /\ UNCHANGED statement

(* No reply arrives: execute() throws.  Its result is set by then, and has *)
(* no RESULT: the application reads no counts of such a batch, and         *)
(* getFirstFailed() and getFailures() would follow a null pointer.         *)
CallLost ==
  /\ phase \in {"sql", "row"}
  /\ phase' = "lost"
  /\ UNCHANGED <<statement, at, sqlIndex, hasFailed, reply, streams, history>>

Next ==
  \/ \E holes \in 1..MaxParams : AddSql(holes)
  \/ AddRow
  \/ \E isStream \in BOOLEAN : Bind(isStream)
  \/ Execute
  \/ Finish \/ OpenRows \/ PrepareFails \/ RowsStop \/ RowMisbound
  \/ \E ok \in BOOLEAN : RunSql(ok) \/ \E n \in 0..MaxParams : RunRow(ok, n)
  \/ CallLost

Spec == Init /\ [][Next]_vars

-----------------------------------------------------------------------------
(* What the application reads                                              *)

FailedEntries == {k \in 1..Len(reply) : reply[k].count < 0}

(* Mutant: the failed entry that was written last.                         *)
LastFailed == IF FailedEntries = {} THEN -1 ELSE reply[Max(FailedEntries)].index

GetFirstFailed == IF FailedEntries = {} THEN -1 ELSE reply[Min(FailedEntries)].index

(* The sum of the negative counts of a list of entries.                    *)
SumOfFailures(entries) ==
  LET count[k \in 0..Len(entries)] ==
        IF k = 0 THEN 0
        ELSE IF entries[k].count < 0 THEN count[k - 1] + entries[k].count
        ELSE count[k - 1]
  IN  count[Len(entries)]

(* A negative number, or 0.                                                *)
GetFailures == SumOfFailures(reply)

(* The entry with this number, wherever it is.                             *)
GetUpdateCount(i) ==
  LET with == {k \in 1..Len(reply) : reply[k].index = i}
  IN  IF with = {} THEN -1 ELSE reply[Min(with)].count

-----------------------------------------------------------------------------
(* Properties                                                              *)

Entries == [index : Nat \ {0}, count : Int \ {0}, of : SUBSET (1..MaxItems)]

Item == [opens : BOOLEAN, holes : 1..MaxParams, params : 0..MaxParams,
         first : Nat, streams : Nat]

TypeOK ==
  /\ dbtype \in Plugins /\ transport \in Transports
  /\ items \in Seq(Item) /\ N <= MaxItems /\ streamParams \in Nat
  /\ resume \in BOOLEAN /\ hasFailed \in BOOLEAN
  /\ phase \in {"build", "sql", "row", "done", "lost"}
  /\ at \in 1..(MaxItems + 1) /\ sqlIndex \in Nat
  /\ reply \in Seq(Entries)
  /\ pos \in Nat /\ drained \in SUBSET Nat
  /\ tried \in SUBSET (1..N) /\ succeeded \in SUBSET tried
  /\ \A s \in stored : s.item \in succeeded

(* These plugins skip by the number of rows.                               *)
CountsRows == dbtype \in {"pgsql", "oracle"}

(* What getUpdateCount(i) says is what became of the i-th SQL or row that  *)
(* was added, through failed prepares, misbound rows and stops; with mysql *)
(* and freetds in batches that stop at the first failure.  A count of 0 or *)
(* more is always that of a success; a success has one, but for those that *)
(* freetds counts -1.                                                      *)
CountsFollowNumbers ==
  phase = "done" /\ (CountsRows \/ ~resume) =>
    \A i \in 1..N :
      /\ GetUpdateCount(i) >= 0 => i \in succeeded
      /\ i \in succeeded /\ dbtype # "freetds" => GetUpdateCount(i) >= 0

(* EUpdateStatement.hh, getUpdateCount(): "The first sql is number 1, the  *)
(* second number 2, and so on".                                            *)
FirstSqlIsNumberOne ==
  phase = "done" => \A i \in 1..N : GetUpdateCount(i) >= 0 <=> i \in succeeded

(* getFirstFailed() is the number of the first item that did not succeed,  *)
(* whatever was skipped by a wrong count behind it, and the number of no   *)
(* item when all did (-1, where EUpdateStatement.hh:63 has 0).  freetds    *)
(* may name an item before it, a success it counted -1, and no item behind *)
(* it.                                                                     *)
FirstFailedIsFirst ==
  LET failed == (1..N) \ succeeded IN
  phase = "done" =>
    /\ failed # {} => GetFirstFailed \in 1..Min(failed)
    /\ failed # {} /\ dbtype # "freetds" => GetFirstFailed = Min(failed)
    /\ failed = {} /\ dbtype # "freetds" => GetFirstFailed \notin 1..N

(* With setFailedResume(true) every item is executed or counted as failed, *)
(* once: successes and failures add up to the batch.  EUpdateStatement.hh  *)
(* documents getFailures() (line 68) as the number of failed records: it   *)
(* is that number, with the sign of the counts it sums up.                 *)
ResumeAccountsForAll ==
  phase = "done" /\ resume /\ CountsRows => Cardinality(succeeded) - GetFailures = N

(* Without it nothing is executed after an item that did not succeed.      *)
StopsAtFirstFailure ==
  ~resume => \A i \in tried : 1..(i - 1) \subseteq succeeded

(* All streams belong to one row, or to one SQL.                           *)
StreamsInOneRow ==
  \A i, j \in 1..N : items[i].streams > 0 /\ items[j].streams > 0 => i = j
StreamsInOneSql ==
  \A i, j \in 1..N :
    i < j /\ items[i].streams > 0 /\ items[j].streams > 0 => j \in RowsOf(i)

(* Where the iterator finds every row's streams: over the proxy always,    *)
(* with a plugin in the client when one SQL (with mysql, one row) has them *)
(* all.                                                                    *)
StreamsInReach ==
  \/ transport = "proxy"
  \/ StreamsInOneSql /\ dbtype # "mysql"
  \/ StreamsInOneRow

(* A row that was stored has its own streams, whole and in order, in a     *)
(* batch that stops at the first failure.                                  *)
StreamsReachTheirRow ==
  ~resume /\ StreamsInReach => \A s \in stored : s.data = StreamsOf(s.item)
=============================================================================
