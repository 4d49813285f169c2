----------------------------- MODULE TxSession -----------------------------
(***************************************************************************)
(* Transactions of one EConnection: the client's autoCommit flag, the      *)
(* flag m_AutoCommit of the EDatabase plugin that serves it (in the client *)
(* or behind the proxy), and the transaction of the database itself, with  *)
(* its savepoints.  The three meet in setAutoCommit, commit, rollback and  *)
(* the savepoint calls.  These are SQL statements sent through onUpdate,   *)
(* which reports a failing statement in its result and never as the        *)
(* failure of the request; freetds sends its own and has them fail.        *)
(*                                                                         *)
(* The database is external.  PostgreSQL aborts a transaction in which a   *)
(* statement fails: every statement fails until ROLLBACK or ROLLBACK TO,   *)
(* and COMMIT ends it as a ROLLBACK, with the status of a success.  The    *)
(* others undo the failing statement only.  Oracle has no RELEASE          *)
(* SAVEPOINT, and its auto-commit is a mode of the client's statement: an  *)
(* execution that succeeds in it commits all that came before.  SQL Server *)
(* ignores the name in "commit tran", and refuses it outside of a          *)
(* transaction.  All drop the transaction of a connection that breaks.     *)
(*                                                                         *)
(* A call that throws and changes nothing is no step.  An application      *)
(* makes one call at a time; told is what it knows of its transaction.     *)
(* A reply comes here whole or not at all.  One that breaks off behind its *)
(* head reads as a success whatever it said (ProxySession): promised and   *)
(* undone are what whole replies said, and what close() leaves.            *)
(***************************************************************************)
EXTENDS Naturals, Sequences, Functions

CONSTANTS
  Plugins,           \* a subset of AllPlugins
  MaxWrites,         \* bound on the updates
  MaxSavepoints,     \* bound on the savepoints
  MaxConnects        \* bound on the connects of the EConnection object

AllPlugins == {"pgsql", "mysql", "oracle", "freetds"}

ASSUME PluginsAssumption == Plugins \subseteq AllPlugins
ASSUME BoundsAssumption ==
  MaxWrites \in Nat /\ MaxSavepoints \in Nat /\ MaxConnects \in Nat

VARIABLES
  dbtype,            \* the plugin
  isConnected,       \* EConnection::isConnected
  isClosed,          \* EConnection::isClosed()
  autoCommit,        \* EConnection::autoCommit
  link,              \* "none", "up", "dbDown" or "proxyDown"
  mAuto,             \* EDatabase::m_AutoCommit
  tx,                \* the database's transaction: "none", "open", "aborted"
  work,              \* the updates in it
  saves,             \* its savepoints: [id, at], at a length of work
  durable,           \* the updates that are committed
  told,              \* the updates the application made in its transaction
  marks,             \* its savepoint objects: [id, at], at a length of told
  promised,          \* what calls that succeeded said is permanent
  undone,            \* what calls that succeeded said is undone, or close() left
  excused,           \* updates made, told or undone while the parts disagreed
  spoiled,           \* updates told permanent that the database does not have
  released,          \* releaseSavepoint() has ended the transaction
  count, connects,   \* updates and calls of connect() so far
  lastId             \* ESavepoint::IDGenerator

client  == <<isConnected, isClosed, autoCommit>>
session == <<dbtype, link, mAuto, released>>
db      == <<tx, work, saves, durable>>
app     == <<told, marks, promised, undone, excused, spoiled>>
bounds  == <<count, connects, lastId>>
vars    == <<client, session, db, app, bounds>>

Init ==
  /\ dbtype \in Plugins
  /\ isConnected = FALSE /\ isClosed = TRUE /\ autoCommit = TRUE
  /\ link = "none" /\ mAuto = TRUE /\ released = FALSE
  /\ tx = "none" /\ work = <<>> /\ saves = <<>> /\ durable = {}
  /\ told = <<>> /\ marks = <<>>
  /\ promised = {} /\ undone = {} /\ excused = {} /\ spoiled = {}
  /\ count = 0 /\ connects = 0 /\ lastId = 0

-----------------------------------------------------------------------------
(* The database                                                            *)

(* BEGIN, or the transaction that MySQL opens by itself.                   *)
NewTx(position) == tx' = position /\ work' = <<>> /\ saves' = <<>>

CommitTx(position) ==
  /\ durable' = durable \cup (IF tx = "open" THEN Range(work) ELSE {})
  /\ NewTx(position)

RollbackTx(position) == NewTx(position) /\ UNCHANGED durable

Aborted == IF dbtype = "pgsql" /\ tx # "none" THEN "aborted" ELSE tx

Known(id) == \E i \in 1..Len(saves) : saves[i].id = id
At(id) == CHOOSE i \in 1..Len(saves) : saves[i].id = id

-----------------------------------------------------------------------------
(* What the application is told                                            *)

EndTold == told' = <<>> /\ marks' = <<>>

ToldCommitted ==
  /\ promised' = promised \cup Range(told)
  /\ spoiled' = IF tx = "aborted" THEN spoiled \cup Range(told) ELSE spoiled
  /\ EndTold
  /\ UNCHANGED <<undone, excused>>

(* setAutoCommit(true) of Oracle: nothing is committed yet.                *)
ToldTooEarly ==
  /\ promised' = promised \cup Range(told)
  /\ spoiled' = spoiled \cup Range(told)
  /\ excused' = excused \cup Range(told)
  /\ EndTold
  /\ UNCHANGED undone

ToldUndone ==
  /\ undone' = undone \cup Range(told)
  /\ EndTold
  /\ UNCHANGED <<promised, excused, spoiled>>

-----------------------------------------------------------------------------
(* connect() and close()                                                   *)

Connect ==
  /\ ~isConnected
  /\ connects < MaxConnects
  /\ isConnected' = TRUE /\ isClosed' = FALSE
  /\ link' = "up" /\ mAuto' = TRUE /\ released' = FALSE
  /\ RollbackTx("none")
  /\ EndTold
  /\ connects' = connects + 1
  /\ UNCHANGED <<autoCommit, dbtype, promised, undone, excused, spoiled, count, lastId>>

(* open() fails behind the new EDatabase or ESocket: isConnected stays     *)
(* false, and isClosed() does not.  The application makes no call then but *)
(* close() and connect().                                                  *)
ConnectFails ==
  /\ ~isConnected
  /\ connects < MaxConnects
  /\ isClosed' = FALSE
  /\ connects' = connects + 1
  /\ UNCHANGED <<isConnected, autoCommit, session, db, app, count, lastId>>

(* A session that ends: the plugin rolls back, but for Oracle in its       *)
(* auto-commit mode, where the library decides.                            *)
CommitsOnSuccess == dbtype = "oracle" /\ mAuto
EndTx == RollbackTx("none") \/ (CommitsOnSuccess /\ CommitTx("none"))

(* Oracle's close() begins with ROLLBACK, which needs the database.        *)
RollbackFails == dbtype = "oracle" /\ link = "dbDown" /\ ~mAuto

Close ==
  /\ ~isClosed
  /\ link # "proxyDown" /\ ~RollbackFails
  /\ isConnected' = FALSE /\ isClosed' = TRUE
  /\ link' = "none"
  /\ EndTx
  /\ ToldUndone
  /\ UNCHANGED <<autoCommit, dbtype, mAuto, released, bounds>>

(* The socket is closed, or the EDatabase deleted; then the exception of   *)
(* the plugin or of the socket is thrown, and isConnected stays.  Oracle's *)
(* library may refuse to end a session that is broken.                     *)
CloseThrows ==
  /\ ~isClosed
  /\ link \in {"none", "proxyDown"} \/ (link = "dbDown" /\ dbtype = "oracle")
  /\ isClosed' = TRUE
  /\ link' = "none"
  /\ ToldUndone
  /\ UNCHANGED <<isConnected, autoCommit, dbtype, mAuto, released, db, bounds>>

-----------------------------------------------------------------------------
(* Transactions                                                            *)

(* "commit tran" or "rollback tran" without a transaction fails.           *)
CanEnd == dbtype = "freetds" => tx # "none"

(* Only MySQL is asked when the flag stays as it is; Oracle never is.      *)
CanSwitch(on) ==
  /\ ~isClosed
  /\ link \in {"up", "dbDown"}
  /\ link = "dbDown" => dbtype = "oracle" \/ (dbtype # "mysql" /\ on = mAuto)
  /\ on /\ ~mAuto => CanEnd

SwitchTx(on) ==
  IF on = mAuto \/ link = "dbDown" \/ (dbtype = "oracle" /\ (on \/ tx = "open"))
  THEN UNCHANGED db
  ELSE IF on THEN CommitTx("none")
  ELSE NewTx("open") /\ UNCHANGED durable

ToldSwitched(on) ==
  IF ~on \/ autoCommit THEN UNCHANGED app
  ELSE IF dbtype = "oracle" THEN ToldTooEarly ELSE ToldCommitted

(* Mutant: m_AutoCommit is not assigned.                                   *)
SetAutoCommitForgets(on) ==
  /\ CanSwitch(on)
  /\ autoCommit' = on
  /\ SwitchTx(on)
  /\ ToldSwitched(on)
  /\ UNCHANGED <<isConnected, isClosed, session, bounds>>

SetAutoCommit(on) ==
  /\ CanSwitch(on)
  /\ mAuto' = on
  /\ autoCommit' = on
  /\ SwitchTx(on)
  /\ ToldSwitched(on)
  /\ UNCHANGED <<isConnected, isClosed, dbtype, link, released, bounds>>

(* Mutant: no BEGIN after the COMMIT.                                      *)
CommitNoBegin ==
  /\ ~isClosed
  /\ link = "up"
  /\ ~mAuto /\ CanEnd
  /\ CommitTx("none")
  /\ ToldCommitted
  /\ UNCHANGED <<client, session, bounds>>

(* Mutant: ROLLBACK for COMMIT.                                            *)
CommitRollsBack ==
  /\ ~isClosed
  /\ link = "up"
  /\ ~mAuto /\ CanEnd
  /\ RollbackTx("open")
  /\ ToldCommitted
  /\ UNCHANGED <<client, session, bounds>>

(* onCommit: refused in the plugin's auto-commit mode.                     *)
Commit ==
  /\ ~isClosed
  /\ link = "up"
  /\ ~mAuto /\ CanEnd
  /\ CommitTx("open")
  /\ ToldCommitted
  /\ UNCHANGED <<client, session, bounds>>

(* Mutant: BEGIN without ROLLBACK, which goes on with the transaction.     *)
RollbackOnlyBegins ==
  /\ ~isClosed
  /\ link = "up"
  /\ ~mAuto /\ CanEnd
  /\ ToldUndone
  /\ UNCHANGED <<client, session, db, bounds>>

Rollback ==
  /\ ~isClosed
  /\ link = "up"
  /\ ~mAuto /\ CanEnd
  /\ RollbackTx("open")
  /\ ToldUndone
  /\ UNCHANGED <<client, session, bounds>>

(* The database or the proxy goes away in commit(), rollback() or          *)
(* setAutoCommit(true): committed or not, the call throws.  A plugin that  *)
(* had its COMMIT or ROLLBACK, and fails in BEGIN, goes to auto-commit; a  *)
(* BEGIN fails here with its connection only.                              *)
EndLost ==
  /\ ~isClosed
  /\ link = "up"
  /\ ~mAuto
  /\ link' \in {"dbDown", "proxyDown"}
  /\ RollbackTx("none") \/ CommitTx("none")
  /\ mAuto' \in {FALSE, (dbtype \in {"pgsql", "freetds"} /\ CanEnd)}
  /\ EndTold
  /\ UNCHANGED <<client, dbtype, released, promised, undone, excused, spoiled, bounds>>

(* The mode the client assumes, the plugin's, or the database's differ.    *)
Disagree == autoCommit # mAuto \/ released

ToldUpdate(w) ==
  /\ IF autoCommit
     THEN promised' = promised \cup {w} /\ UNCHANGED told
     ELSE told' = Append(told, w) /\ UNCHANGED promised
  /\ excused' = IF Disagree THEN excused \cup {w} ELSE excused
  /\ UNCHANGED <<marks, undone, spoiled>>

(* Mutant: the update is executed outside the transaction.                 *)
ExecuteOutside(w) == durable' = durable \cup {w} /\ UNCHANGED <<tx, work, saves>>

(* The database has executed update w.                                     *)
ExecuteUpdate(w) ==
  \/ /\ tx = "none"
     /\ durable' = durable \cup {w}
     /\ UNCHANGED <<tx, work, saves>>
  \/ /\ tx = "open" /\ ~CommitsOnSuccess
     /\ work' = Append(work, w)
     /\ UNCHANGED <<tx, saves, durable>>
  \/ /\ tx = "open" /\ CommitsOnSuccess
     /\ durable' = durable \cup Range(work) \cup {w}
     /\ NewTx("none")

(* One SQL of an update statement; its failure is told in the result.      *)
Update ==
  /\ ~isClosed
  /\ link = "up"
  /\ count < MaxWrites
  /\ count' = count + 1
  /\ ExecuteUpdate(count + 1)
  /\ ToldUpdate(count + 1)
  /\ UNCHANGED <<client, session, connects, lastId>>

UpdateFails ==
  /\ ~isClosed
  /\ link = "up"
  /\ tx' = Aborted
  /\ UNCHANGED <<client, session, work, saves, durable, app, bounds>>

-----------------------------------------------------------------------------
(* Savepoints                                                              *)

SetSavepoint ==
  /\ ~isClosed
  /\ ~autoCommit
  /\ link \in {"up", "dbDown"}
  /\ dbtype = "freetds" => link = "up" /\ tx = "open"
  /\ lastId < MaxSavepoints
  /\ lastId' = lastId + 1
  /\ saves' = IF link = "up" /\ tx = "open"
              THEN Append(saves, [id |-> lastId', at |-> Len(work)])
              ELSE saves
  /\ marks' = Append(marks, [id |-> lastId', at |-> Len(told)])
  /\ UNCHANGED <<client, session, tx, work, durable, told, promised, undone,
                 excused, spoiled, count, connects>>

(* Mutant: RELEASE SAVEPOINT is sent for ROLLBACK TO SAVEPOINT.            *)
RollbackToReleases(i) ==
  /\ ~isClosed
  /\ link = "up"
  /\ tx = "open"
  /\ Known(marks[i].id)
  /\ saves' = SubSeq(saves, 1, At(marks[i].id) - 1)
  /\ undone' = undone \cup Range(SubSeq(told, marks[i].at + 1, Len(told)))
  /\ told' = SubSeq(told, 1, marks[i].at)
  /\ marks' = SubSeq(marks, 1, i)
  /\ UNCHANGED <<client, session, tx, work, durable, promised, excused, spoiled, bounds>>

(* Mutant: the later savepoints survive.                                   *)
RollbackToKeepsSaves(i) ==
  /\ ~isClosed
  /\ link = "up"
  /\ Known(marks[i].id)
  /\ tx' = "open"
  /\ work' = SubSeq(work, 1, saves[At(marks[i].id)].at)
  /\ undone' = undone \cup Range(SubSeq(told, marks[i].at + 1, Len(told)))
  /\ told' = SubSeq(told, 1, marks[i].at)
  /\ marks' = SubSeq(marks, 1, i)
  /\ UNCHANGED <<client, session, saves, durable, promised, excused, spoiled, bounds>>

(* EConnection::rollback(savepoint) has no check of its own.  The          *)
(* application uses no savepoint that is later than one it went back to.   *)
RollbackTo(i) ==
  LET id   == marks[i].id
      done == link = "up" /\ Known(id)
      lost == Range(SubSeq(told, marks[i].at + 1, Len(told))) IN
  /\ ~isClosed
  /\ link \in {"up", "dbDown"}
  /\ dbtype = "freetds" => done
  /\ IF done
     THEN /\ tx' = "open"
          /\ work' = SubSeq(work, 1, saves[At(id)].at)
          /\ saves' = SubSeq(saves, 1, At(id))
     ELSE tx' = Aborted /\ UNCHANGED <<work, saves>>
  /\ undone' = undone \cup lost
  /\ excused' = IF done THEN excused ELSE excused \cup lost
  /\ told' = SubSeq(told, 1, marks[i].at)
  /\ marks' = SubSeq(marks, 1, i)
  /\ UNCHANGED <<client, session, durable, promised, spoiled, bounds>>

(* releaseSavepoint(ESavepoint) invalidates its own copy: the application  *)
(* still has a savepoint it can use.                                       *)
ReleaseSavepoint(i) ==
  /\ ~isClosed
  /\ link \in {"up", "dbDown"}
  /\ dbtype # "freetds"
  /\ IF link = "up" /\ tx = "open" /\ dbtype # "oracle" /\ Known(marks[i].id)
     THEN saves' = SubSeq(saves, 1, At(marks[i].id) - 1) /\ UNCHANGED tx
     ELSE tx' = Aborted /\ UNCHANGED saves
  /\ UNCHANGED <<client, session, work, durable, app, bounds>>

(* freetds sends "commit tran" with the savepoint's name: it commits the   *)
(* transaction, and the flag stays.                                        *)
ReleaseCommits(i) ==
  /\ ~isClosed
  /\ link = "up"
  /\ dbtype = "freetds"
  /\ tx = "open"
  /\ CommitTx("none")
  /\ released' = TRUE
  /\ excused' = excused \cup Range(told)
  /\ UNCHANGED <<client, dbtype, link, mAuto, told, marks, promised, undone, spoiled, bounds>>

-----------------------------------------------------------------------------
(* Failures                                                                *)

(* The plugin's connection to the database breaks.  An update whose reply  *)
(* is lost with it, or with the proxy, is one the application does not     *)
(* know of, and is left out.                                               *)
DatabaseLost ==
  /\ link = "up"
  /\ link' = "dbDown"
  /\ RollbackTx("none")
  /\ UNCHANGED <<client, dbtype, mAuto, released, app, bounds>>

(* The client's session with the proxy ends, and its EDatabase with it.    *)
ProxyLost ==
  /\ link \in {"up", "dbDown"}
  /\ link' = "proxyDown"
  /\ EndTx
  /\ UNCHANGED <<client, dbtype, mAuto, released, app, bounds>>

Next ==
  \/ Connect \/ ConnectFails \/ Close \/ CloseThrows
  \/ \E on \in BOOLEAN : SetAutoCommit(on)
  \/ Commit \/ Rollback \/ EndLost \/ Update \/ UpdateFails
  \/ SetSavepoint
  \/ \E i \in 1..Len(marks) : RollbackTo(i) \/ ReleaseSavepoint(i) \/ ReleaseCommits(i)
  \/ DatabaseLost \/ ProxyLost

Spec == Init /\ [][Next]_vars
-----------------------------------------------------------------------------
(* Properties                                                              *)

Writes == 1..MaxWrites
Savepoints == [id : 1..MaxSavepoints, at : 0..MaxWrites]

TypeOK ==
  /\ dbtype \in Plugins
  /\ isConnected \in BOOLEAN /\ isClosed \in BOOLEAN /\ autoCommit \in BOOLEAN
  /\ link \in {"none", "up", "dbDown", "proxyDown"}
  /\ mAuto \in BOOLEAN /\ released \in BOOLEAN
  /\ tx \in {"none", "open", "aborted"}
  /\ work \in Seq(Writes) /\ durable \in SUBSET Writes
  /\ saves \in Seq(Savepoints) /\ \A i \in 1..Len(saves) : saves[i].at <= Len(work)
  /\ told \in Seq(Writes) /\ marks \in Seq(Savepoints)
  /\ promised \in SUBSET Writes /\ undone \in SUBSET Writes
  /\ excused \in SUBSET Writes /\ spoiled \in SUBSET Writes
  /\ count \in 0..MaxWrites /\ connects \in 0..MaxConnects
  /\ lastId \in 0..MaxSavepoints

(* The plugin's flag always tells whether its database is in a             *)
(* transaction, through commits that fail half way and lost connections;   *)
(* but for what setAutoCommit(true) of Oracle left uncommitted, and for a  *)
(* transaction of freetds that releaseSavepoint() has ended.               *)
FlagMatchesDatabase ==
  link = "up" =>
    /\ ~mAuto => tx # "none" \/ released
    /\ mAuto => tx = "none" \/ dbtype = "oracle"

(* Client and plugin agree on the mode, but for an EConnection that was    *)
(* connected again after setAutoCommit(false): the new session is in       *)
(* auto-commit mode and the flag of the object is not reset.               *)
ModesAgree == link = "up" => autoCommit = mAuto \/ (mAuto /\ connects > 1)

(* While the transaction lives, nothing the application was told of is     *)
(* missing from it, after any mix of savepoints, partial rollbacks and     *)
(* failed statements, until the object connects again: then the updates    *)
(* of autoCommit = FALSE are committed one by one.  Nothing else is in it, *)
(* but for what Oracle's setAutoCommit(true) left open, and what           *)
(* rollback(savepoint) reported undone with a savepoint that was released, *)
(* or that the database never had: EConnection.hh:384-387 and 398-400 say  *)
(* this call throws, the failing SQL is reported as a success.  The        *)
(* updates stand in the order they were made.                              *)
WorkIsWhatWasTold ==
  link = "up" /\ tx = "open" =>
    /\ connects <= 1 => Range(told) \subseteq Range(work)
    /\ Range(work) \ excused = Range(told) \ excused
    /\ \A x, y \in 1..Len(work) : x < y => work[x] < work[y]

(* What a successful rollback, partial rollback or close undid is never    *)
(* committed, unless made while the modes disagreed or "undone" to a       *)
(* savepoint the database did not know, which rollback(savepoint) reports  *)
(* as a success.                                                           *)
UndoneStaysUndone == undone \cap durable \subseteq excused

(* Until an object connects again, and until FreeTDS releases a savepoint  *)
(* (run tx_release), nothing is committed before the application commits:  *)
(* no lost link, close() or failing commit() makes durable what was told   *)
(* without auto-commit.  An object that connects again with autoCommit =   *)
(* FALSE is outside: the new session commits its updates one by one,       *)
(* against EConnection.hh:261-263.                                         *)
UncommittedIsNotDurable ==
  connects <= 1 /\ ~released => Range(told) \cap durable = {}

(* What a call that succeeded, with its whole reply, said is permanent is  *)
(* committed: with MySQL and FreeTDS always; with PostgreSQL but for the   *)
(* commit of an aborted transaction (run tx_commit); with Oracle but for   *)
(* what setAutoCommit(true) ends without a COMMIT, where                   *)
(* EConnection.hh:280-282 says that the transaction is committed.          *)
PromisedIsDurable ==
  IF dbtype \in {"mysql", "freetds"}
  THEN promised \subseteq durable
  ELSE promised \subseteq durable \cup spoiled

(* EConnection.hh, commit(): "Makes all changes made since the previous    *)
(* commit/rollback permanent".                                             *)
CommitMakesPermanent == promised \subseteq durable

(* EConnection.hh, setAutoCommit(): transactions "are terminated by a call *)
(* to either the method commit or the method rollback": before one of      *)
(* these nothing the application did without auto-commit is committed.     *)
OnlyCommitCommits == Range(told) \cap durable = {}
=============================================================================
