-------------------------- MODULE TxSessionProofs --------------------------
(***************************************************************************)
(* Proofs about TxSession, for any subset of the plugins and any bounds.   *)
(* The inductive invariant Inv relates what the application was told to    *)
(* what the database has: in a transaction, at each savepoint, and after.  *)
(***************************************************************************)
EXTENDS TxSession, TLAPS

(* The database's transaction and the two modes.                           *)
Modes ==
  /\ tx = "none" => work = <<>> /\ saves = <<>>
  /\ tx = "aborted" => dbtype = "pgsql"
  /\ link # "up" => tx = "none"
  /\ released => dbtype = "freetds" /\ tx = "none" /\ ~mAuto
  /\ connects = 0 => autoCommit /\ isClosed /\ link = "none"
  /\ autoCommit => told = <<>>

(* Updates and savepoints are numbered: what is new is later.              *)
Numbers ==
  /\ \A w \in durable \cup undone \cup Range(told) \cup Range(work) : w <= count
  /\ Len(told) <= count /\ Len(work) <= count
  /\ \A i \in 1..Len(saves) : saves[i].id <= lastId
  /\ \A i \in 1..Len(marks) : marks[i].id <= lastId /\ marks[i].at <= Len(told)

(* A later savepoint has all that an earlier one has.                      *)
SavesGrow == \A i, j \in 1..Len(saves) : i <= j => saves[i].at <= saves[j].at
MarksGrow == \A i, j \in 1..Len(marks) : i <= j => marks[i].at <= marks[j].at

(* A savepoint that application and database know: what was told before it *)
(* is in the database's, and what was told after it is not.                *)
SavesMatch ==
  \A i \in 1..Len(marks), j \in 1..Len(saves) : marks[i].id = saves[j].id =>
    \A x \in 1..Len(told) :
      IF x <= marks[i].at
      THEN told[x] \in durable \/ \E y \in 1..saves[j].at : work[y] = told[x]
      ELSE \A y \in 1..saves[j].at : work[y] < told[x]

(* The database has what was told, as long as a commit can succeed.        *)
ToldIsThere ==
  link = "up" \/ (mAuto /\ dbtype # "oracle") => Range(told) \subseteq Range(work) \cup durable

(* What is told in the plugin's auto-commit mode was told while the modes  *)
(* disagreed.                                                              *)
ToldInAuto == mAuto => Range(told) \subseteq excused

UndoneIsNotThere == undone \cap Range(work) \subseteq excused

(* Nothing is in the transaction but what was told, in the order it was    *)
(* made.                                                                   *)
WorkIsTold ==
  /\ Range(work) \subseteq Range(told) \cup excused
  /\ \A x, y \in 1..Len(work) : x < y => work[x] < work[y]

(* What is committed before the application says so was made while the     *)
(* modes disagreed.                                                        *)
EarlyIsExcused == Range(told) \cap durable \subseteq excused

PromisedOrSpoiled == promised \subseteq durable \cup spoiled

Inv ==
  /\ TypeOK
  /\ Modes
  /\ Numbers
  /\ SavesGrow /\ MarksGrow /\ SavesMatch
  /\ ToldIsThere /\ ToldInAuto /\ UndoneIsNotThere
  /\ FlagMatchesDatabase
  /\ ModesAgree
  /\ UndoneStaysUndone
  /\ EarlyIsExcused
  /\ PromisedOrSpoiled

-----------------------------------------------------------------------------
(* Lemmas about sequences                                                  *)

LEMMA AppendRange ==
  ASSUME NEW S, NEW s \in Seq(S), NEW e \in S
  PROVE  /\ Append(s, e) \in Seq(S)
         /\ Len(Append(s, e)) = Len(s) + 1
         /\ \A i \in 1..Len(s) : Append(s, e)[i] = s[i]
         /\ Append(s, e)[Len(s) + 1] = e
         /\ Range(Append(s, e)) = Range(s) \cup {e}
<1>1. Append(s, e) \in Seq(S) /\ Len(Append(s, e)) = Len(s) + 1 /\ Len(s) \in Nat
  OBVIOUS
<1>2. \A i \in 1..Len(s) : Append(s, e)[i] = s[i]
  OBVIOUS
<1>3. Append(s, e)[Len(s) + 1] = e
  OBVIOUS
<1>4. 1..(Len(s) + 1) = 1..Len(s) \cup {Len(s) + 1}
  BY <1>1
<1>5. Range(Append(s, e)) = Range(s) \cup {e}
  BY <1>1, <1>2, <1>3, <1>4 DEF Range
<1> QED
  BY <1>1, <1>2, <1>3, <1>5

LEMMA RangeOf ==
  ASSUME NEW S, NEW s \in Seq(S)
  PROVE  /\ \A i \in 1..Len(s) : s[i] \in Range(s)
         /\ \A e \in Range(s) : e \in S /\ \E i \in 1..Len(s) : e = s[i]
BY DEF Range

(* The first n elements.                                                   *)
LEMMA Prefix ==
  ASSUME NEW S, NEW s \in Seq(S), NEW n \in 0..Len(s)
  PROVE  /\ SubSeq(s, 1, n) \in Seq(S)
         /\ Len(SubSeq(s, 1, n)) = n
         /\ \A i \in 1..n : i \in 1..Len(s) /\ SubSeq(s, 1, n)[i] = s[i]
         /\ \A i \in 1..n : s[i] \in Range(SubSeq(s, 1, n))
         /\ \A e \in Range(SubSeq(s, 1, n)) : e \in Range(s) /\ \E i \in 1..n : e = s[i]
<1> DEFINE first == SubSeq(s, 1, n)
<1>1. n \in Nat /\ Len(s) \in Nat
  OBVIOUS
<1>2. \A i \in 1..n : i \in 1..Len(s) /\ s[i] \in S
  BY <1>1
<1>3. first \in Seq(S) /\ Len(first) = n /\ \A i \in 1..n : first[i] = s[i]
  BY <1>1, <1>2
<1> HIDE DEF first
<1>4. \A i \in 1..n : s[i] \in Range(first)
  BY <1>3, RangeOf
<1>5. \A e \in Range(first) : \E i \in 1..n : e = s[i]
  BY <1>3, RangeOf
<1>6. \A i \in 1..n : s[i] \in Range(s)
  BY <1>2, RangeOf
<1> QED
  BY <1>2, <1>3, <1>4, <1>5, <1>6 DEF first

(* The elements behind the first n.                                        *)
LEMMA Suffix ==
  ASSUME NEW S, NEW s \in Seq(S), NEW n \in 0..Len(s)
  PROVE  \A e \in Range(SubSeq(s, n + 1, Len(s))) : \E i \in (n + 1)..Len(s) : e = s[i]
<1> DEFINE rest == SubSeq(s, n + 1, Len(s))
<1>1. n \in Nat /\ Len(s) \in Nat
  OBVIOUS
<1>2. /\ rest \in Seq(S) /\ Len(rest) = Len(s) - n
      /\ \A i \in 1..(Len(s) - n) : rest[i] = s[n + i]
  BY <1>1
<1>3. \A i \in 1..Len(rest) : n + i \in (n + 1)..Len(s) /\ rest[i] = s[n + i]
  BY <1>1, <1>2
<1> HIDE DEF rest
<1>4. \A e \in Range(rest) : \E i \in (n + 1)..Len(s) : e = s[i]
  BY <1>2, <1>3, RangeOf
<1> QED
  BY <1>4 DEF rest

LEMMA Empty ==
  /\ <<>> \in Seq(Writes) /\ <<>> \in Seq(Savepoints)
  /\ Len(<<>>) = 0 /\ Range(<<>>) = {}
BY DEF Range

-----------------------------------------------------------------------------
(* Each action keeps Inv                                                   *)

(* The elements of the two transactions.                                   *)
LEMMA Elements ==
  ASSUME TypeOK
  PROVE  /\ \A y \in 1..Len(work) : work[y] \in Range(work)
         /\ \A w \in Range(work) : \E y \in 1..Len(work) : w = work[y]
         /\ \A x \in 1..Len(told) : told[x] \in Range(told)
         /\ \A w \in Range(told) : \E x \in 1..Len(told) : w = told[x]
BY RangeOf DEF TypeOK

(* The kinds of the values, without the bounds.                            *)
LEMMA Kinds ==
  ASSUME TypeOK
  PROVE  /\ count \in Nat /\ connects \in Nat /\ lastId \in Nat /\ Writes \subseteq Nat
         /\ Len(work) \in Nat /\ Len(told) \in Nat /\ Len(saves) \in Nat /\ Len(marks) \in Nat
         /\ Range(work) \subseteq Writes /\ Range(told) \subseteq Writes
         /\ \A i \in 1..Len(saves) : saves[i].id \in Nat /\ saves[i].at \in Nat
         /\ \A i \in 1..Len(marks) : marks[i].id \in Nat /\ marks[i].at \in Nat
<1>1. count \in Nat /\ connects \in Nat /\ lastId \in Nat /\ Writes \subseteq Nat
  BY BoundsAssumption DEF TypeOK, Writes
<1>2. Len(work) \in Nat /\ Len(told) \in Nat /\ Len(saves) \in Nat /\ Len(marks) \in Nat
  BY DEF TypeOK
<1>3. Range(work) \subseteq Writes /\ Range(told) \subseteq Writes
  BY RangeOf DEF TypeOK
<1>4. \A i \in 1..Len(saves) : saves[i] \in Savepoints
  BY DEF TypeOK
<1>5. \A i \in 1..Len(marks) : marks[i] \in Savepoints
  BY DEF TypeOK
<1> QED
  BY <1>1, <1>2, <1>3, <1>4, <1>5, BoundsAssumption DEF Savepoints

(* The savepoint a name stands for.                                        *)
LEMMA SavepointAt ==
  ASSUME TypeOK, NEW id, Known(id)
  PROVE  At(id) \in 1..Len(saves) /\ saves[At(id)].id = id
BY DEF Known, At

(* The sequences of TypeOK.                                                *)
SequencesTyped ==
  /\ work \in Seq(Writes) /\ saves \in Seq(Savepoints)
  /\ told \in Seq(Writes) /\ marks \in Seq(Savepoints)
  /\ \A k \in 1..Len(saves) : saves[k].at <= Len(work)

(* A step that keeps each side's sequences, or empties them.               *)
LEMMA KeptOrEmpty ==
  ASSUME TypeOK,
         UNCHANGED <<work, saves>> \/ (work' = <<>> /\ saves' = <<>>),
         UNCHANGED <<told, marks>> \/ (told' = <<>> /\ marks' = <<>>)
  PROVE  SequencesTyped'
<1>1. /\ work' \in Seq(Writes) /\ saves' \in Seq(Savepoints)
      /\ told' \in Seq(Writes) /\ marks' \in Seq(Savepoints)
  BY Empty DEF TypeOK, Writes, Savepoints
<1>2. CASE UNCHANGED <<work, saves>>
  BY <1>1, <1>2 DEF TypeOK, SequencesTyped, Writes, Savepoints
<1>3. CASE saves' = <<>>
  <2>1. Len(saves') = 0
    BY <1>3, Empty
  <2> QED
    BY <1>1, <2>1 DEF SequencesTyped, Writes, Savepoints
<1> QED
  BY <1>2, <1>3

LEMMA SavesMatchKept ==
  ASSUME TypeOK, SavesMatch, durable \subseteq durable',
         UNCHANGED <<work, saves>> \/ (work' = <<>> /\ saves' = <<>>),
         UNCHANGED <<told, marks>> \/ (told' = <<>> /\ marks' = <<>>)
  PROVE  SavesMatch'
<1>1. CASE saves' = <<>> \/ marks' = <<>>
  <2>1. Len(saves') = 0 \/ Len(marks') = 0
    BY <1>1, Empty
  <2>2. Len(saves') \in Nat /\ Len(marks') \in Nat
    BY KeptOrEmpty DEF SequencesTyped
  <2> QED
    BY <2>1, <2>2 DEF SavesMatch
<1>2. CASE UNCHANGED <<work, saves, told, marks>>
  BY <1>2 DEF SavesMatch
<1> QED
  BY <1>1, <1>2

(* A new session: its database has no transaction, and the application's   *)
(* begins anew.                                                            *)
LEMMA ConnectKeeps ==
  ASSUME Inv, Connect
  PROVE  Inv'
<1> USE Kinds, Empty DEF Inv, Connect, RollbackTx, NewTx, EndTold
<1>1. TypeOK'
  <2>1. SequencesTyped'
    BY KeptOrEmpty
  <2>2. durable' \in SUBSET Writes /\ undone' \in SUBSET Writes
    BY DEF TypeOK
  <2>3. connects' \in 0..MaxConnects
    BY BoundsAssumption DEF TypeOK
  <2>4. /\ dbtype' \in Plugins /\ isConnected' \in BOOLEAN /\ autoCommit' \in BOOLEAN
        /\ isClosed' \in BOOLEAN /\ mAuto' \in BOOLEAN /\ released' \in BOOLEAN
        /\ promised' \in SUBSET Writes /\ excused' \in SUBSET Writes
        /\ spoiled' \in SUBSET Writes
        /\ count' \in 0..MaxWrites /\ lastId' \in 0..MaxSavepoints
    BY DEF TypeOK
  <2>5. link' \in {"none", "up", "dbDown", "proxyDown"} /\ tx' \in {"none", "open", "aborted"}
    BY DEF TypeOK
  <2> QED
    BY <2>1, <2>2, <2>3, <2>4, <2>5 DEF TypeOK, SequencesTyped, Writes, Savepoints
<1>2. Modes' /\ FlagMatchesDatabase' /\ ModesAgree'
  <2>1. Modes' /\ FlagMatchesDatabase'
    BY DEF Modes, FlagMatchesDatabase, TypeOK
  <2>2. ~autoCommit => connects' > 1
    BY DEF Modes, TypeOK
  <2> QED
    BY <2>1, <2>2, Zenon DEF ModesAgree, TypeOK
<1>3. Numbers'
  BY SMTT(20) DEF Numbers, Modes
<1>4. SavesGrow' /\ MarksGrow' /\ SavesMatch'
  BY SMTT(20) DEF SavesGrow, MarksGrow, SavesMatch
<1>5. ToldIsThere' /\ ToldInAuto' /\ UndoneIsNotThere'
  BY SMTT(20) DEF ToldIsThere, ToldInAuto, UndoneIsNotThere, Modes, FlagMatchesDatabase
<1>6. UndoneStaysUndone' /\ EarlyIsExcused' /\ PromisedOrSpoiled'
  BY SMTT(20) DEF UndoneStaysUndone, EarlyIsExcused, PromisedOrSpoiled, Modes
<1> QED
  BY <1>1, <1>2, <1>3, <1>4, <1>5, <1>6

(* The end of a session undoes what was told, but for Oracle's, which was  *)
(* told while the modes disagreed.                                         *)
LEMMA CloseKeeps ==
  ASSUME Inv, Close
  PROVE  Inv'
<1> USE Kinds, Empty
       DEF Inv, Close, EndTx, CommitTx, RollbackTx, NewTx, CommitsOnSuccess,
           EndTold, ToldUndone, bounds
<1>1. TypeOK'
  <2>1. SequencesTyped'
    BY KeptOrEmpty
  <2>2. durable' \in SUBSET Writes /\ undone' \in SUBSET Writes
    BY DEF TypeOK
  <2>3. connects' \in 0..MaxConnects
    BY BoundsAssumption DEF TypeOK
  <2>4. /\ dbtype' \in Plugins /\ isConnected' \in BOOLEAN /\ autoCommit' \in BOOLEAN
        /\ isClosed' \in BOOLEAN /\ mAuto' \in BOOLEAN /\ released' \in BOOLEAN
        /\ promised' \in SUBSET Writes /\ excused' \in SUBSET Writes
        /\ spoiled' \in SUBSET Writes
        /\ count' \in 0..MaxWrites /\ lastId' \in 0..MaxSavepoints
    BY DEF TypeOK
  <2>5. link' \in {"none", "up", "dbDown", "proxyDown"} /\ tx' \in {"none", "open", "aborted"}
    BY DEF TypeOK
  <2> QED
    BY <2>1, <2>2, <2>3, <2>4, <2>5 DEF TypeOK, SequencesTyped, Writes, Savepoints
<1>2. Modes' /\ FlagMatchesDatabase' /\ ModesAgree'
  BY SMTT(20) DEF Modes, FlagMatchesDatabase, ModesAgree, TypeOK
<1>3. Numbers'
  BY SMTT(20) DEF Numbers, Modes
<1>4. SavesGrow' /\ MarksGrow' /\ SavesMatch'
  BY SMTT(20) DEF SavesGrow, MarksGrow, SavesMatch
<1>5. ToldIsThere' /\ ToldInAuto' /\ UndoneIsNotThere'
  BY SMTT(20) DEF ToldIsThere, ToldInAuto, UndoneIsNotThere, Modes, FlagMatchesDatabase
<1>6. UndoneStaysUndone' /\ EarlyIsExcused' /\ PromisedOrSpoiled'
  BY SMTT(20) DEF UndoneStaysUndone, EarlyIsExcused, PromisedOrSpoiled, Modes, ToldInAuto, UndoneIsNotThere
<1> QED
  BY <1>1, <1>2, <1>3, <1>4, <1>5, <1>6

(* A connect() that fails leaves all but isClosed().                       *)
LEMMA ConnectFailsKeeps ==
  ASSUME Inv, ConnectFails
  PROVE  Inv'
<1> USE Kinds DEF Inv, ConnectFails, session, db, app
<1>1. TypeOK'
  <2>1. connects' \in 0..MaxConnects
    BY BoundsAssumption DEF TypeOK
  <2> QED
    BY <2>1 DEF TypeOK
<1>2. Modes' /\ FlagMatchesDatabase'
  BY DEF Modes, FlagMatchesDatabase
<1>3. ModesAgree'
  BY DEF ModesAgree
<1>4. Numbers'
  BY DEF Numbers
<1>5. SavesGrow' /\ MarksGrow' /\ SavesMatch'
  BY DEF SavesGrow, MarksGrow, SavesMatch
<1>6. ToldIsThere' /\ ToldInAuto' /\ UndoneIsNotThere'
  BY DEF ToldIsThere, ToldInAuto, UndoneIsNotThere
<1>7. UndoneStaysUndone' /\ EarlyIsExcused' /\ PromisedOrSpoiled'
  BY DEF UndoneStaysUndone, EarlyIsExcused, PromisedOrSpoiled
<1> QED
  BY <1>1, <1>2, <1>3, <1>4, <1>5, <1>6, <1>7

LEMMA CloseThrowsKeeps ==
  ASSUME Inv, CloseThrows
  PROVE  Inv'
<1> USE Kinds, Empty DEF Inv, CloseThrows, EndTold, ToldUndone, session, db, bounds
<1>1. TypeOK'
  BY SMTT(20) DEF TypeOK
<1>2. Modes' /\ FlagMatchesDatabase' /\ ModesAgree'
  BY SMTT(20) DEF Modes, FlagMatchesDatabase, ModesAgree, TypeOK
<1>3. Numbers'
  BY SMTT(20) DEF Numbers, Modes
<1>4. SavesGrow' /\ MarksGrow' /\ SavesMatch'
  BY SMTT(20) DEF SavesGrow, MarksGrow, SavesMatch
<1>5. ToldIsThere' /\ ToldInAuto' /\ UndoneIsNotThere'
  BY SMTT(20) DEF ToldIsThere, ToldInAuto, UndoneIsNotThere, Modes, FlagMatchesDatabase
<1>6. UndoneStaysUndone' /\ EarlyIsExcused' /\ PromisedOrSpoiled'
  BY SMTT(20) DEF UndoneStaysUndone, EarlyIsExcused, PromisedOrSpoiled, Modes
<1> QED
  BY <1>1, <1>2, <1>3, <1>4, <1>5, <1>6

(* The modes agree again; what was told is committed, or counted as told   *)
(* too early.                                                              *)
LEMMA SetAutoCommitKeeps ==
  ASSUME Inv, NEW on \in BOOLEAN, SetAutoCommit(on)
  PROVE  Inv'
<1> USE Kinds, Empty
       DEF Inv, SetAutoCommit, CanSwitch, CanEnd, SwitchTx, ToldSwitched,
           ToldTooEarly, CommitTx, NewTx, EndTold, ToldCommitted, db, app,
           bounds
<1>1. TypeOK'
  <2>1. SequencesTyped'
    BY KeptOrEmpty
  <2>2. durable' \in SUBSET Writes /\ undone' \in SUBSET Writes
    BY DEF TypeOK
  <2>3. connects' \in 0..MaxConnects
    BY BoundsAssumption DEF TypeOK
  <2>4. /\ dbtype' \in Plugins /\ isConnected' \in BOOLEAN /\ autoCommit' \in BOOLEAN
        /\ isClosed' \in BOOLEAN /\ mAuto' \in BOOLEAN /\ released' \in BOOLEAN
        /\ promised' \in SUBSET Writes /\ excused' \in SUBSET Writes
        /\ spoiled' \in SUBSET Writes
        /\ count' \in 0..MaxWrites /\ lastId' \in 0..MaxSavepoints
    BY DEF TypeOK
  <2>5. link' \in {"none", "up", "dbDown", "proxyDown"} /\ tx' \in {"none", "open", "aborted"}
    BY DEF TypeOK
  <2> QED
    BY <2>1, <2>2, <2>3, <2>4, <2>5 DEF TypeOK, SequencesTyped, Writes, Savepoints
<1>2. Modes' /\ FlagMatchesDatabase' /\ ModesAgree'
  BY SMTT(20) DEF Modes, FlagMatchesDatabase, ModesAgree, TypeOK
<1>3. Numbers'
  BY SMTT(20) DEF Numbers, Modes
<1>4. SavesGrow' /\ MarksGrow' /\ SavesMatch'
  <2>1. SavesGrow' /\ MarksGrow'
    BY SMTT(20) DEF SavesGrow, MarksGrow, Modes
  <2>2. SavesMatch'
    BY SavesMatchKept
  <2> QED
    BY <2>1, <2>2
<1>5. ToldIsThere' /\ ToldInAuto' /\ UndoneIsNotThere'
  BY SMTT(20) DEF ToldIsThere, ToldInAuto, UndoneIsNotThere, Modes, FlagMatchesDatabase, TypeOK
<1>6. UndoneStaysUndone' /\ EarlyIsExcused' /\ PromisedOrSpoiled'
  BY SMTT(20) DEF UndoneStaysUndone, EarlyIsExcused, PromisedOrSpoiled, Modes, ToldIsThere, UndoneIsNotThere, FlagMatchesDatabase, TypeOK
<1> QED
  BY <1>1, <1>2, <1>3, <1>4, <1>5, <1>6

(* What was told is in the database's transaction or already durable.      *)
LEMMA CommitKeeps ==
  ASSUME Inv, Commit
  PROVE  Inv'
<1> USE Kinds, Empty
       DEF Inv, Commit, CommitTx, NewTx, ToldCommitted, EndTold, client,
           session, bounds
<1>1. TypeOK'
  BY SMTT(20) DEF TypeOK
<1>2. Modes' /\ FlagMatchesDatabase' /\ ModesAgree'
  BY SMTT(20) DEF Modes, FlagMatchesDatabase, ModesAgree, CanEnd
<1>3. Numbers'
  BY SMTT(20) DEF Numbers, Modes
<1>4. SavesGrow' /\ MarksGrow' /\ SavesMatch'
  BY SMTT(20) DEF SavesGrow, MarksGrow, SavesMatch
<1>5. ToldIsThere' /\ ToldInAuto' /\ UndoneIsNotThere'
  BY SMTT(20) DEF ToldIsThere, ToldInAuto, UndoneIsNotThere, Modes, FlagMatchesDatabase
<1>6. UndoneStaysUndone' /\ EarlyIsExcused' /\ PromisedOrSpoiled'
  BY SMTT(20) DEF UndoneStaysUndone, EarlyIsExcused, PromisedOrSpoiled, Modes, ToldIsThere, UndoneIsNotThere, FlagMatchesDatabase, TypeOK
<1> QED
  BY <1>1, <1>2, <1>3, <1>4, <1>5, <1>6

LEMMA RollbackKeeps ==
  ASSUME Inv, Rollback
  PROVE  Inv'
<1> USE Kinds, Empty
       DEF Inv, Rollback, RollbackTx, NewTx, ToldUndone, EndTold, client,
           session, bounds
<1>1. TypeOK'
  BY SMTT(20) DEF TypeOK
<1>2. Modes' /\ FlagMatchesDatabase' /\ ModesAgree'
  BY SMTT(20) DEF Modes, FlagMatchesDatabase, ModesAgree, CanEnd, TypeOK
<1>3. Numbers'
  BY SMTT(20) DEF Numbers, Modes
<1>4. SavesGrow' /\ MarksGrow' /\ SavesMatch'
  BY SMTT(20) DEF SavesGrow, MarksGrow, SavesMatch
<1>5. ToldIsThere' /\ ToldInAuto' /\ UndoneIsNotThere'
  BY SMTT(20) DEF ToldIsThere, ToldInAuto, UndoneIsNotThere, Modes, FlagMatchesDatabase
<1>6. UndoneStaysUndone' /\ EarlyIsExcused' /\ PromisedOrSpoiled'
  BY SMTT(20) DEF UndoneStaysUndone, EarlyIsExcused, PromisedOrSpoiled, Modes
<1> QED
  BY <1>1, <1>2, <1>3, <1>4, <1>5, <1>6

(* The database goes away: what was told is nobody's any more.             *)
LEMMA EndLostKeeps ==
  ASSUME Inv, EndLost
  PROVE  Inv'
<1> USE Kinds, Empty
       DEF Inv, EndLost, CommitTx, RollbackTx, NewTx, EndTold, client, bounds
<1>1. TypeOK'
  <2>1. SequencesTyped'
    BY KeptOrEmpty
  <2>2. durable' \in SUBSET Writes /\ undone' \in SUBSET Writes
    BY DEF TypeOK
  <2>3. connects' \in 0..MaxConnects
    BY BoundsAssumption DEF TypeOK
  <2>4. /\ dbtype' \in Plugins /\ isConnected' \in BOOLEAN /\ autoCommit' \in BOOLEAN
        /\ isClosed' \in BOOLEAN /\ mAuto' \in BOOLEAN /\ released' \in BOOLEAN
        /\ promised' \in SUBSET Writes /\ excused' \in SUBSET Writes
        /\ spoiled' \in SUBSET Writes
        /\ count' \in 0..MaxWrites /\ lastId' \in 0..MaxSavepoints
    BY DEF TypeOK
  <2>5. link' \in {"none", "up", "dbDown", "proxyDown"} /\ tx' \in {"none", "open", "aborted"}
    BY DEF TypeOK
  <2> QED
    BY <2>1, <2>2, <2>3, <2>4, <2>5 DEF TypeOK, SequencesTyped, Writes, Savepoints
<1>2. Modes' /\ FlagMatchesDatabase' /\ ModesAgree'
  <2>1. link' # "up" /\ link' # "none" /\ tx' = "none" /\ work' = <<>> /\ saves' = <<>> /\ told' = <<>>
    OBVIOUS
  <2>2. released' => ~mAuto'
    <3>1. released => dbtype = "freetds" /\ tx = "none"
      BY DEF Modes
    <3>2. released' = released /\ released \in BOOLEAN
      BY DEF session, TypeOK
    <3>3. mAuto' => dbtype \in {"pgsql", "freetds"} /\ CanEnd
      OBVIOUS
    <3> QED
      BY <3>1, <3>2, <3>3 DEF CanEnd
  <2>3. UNCHANGED <<connects, dbtype, released, autoCommit, isClosed>> /\ link = "up"
    OBVIOUS
  <2> QED
    BY <2>1, <2>2, <2>3 DEF Modes, FlagMatchesDatabase, ModesAgree
<1>3. Numbers'
  BY SMTT(20) DEF Numbers, Modes
<1>4. SavesGrow' /\ MarksGrow' /\ SavesMatch'
  BY SMTT(20) DEF SavesGrow, MarksGrow, SavesMatch
<1>5. ToldIsThere' /\ ToldInAuto' /\ UndoneIsNotThere'
  BY SMTT(20) DEF ToldIsThere, ToldInAuto, UndoneIsNotThere, Modes, FlagMatchesDatabase
<1>6. UndoneStaysUndone' /\ EarlyIsExcused' /\ PromisedOrSpoiled'
  BY SMTT(20) DEF UndoneStaysUndone, EarlyIsExcused, PromisedOrSpoiled, Modes, UndoneIsNotThere
<1> QED
  BY <1>1, <1>2, <1>3, <1>4, <1>5, <1>6

(* A statement that fails, and freetds's release of a savepoint.           *)
LEMMA UpdateFailsKeeps ==
  ASSUME Inv, UpdateFails
  PROVE  Inv'
<1> USE Kinds, Empty DEF Inv, UpdateFails, Aborted, client, session, app, bounds
<1>1. TypeOK'
  BY SMTT(20) DEF TypeOK
<1>2. Modes' /\ FlagMatchesDatabase' /\ ModesAgree'
  BY SMTT(20) DEF Modes, FlagMatchesDatabase, ModesAgree, TypeOK
<1>3. Numbers'
  BY SMTT(20) DEF Numbers, Modes
<1>4. SavesGrow' /\ MarksGrow' /\ SavesMatch'
  BY SMTT(20) DEF SavesGrow, MarksGrow, SavesMatch
<1>5. ToldIsThere' /\ ToldInAuto' /\ UndoneIsNotThere'
  BY SMTT(20) DEF ToldIsThere, ToldInAuto, UndoneIsNotThere, Modes, FlagMatchesDatabase
<1>6. UndoneStaysUndone' /\ EarlyIsExcused' /\ PromisedOrSpoiled'
  BY SMTT(20) DEF UndoneStaysUndone, EarlyIsExcused, PromisedOrSpoiled, Modes
<1> QED
  BY <1>1, <1>2, <1>3, <1>4, <1>5, <1>6

LEMMA ReleaseCommitsKeeps ==
  ASSUME Inv, NEW i \in 1..Len(marks), ReleaseCommits(i)
  PROVE  Inv'
<1> USE Kinds, Empty DEF Inv, ReleaseCommits, CommitTx, NewTx, client, bounds
<1>1. TypeOK'
  BY SMTT(20) DEF TypeOK
<1>2. Modes' /\ FlagMatchesDatabase' /\ ModesAgree'
  BY SMTT(20) DEF Modes, FlagMatchesDatabase, ModesAgree, TypeOK
<1>3. Numbers'
  BY SMTT(20) DEF Numbers, Modes
<1>4. SavesGrow' /\ MarksGrow' /\ SavesMatch'
  BY SMTT(20) DEF SavesGrow, MarksGrow, SavesMatch
<1>5. ToldIsThere' /\ ToldInAuto' /\ UndoneIsNotThere'
  BY SMTT(20) DEF ToldIsThere, ToldInAuto, UndoneIsNotThere, Modes, FlagMatchesDatabase
<1>6. UndoneStaysUndone' /\ EarlyIsExcused' /\ PromisedOrSpoiled'
  BY SMTT(20) DEF UndoneStaysUndone, EarlyIsExcused, PromisedOrSpoiled, Modes, UndoneIsNotThere, ToldIsThere
<1> QED
  BY <1>1, <1>2, <1>3, <1>4, <1>5, <1>6

(* A transaction that is dropped leaves what was told uncommitted.         *)
LEMMA DatabaseLostKeeps ==
  ASSUME Inv, DatabaseLost
  PROVE  Inv'
<1> USE Kinds, Empty DEF Inv, DatabaseLost, RollbackTx, NewTx, client, app, bounds
<1>1. TypeOK'
  BY SMTT(20) DEF TypeOK
<1>2. Modes' /\ FlagMatchesDatabase' /\ ModesAgree'
  BY SMTT(20) DEF Modes, FlagMatchesDatabase, ModesAgree, TypeOK
<1>3. Numbers'
  BY SMTT(20) DEF Numbers, Modes
<1>4. SavesGrow' /\ MarksGrow' /\ SavesMatch'
  BY SMTT(20) DEF SavesGrow, MarksGrow, SavesMatch
<1>5. ToldIsThere' /\ ToldInAuto' /\ UndoneIsNotThere'
  BY SMTT(20) DEF ToldIsThere, ToldInAuto, UndoneIsNotThere, Modes, FlagMatchesDatabase
<1>6. UndoneStaysUndone' /\ EarlyIsExcused' /\ PromisedOrSpoiled'
  BY SMTT(20) DEF UndoneStaysUndone, EarlyIsExcused, PromisedOrSpoiled, Modes
<1> QED
  BY <1>1, <1>2, <1>3, <1>4, <1>5, <1>6

LEMMA ProxyLostKeeps ==
  ASSUME Inv, ProxyLost
  PROVE  Inv'
<1> USE Kinds, Empty
       DEF Inv, ProxyLost, EndTx, CommitTx, RollbackTx, NewTx, CommitsOnSuccess,
           client, app, bounds
<1>1. TypeOK'
  <2>1. SequencesTyped'
    BY KeptOrEmpty
  <2>2. durable' \in SUBSET Writes /\ undone' \in SUBSET Writes
    BY DEF TypeOK
  <2>3. connects' \in 0..MaxConnects
    BY BoundsAssumption DEF TypeOK
  <2>4. /\ dbtype' \in Plugins /\ isConnected' \in BOOLEAN /\ autoCommit' \in BOOLEAN
        /\ isClosed' \in BOOLEAN /\ mAuto' \in BOOLEAN /\ released' \in BOOLEAN
        /\ promised' \in SUBSET Writes /\ excused' \in SUBSET Writes
        /\ spoiled' \in SUBSET Writes
        /\ count' \in 0..MaxWrites /\ lastId' \in 0..MaxSavepoints
    BY DEF TypeOK
  <2>5. link' \in {"none", "up", "dbDown", "proxyDown"} /\ tx' \in {"none", "open", "aborted"}
    BY DEF TypeOK
  <2> QED
    BY <2>1, <2>2, <2>3, <2>4, <2>5 DEF TypeOK, SequencesTyped, Writes, Savepoints
<1>2. Modes' /\ FlagMatchesDatabase' /\ ModesAgree'
  BY SMTT(20) DEF Modes, FlagMatchesDatabase, ModesAgree, TypeOK
<1>3. Numbers'
  BY SMTT(20) DEF Numbers, Modes
<1>4. SavesGrow' /\ MarksGrow' /\ SavesMatch'
  <2>1. durable \subseteq durable'
    OBVIOUS
  <2>2. SavesMatch'
    BY <2>1, SavesMatchKept
  <2>3. UNCHANGED marks
    OBVIOUS
  <2>4. UNCHANGED saves \/ saves' = <<>>
    OBVIOUS
  <2> QED
    BY <2>2, <2>3, <2>4 DEF SavesGrow, MarksGrow
<1>5. ToldIsThere' /\ ToldInAuto' /\ UndoneIsNotThere'
  BY SMTT(20) DEF ToldIsThere, ToldInAuto, UndoneIsNotThere, Modes, FlagMatchesDatabase
<1>6. UndoneStaysUndone' /\ EarlyIsExcused' /\ PromisedOrSpoiled'
  BY SMTT(20) DEF UndoneStaysUndone, EarlyIsExcused, PromisedOrSpoiled, Modes, ToldInAuto, UndoneIsNotThere
<1> QED
  BY <1>1, <1>2, <1>3, <1>4, <1>5, <1>6

(* Update number w, by the three things the database may do with it.       *)
LEMMA UpdateKeeps ==
  ASSUME Inv, Update
  PROVE  Inv'
<1> DEFINE w == count + 1
<1> USE DEF Inv
<1>1. w \in Writes /\ w \in Nat /\ count' = w /\ ExecuteUpdate(w) /\ ToldUpdate(w)
  BY BoundsAssumption DEF Update, TypeOK, Writes
<1>2. /\ w \notin durable \cup undone \cup Range(told) \cup Range(work)
      /\ UNCHANGED <<client, session, connects, lastId, marks, undone, spoiled>>
      /\ link = "up" /\ ~isClosed /\ count < MaxWrites
  BY <1>1 DEF Numbers, TypeOK, ToldUpdate, Update, Writes
<1> HIDE DEF w
<1>3. /\ told' \in Seq(Writes) /\ Len(told') \in Nat /\ Len(told') \in Len(told)..(Len(told) + 1)
      /\ \A x \in 1..Len(told) : told'[x] = told[x]
      /\ \A x \in (Len(told) + 1)..Len(told') : told'[x] = w
      /\ Range(told') = Range(told) \/ (~autoCommit /\ Range(told') = Range(told) \cup {w})
      /\ ~autoCommit => w \in Range(told')
  <2>1. CASE autoCommit
    BY <1>1, <2>1 DEF ToldUpdate, TypeOK
  <2>2. CASE ~autoCommit
    <3>1. told \in Seq(Writes) /\ told' = Append(told, w)
      BY <1>1, <2>2 DEF TypeOK, ToldUpdate
    <3>2. /\ told' \in Seq(Writes) /\ Len(told') = Len(told) + 1
          /\ \A x \in 1..Len(told) : told'[x] = told[x]
          /\ told'[Len(told) + 1] = w
          /\ Range(told') = Range(told) \cup {w}
      BY <1>1, <3>1, AppendRange
    <3> QED
      BY <2>2, <3>2
  <2> QED
    BY <2>1, <2>2
<1>4. /\ promised' = IF autoCommit THEN promised \cup {w} ELSE promised
      /\ excused' = IF Disagree THEN excused \cup {w} ELSE excused
  BY <1>1 DEF ToldUpdate
<1>5. \/ /\ tx = "none" /\ tx' = tx /\ work' = work /\ saves' = saves
         /\ durable' = durable \cup {w}
      \/ /\ tx = "open" /\ tx' = tx /\ saves' = saves /\ durable' = durable
         /\ ~CommitsOnSuccess
         /\ work' \in Seq(Writes) /\ Len(work') = Len(work) + 1
         /\ \A y \in 1..Len(work) : work'[y] = work[y]
         /\ Range(work') = Range(work) \cup {w}
      \/ /\ tx = "open" /\ tx' = "none" /\ CommitsOnSuccess
         /\ durable' = durable \cup Range(work) \cup {w}
         /\ work' = <<>> /\ saves' = <<>>
  <2>1. work \in Seq(Writes)
    BY DEF TypeOK
  <2>2. /\ Append(work, w) \in Seq(Writes) /\ Len(Append(work, w)) = Len(work) + 1
        /\ \A y \in 1..Len(work) : Append(work, w)[y] = work[y]
        /\ Range(Append(work, w)) = Range(work) \cup {w}
    BY <1>1, <2>1, AppendRange
  <2>3. CASE work' = Append(work, w) /\ tx = "open" /\ ~CommitsOnSuccess
             /\ UNCHANGED <<tx, saves, durable>>
    BY <2>2, <2>3
  <2> QED
    BY <1>1, <2>3 DEF ExecuteUpdate, NewTx
<1>6. \/ saves' = <<>> /\ work' = <<>> /\ Len(saves') = 0 /\ Len(work') = 0 /\ Range(work') = {}
      \/ /\ saves' = saves /\ Len(work) <= Len(work') /\ Len(work') \in Nat
         /\ \A y \in 1..Len(work) : work'[y] = work[y]
         /\ Range(work') \subseteq Range(work) \cup {w}
  BY <1>5, Empty
<1>7. TypeOK'
  <2>1. work' \in Seq(Writes) /\ saves' \in Seq(Savepoints)
    BY <1>5, Empty DEF TypeOK
  <2>2. \A k \in 1..Len(saves') : saves'[k].at <= Len(work')
    BY Kinds, <1>6 DEF TypeOK
  <2>3. durable' \in SUBSET Writes /\ promised' \in SUBSET Writes /\ excused' \in SUBSET Writes
    BY Kinds, <1>1, <1>4, <1>5 DEF TypeOK
  <2>4. count' \in 0..MaxWrites /\ tx' \in {"none", "open", "aborted"}
    BY <1>1, <1>2, <1>5, BoundsAssumption DEF TypeOK, w
  <2> QED
    BY <1>2, <1>3, <2>1, <2>2, <2>3, <2>4 DEF TypeOK, client, session, Writes, Savepoints
<1>8. Modes' /\ FlagMatchesDatabase' /\ ModesAgree'
  <2>1. autoCommit => told' = told
    BY <1>1 DEF ToldUpdate
  <2>2. tx' = "none" => work' = <<>> /\ saves' = <<>>
    BY <1>5 DEF Modes
  <2>3. tx' = tx \/ (tx' = "none" /\ mAuto)
    BY <1>5 DEF CommitsOnSuccess
  <2>4. Modes'
    BY <1>2, <2>1, <2>2, <2>3 DEF Modes, client, session
  <2>5. FlagMatchesDatabase' /\ ModesAgree'
    BY <1>2, <2>3 DEF FlagMatchesDatabase, ModesAgree, client, session
  <2> QED
    BY <2>4, <2>5
<1>9. Numbers'
  <2>1. \A v \in durable \cup undone \cup Range(told) \cup Range(work) : v \in Nat /\ v <= w
    BY Kinds, <1>1 DEF Numbers, TypeOK, w
  <2>2. \A v \in durable' \cup undone' \cup Range(told') \cup Range(work') : v <= count'
    BY <1>1, <1>2, <1>3, <1>5, <1>6, <2>1
  <2>3. \A k \in 1..Len(saves') : saves'[k].id <= lastId'
    BY <1>2, <1>6 DEF Numbers
  <2>4. Len(told') <= count' /\ Len(work') <= count'
    <3>1. /\ Len(told) <= count /\ Len(work) <= count /\ count' = count + 1
          /\ Len(told) \in Nat /\ Len(work) \in Nat /\ count \in Nat
      BY Kinds, <1>1 DEF Numbers, w
    <3>2. Len(work') = Len(work) \/ Len(work') = Len(work) + 1 \/ Len(work') = 0
      BY <1>5, <1>6
    <3> QED
      BY <1>3, <3>1, <3>2
  <2>5. \A k \in 1..Len(marks) : marks[k].id <= lastId /\ marks[k].at <= Len(told')
    BY Kinds, <1>3 DEF Numbers
  <2> QED
    BY <1>2, <2>2, <2>3, <2>4, <2>5 DEF Numbers
<1>10. SavesGrow' /\ MarksGrow' /\ SavesMatch'
  <2>1. MarksGrow'
    BY <1>2 DEF MarksGrow
  <2>2. CASE Len(saves') = 0
    <3>1. 1..Len(saves') = {}
      BY <2>2
    <3> QED
      BY <2>1, <3>1 DEF SavesMatch, SavesGrow
  <2>3. ASSUME saves' = saves, Len(work) <= Len(work'),
               \A y \in 1..Len(work) : work'[y] = work[y],
               NEW i \in 1..Len(marks), NEW j \in 1..Len(saves), marks[i].id = saves[j].id,
               NEW x \in 1..Len(told')
        PROVE  IF x <= marks[i].at
               THEN told'[x] \in durable' \/ \E y \in 1..saves[j].at : work'[y] = told'[x]
               ELSE \A y \in 1..saves[j].at : work'[y] < told'[x]
    <3>1. /\ saves[j].at \in Nat /\ saves[j].at <= Len(work)
          /\ marks[i].at \in Nat /\ marks[i].at <= Len(told)
      BY Kinds DEF TypeOK, Numbers
    <3>2. \A y \in 1..saves[j].at : work'[y] = work[y] /\ work[y] \in Range(work)
      <4>1. \A y \in 1..saves[j].at : y \in 1..Len(work)
        BY <3>1
      <4>2. \A y \in 1..Len(work) : work[y] \in Range(work)
        BY Elements
      <4> QED
        BY <2>3, <4>1, <4>2
    <3>3. \A y \in 1..saves[j].at : work[y] \in Nat /\ work[y] < w
      <4>1. \A v \in Range(work) : v \in Nat /\ v <= count
        BY Kinds DEF Numbers
      <4>2. w = count + 1 /\ count \in Nat
        BY Kinds DEF w
      <4> QED
        BY <3>2, <4>1, <4>2
    <3>4. durable \subseteq durable'
      BY <1>5
    <3>5. CASE x <= Len(told)
      <4>1. x \in 1..Len(told) /\ told'[x] = told[x]
        BY <1>3, <3>5
      <4>2. IF x <= marks[i].at
            THEN told[x] \in durable \/ \E y \in 1..saves[j].at : work[y] = told[x]
            ELSE \A y \in 1..saves[j].at : work[y] < told[x]
        BY <2>3, <4>1 DEF SavesMatch
      <4> QED
        BY <3>2, <3>4, <4>1, <4>2
    <3>6. CASE x > Len(told)
      <4>1. x \in (Len(told) + 1)..Len(told')
        BY <1>3, <3>6
      <4>2. told'[x] = w /\ ~(x <= marks[i].at)
        BY <1>3, <3>1, <3>6, <4>1
      <4> QED
        BY <3>2, <3>3, <4>2
    <3>7. x <= Len(told) \/ x > Len(told)
      BY <1>3
    <3> QED
      BY <3>5, <3>6, <3>7
  <2> QED
    BY Kinds, <1>2, <1>6, <2>1, <2>2, <2>3 DEF SavesMatch, SavesGrow
<1>11. ToldIsThere' /\ ToldInAuto' /\ UndoneIsNotThere'
  <2>1. Range(work) \cup durable \cup {w} \subseteq Range(work') \cup durable'
    BY <1>5
  <2>2. ToldIsThere'
    BY <1>2, <1>3, <2>1 DEF ToldIsThere, session
  <2>3. ToldInAuto'
    BY <1>2, <1>3, <1>4 DEF ToldInAuto, session, Disagree, TypeOK
  <2>4. UndoneIsNotThere'
    BY <1>2, <1>4, <1>6 DEF UndoneIsNotThere
  <2> QED
    BY <2>2, <2>3, <2>4
<1>12. UndoneStaysUndone' /\ EarlyIsExcused' /\ PromisedOrSpoiled'
  <2>1. excused \subseteq excused' /\ durable \subseteq durable'
    BY <1>4, <1>5
  <2>2. UndoneStaysUndone'
    BY <1>2, <1>5, <2>1 DEF UndoneStaysUndone, UndoneIsNotThere
  <2>3. ~autoCommit /\ w \in durable' => w \in excused'
    BY <1>2, <1>4, <1>5 DEF Disagree, FlagMatchesDatabase, CommitsOnSuccess
  <2>4. Range(told) \cap durable' \subseteq excused
    BY <1>2, <1>5 DEF ToldInAuto, EarlyIsExcused, CommitsOnSuccess
  <2>5. autoCommit => w \in durable'
    BY <1>2, <1>5 DEF ModesAgree, FlagMatchesDatabase, CommitsOnSuccess
  <2> QED
    BY <1>2, <1>3, <1>4, <2>1, <2>2, <2>3, <2>4, <2>5
       DEF EarlyIsExcused, PromisedOrSpoiled
<1> QED
  BY <1>7, <1>8, <1>9, <1>10, <1>11, <1>12

(* A savepoint is set at the database's work and the application's.        *)
LEMMA SetSavepointKeeps ==
  ASSUME Inv, SetSavepoint
  PROVE  Inv'
<1> DEFINE new  == [id |-> lastId', at |-> Len(work)]
           mark == [id |-> lastId', at |-> Len(told)]
<1> USE DEF Inv
<1>1. /\ lastId' = lastId + 1 /\ lastId < MaxSavepoints
      /\ UNCHANGED <<client, session, tx, work, durable, told, promised, undone,
                     excused, spoiled, count, connects>>
      /\ saves' = saves \/ (saves' = Append(saves, new) /\ tx = "open" /\ link = "up")
      /\ marks' = Append(marks, mark)
  BY DEF SetSavepoint
<1>2. new \in Savepoints /\ mark \in Savepoints
  <2>1. Len(work) <= MaxWrites /\ Len(told) <= MaxWrites
    BY BoundsAssumption DEF TypeOK, Numbers
  <2> QED
    BY Kinds, <1>1, <2>1, BoundsAssumption DEF Savepoints
<1>3. new.id = lastId + 1 /\ new.at = Len(work) /\ mark.id = lastId + 1 /\ mark.at = Len(told)
  BY <1>1
<1> HIDE DEF new, mark
<1>4. /\ marks' \in Seq(Savepoints) /\ Len(marks') = Len(marks) + 1
      /\ \A k \in 1..Len(marks) : marks'[k] = marks[k]
      /\ marks'[Len(marks) + 1] = mark
  <2>1. marks \in Seq(Savepoints)
    BY DEF TypeOK
  <2> QED
    BY <1>1, <1>2, <2>1, AppendRange
<1>5. \/ saves' = saves
      \/ /\ saves' \in Seq(Savepoints) /\ Len(saves') = Len(saves) + 1
         /\ \A k \in 1..Len(saves) : saves'[k] = saves[k]
         /\ saves'[Len(saves) + 1] = new
         /\ tx = "open" /\ link = "up"
  <2>1. saves \in Seq(Savepoints)
    BY DEF TypeOK
  <2>2. /\ Append(saves, new) \in Seq(Savepoints)
        /\ Len(Append(saves, new)) = Len(saves) + 1
        /\ \A k \in 1..Len(saves) : Append(saves, new)[k] = saves[k]
        /\ Append(saves, new)[Len(saves) + 1] = new
    BY <1>2, <2>1, AppendRange
  <2> QED
    BY <1>1, <1>2, <2>2
<1>6. /\ \A k \in 1..Len(marks') : k \in 1..Len(marks) \/ k = Len(marks) + 1
      /\ \A k \in 1..Len(saves') : k \in 1..Len(saves) \/ k = Len(saves) + 1
  BY <1>4, <1>5
<1>7. /\ \A k \in 1..Len(saves') :
           saves'[k] = new \/ (k \in 1..Len(saves) /\ saves'[k] = saves[k])
      /\ \A k \in 1..Len(marks') :
           marks'[k] = mark \/ (k \in 1..Len(marks) /\ marks'[k] = marks[k])
  BY <1>4, <1>5, <1>6
<1>8. TypeOK'
  <2>1. \A k \in 1..Len(saves') : saves'[k].at <= Len(work')
    <3>1. \A k \in 1..Len(saves) : saves[k].at <= Len(work)
      BY DEF TypeOK
    <3>2. work' = work /\ Len(work) \in Nat /\ new.at = Len(work)
      BY Kinds, <1>1, <1>3
    <3> QED
      BY <1>7, <3>1, <3>2
  <2>2. saves' \in Seq(Savepoints)
    BY <1>5 DEF TypeOK
  <2>3. lastId' \in 0..MaxSavepoints
    BY Kinds, <1>1, BoundsAssumption
  <2> QED
    BY <1>1, <1>4, <2>1, <2>2, <2>3 DEF TypeOK, client, session, Writes, Savepoints
<1>9. Modes' /\ FlagMatchesDatabase' /\ ModesAgree'
  BY <1>1 DEF Modes, FlagMatchesDatabase, ModesAgree, client, session
<1>10. Numbers'
  <2>1. lastId \in Nat /\ lastId' = lastId + 1 /\ Len(told) \in Nat
    BY Kinds, <1>1
  <2>2. ASSUME NEW k \in 1..Len(saves')
        PROVE  saves'[k].id <= lastId'
    <3>1. CASE saves'[k] = new
      BY <1>3, <2>1, <3>1
    <3>2. CASE k \in 1..Len(saves) /\ saves'[k] = saves[k]
      <4>1. saves[k].id \in Nat /\ saves[k].id <= lastId
        BY Kinds, <3>2 DEF Numbers
      <4> QED
        BY <2>1, <3>2, <4>1
    <3> QED
      BY <1>7, <3>1, <3>2, Zenon
  <2>3. ASSUME NEW k \in 1..Len(marks')
        PROVE  marks'[k].id <= lastId' /\ marks'[k].at <= Len(told)
    <3>1. CASE marks'[k] = mark
      BY <1>3, <2>1, <3>1
    <3>2. CASE k \in 1..Len(marks) /\ marks'[k] = marks[k]
      <4>1. marks[k].id \in Nat /\ marks[k].id <= lastId /\ marks[k].at <= Len(told)
        BY Kinds, <3>2 DEF Numbers
      <4> QED
        BY <2>1, <3>2, <4>1
    <3> QED
      BY <1>7, <3>1, <3>2, Zenon
  <2> QED
    BY <1>1, <2>2, <2>3 DEF Numbers
<1>11. SavesGrow'
  <2>1. \A k \in 1..Len(saves) : saves[k].at <= Len(work)
    BY DEF TypeOK
  <2> SUFFICES ASSUME NEW i \in 1..Len(saves'), NEW j \in 1..Len(saves'), i <= j
               PROVE  saves'[i].at <= saves'[j].at
    BY DEF SavesGrow
  <2>2. CASE i \in 1..Len(saves) /\ j \in 1..Len(saves)
    BY <1>5, <2>2 DEF SavesGrow
  <2>3. CASE i \in 1..Len(saves) /\ j = Len(saves) + 1
    BY <1>3, <1>5, <2>1, <2>3
  <2>4. i \in 1..Len(saves) \/ i = j
    BY <1>5, <1>6
  <2> QED
    BY <1>3, <1>5, <1>6, <2>2, <2>3, <2>4
<1>12. MarksGrow'
  <2>1. \A k \in 1..Len(marks) : marks[k].at <= Len(told)
    BY DEF Numbers
  <2> SUFFICES ASSUME NEW i \in 1..Len(marks'), NEW j \in 1..Len(marks'), i <= j
               PROVE  marks'[i].at <= marks'[j].at
    BY DEF MarksGrow
  <2>2. CASE i \in 1..Len(marks) /\ j \in 1..Len(marks)
    BY <1>4, <2>2 DEF MarksGrow
  <2>3. CASE i \in 1..Len(marks) /\ j = Len(marks) + 1
    BY <1>3, <1>4, <2>1, <2>3
  <2>4. CASE i = Len(marks) + 1 /\ j = Len(marks) + 1
    BY <1>3, <1>4, <2>4
  <2> QED
    BY <1>4, <1>6, <2>2, <2>3, <2>4
<1>13. SavesMatch'
  <2> SUFFICES ASSUME NEW i \in 1..Len(marks'), NEW j \in 1..Len(saves'),
                      marks'[i].id = saves'[j].id, NEW x \in 1..Len(told)
               PROVE  IF x <= marks'[i].at
                      THEN told[x] \in durable \/ \E y \in 1..saves'[j].at : work[y] = told[x]
                      ELSE \A y \in 1..saves'[j].at : work[y] < told[x]
    <3>1. told' = told /\ work' = work /\ durable' = durable
      BY <1>1
    <3> QED
      BY <3>1, Zenon DEF SavesMatch
  <2>1. CASE i \in 1..Len(marks) /\ j \in 1..Len(saves)
    <3>1. marks'[i] = marks[i] /\ saves'[j] = saves[j]
      BY <1>4, <1>5, <2>1
    <3>2. marks[i].id = saves[j].id
      BY <3>1
    <3>3. IF x <= marks[i].at
          THEN told[x] \in durable \/ \E y \in 1..saves[j].at : work[y] = told[x]
          ELSE \A y \in 1..saves[j].at : work[y] < told[x]
      BY <2>1, <3>2 DEF SavesMatch
    <3> QED
      BY <3>1, <3>3
  <2>2. CASE i = Len(marks) + 1 /\ j = Len(saves) + 1
    <3>1. marks'[i].at = Len(told) /\ saves'[j].at = Len(work) /\ link = "up"
      BY <1>3, <1>4, <1>5, <2>2
    <3>2. told[x] \in Range(work) \cup durable
      BY <3>1, Elements DEF ToldIsThere
    <3>3. \A w \in Range(work) : \E y \in 1..Len(work) : work[y] = w
      BY Elements
    <3>4. told[x] \in durable \/ \E y \in 1..saves'[j].at : work[y] = told[x]
      BY <3>1, <3>2, <3>3
    <3>5. x <= marks'[i].at
      BY <3>1
    <3> QED
      BY <3>4, <3>5
  <2>3. CASE i = Len(marks) + 1 /\ j \in 1..Len(saves)
    <3>1. marks'[i].id = lastId + 1 /\ saves'[j].id <= lastId
      BY <1>3, <1>4, <1>5, <2>3 DEF Numbers
    <3>2. saves'[j].id \in Nat
      BY Kinds, <1>5, <2>3
    <3> QED
      BY Kinds, <3>1, <3>2
  <2>4. CASE i \in 1..Len(marks) /\ j = Len(saves) + 1 /\ Len(saves') = Len(saves) + 1
    <3>1. marks'[i] = marks[i] /\ saves'[j] = new
      BY <1>4, <1>5, <2>4
    <3>2. marks[i].id \in Nat /\ marks[i].id <= lastId
      BY Kinds, <2>4 DEF Numbers
    <3> QED
      BY Kinds, <1>3, <3>1, <3>2
  <2> QED
    BY <1>5, <1>6, <2>1, <2>2, <2>3, <2>4
<1>14. ToldIsThere' /\ ToldInAuto' /\ UndoneIsNotThere'
  BY <1>1 DEF ToldIsThere, ToldInAuto, UndoneIsNotThere, session
<1>15. UndoneStaysUndone' /\ EarlyIsExcused' /\ PromisedOrSpoiled'
  BY <1>1 DEF UndoneStaysUndone, EarlyIsExcused, PromisedOrSpoiled
<1> QED
  BY <1>8, <1>9, <1>10, <1>11, <1>12, <1>13, <1>14, <1>15

(* A helper for the numbers of savepoints.                                 *)
LEMMA Intervals == \A n, k \in Nat : n <= k => 1..n \subseteq 1..k
OBVIOUS

(* Both sides go back to the savepoint: what was told before it is in the  *)
(* database's, and what was told after it is not.  A savepoint that the    *)
(* database does not know leaves it as it is.                              *)
LEMMA RollbackToKeeps ==
  ASSUME Inv, NEW i \in 1..Len(marks), RollbackTo(i)
  PROVE  Inv'
<1> DEFINE id   == marks[i].id
           m    == marks[i].at
           j    == At(id)
           done == link = "up" /\ Known(id)
           lost == Range(SubSeq(told, m + 1, Len(told)))
<1> USE DEF Inv
<1>1. /\ m \in Nat /\ m \in 0..Len(told)
      /\ UNCHANGED <<client, session, durable, promised, spoiled, bounds>>
      /\ told' = SubSeq(told, 1, m) /\ marks' = SubSeq(marks, 1, i)
      /\ undone' = undone \cup lost
      /\ ~done => excused' = excused \cup lost
      /\ excused \subseteq excused'
  BY Kinds DEF RollbackTo, Numbers
<1>2. /\ told' \in Seq(Writes) /\ Len(told') = m
      /\ \A x \in 1..m : x \in 1..Len(told) /\ told'[x] = told[x]
      /\ \A w \in Range(told') : w \in Range(told) /\ \E x \in 1..m : w = told[x]
  <2>1. told \in Seq(Writes)
    BY DEF TypeOK
  <2>2. /\ SubSeq(told, 1, m) \in Seq(Writes) /\ Len(SubSeq(told, 1, m)) = m
        /\ \A x \in 1..m : x \in 1..Len(told) /\ SubSeq(told, 1, m)[x] = told[x]
        /\ \A w \in Range(SubSeq(told, 1, m)) :
             w \in Range(told) /\ \E x \in 1..m : w = told[x]
    BY <1>1, <2>1, Prefix
  <2> QED
    BY <1>1, <2>2, Zenon
<1>3. /\ marks' \in Seq(Savepoints) /\ Len(marks') = i
      /\ \A k \in 1..i : k \in 1..Len(marks) /\ marks'[k] = marks[k] /\ marks[k].at <= m
  <2>1. marks \in Seq(Savepoints) /\ i \in 0..Len(marks)
    BY DEF TypeOK
  <2>2. marks' \in Seq(Savepoints) /\ Len(marks') = i /\ \A k \in 1..i : marks'[k] = marks[k]
    BY <1>1, <2>1, Prefix
  <2> QED
    BY <2>2 DEF MarksGrow
<1>4. \A w \in lost : w \in Range(told) /\ \E x \in (m + 1)..Len(told) : w = told[x]
  <2>1. told \in Seq(Writes)
    BY DEF TypeOK
  <2>2. \A w \in lost : \E x \in (m + 1)..Len(told) : w = told[x]
    BY <1>1, <2>1, Suffix
  <2>3. \A x \in (m + 1)..Len(told) : told[x] \in Range(told)
    BY <1>1, Elements
  <2> QED
    BY <2>2, <2>3
<1>5. CASE done
  <2>1. /\ j \in 1..Len(saves) /\ saves[j].id = id /\ link = "up"
        /\ saves[j].at \in Nat /\ saves[j].at \in 0..Len(work)
    BY Kinds, <1>5, SavepointAt DEF TypeOK
  <2>2. /\ tx' = "open" /\ work' = SubSeq(work, 1, saves[j].at) /\ saves' = SubSeq(saves, 1, j)
        /\ excused' = excused
    BY <1>5 DEF RollbackTo
  <2> HIDE DEF id, j, done, lost
  <2>3. /\ work' \in Seq(Writes) /\ Len(work') = saves[j].at
        /\ \A y \in 1..saves[j].at : y \in 1..Len(work) /\ work'[y] = work[y]
        /\ \A y \in 1..saves[j].at : work[y] \in Range(work')
        /\ \A w \in Range(work') : w \in Range(work) /\ \E y \in 1..saves[j].at : w = work[y]
    <3>1. work \in Seq(Writes)
      BY DEF TypeOK
    <3>2. /\ SubSeq(work, 1, saves[j].at) \in Seq(Writes)
          /\ Len(SubSeq(work, 1, saves[j].at)) = saves[j].at
          /\ \A y \in 1..saves[j].at :
               y \in 1..Len(work) /\ SubSeq(work, 1, saves[j].at)[y] = work[y]
          /\ \A y \in 1..saves[j].at : work[y] \in Range(SubSeq(work, 1, saves[j].at))
          /\ \A w \in Range(SubSeq(work, 1, saves[j].at)) :
               w \in Range(work) /\ \E y \in 1..saves[j].at : w = work[y]
      BY <2>1, <3>1, Prefix
    <3> QED
      BY <2>2, <3>2, Zenon
  <2>4. /\ saves' \in Seq(Savepoints) /\ Len(saves') = j
        /\ \A k \in 1..j : /\ k \in 1..Len(saves) /\ saves'[k] = saves[k]
                           /\ saves[k].at <= saves[j].at
    <3>1. saves \in Seq(Savepoints) /\ j \in 0..Len(saves)
      BY <2>1 DEF TypeOK
    <3>2. /\ saves' \in Seq(Savepoints) /\ Len(saves') = j
          /\ \A k \in 1..j : k \in 1..Len(saves) /\ saves'[k] = saves[k]
      BY <2>2, <3>1, Prefix
    <3>3. \A k \in 1..j : k <= j
      BY <2>1
    <3>4. \A k \in 1..j : saves[k].at <= saves[j].at
      BY <2>1, <3>2, <3>3 DEF SavesGrow
    <3> QED
      BY <3>2, <3>4
  <2>5. \A x \in 1..Len(told) :
          IF x <= m
          THEN told[x] \in durable \/ \E y \in 1..saves[j].at : work[y] = told[x]
          ELSE \A y \in 1..saves[j].at : work[y] < told[x]
    BY <2>1 DEF SavesMatch, id
  <2>6. \A x \in 1..m : told[x] \in durable \cup Range(work')
    <3> SUFFICES ASSUME NEW x \in 1..m, told[x] \notin durable
                 PROVE  told[x] \in Range(work')
      OBVIOUS
    <3>1. x \in 1..Len(told) /\ x <= m
      BY <1>1, <1>2
    <3>2. PICK y \in 1..saves[j].at : work[y] = told[x]
      BY <2>5, <3>1
    <3> QED
      BY <2>3, <3>2
  <2>7. lost \cap Range(work') = {}
    <3>1. \A x \in (m + 1)..Len(told) : \A y \in 1..saves[j].at : work[y] # told[x]
      <4> SUFFICES ASSUME NEW x \in (m + 1)..Len(told), NEW y \in 1..saves[j].at
                   PROVE  work[y] # told[x]
        OBVIOUS
      <4>1. x \in 1..Len(told) /\ ~(x <= m)
        BY <1>1
      <4>2. work[y] < told[x]
        BY <2>5, <4>1
      <4>3. work[y] \in Nat /\ told[x] \in Nat
        <5>1. work[y] \in Range(work) /\ told[x] \in Range(told)
          BY <2>3, <4>1, Elements
        <5> QED
          BY Kinds, <5>1
      <4> QED
        BY <4>2, <4>3
    <3> SUFFICES ASSUME NEW w \in lost, w \in Range(work') PROVE FALSE
      OBVIOUS
    <3>2. PICK x \in (m + 1)..Len(told) : w = told[x]
      BY <1>4
    <3>3. PICK y \in 1..saves[j].at : w = work[y]
      BY <2>3
    <3> QED
      BY <3>1, <3>2, <3>3
  <2>8. TypeOK'
    <3>1. \A k \in 1..Len(saves') : saves'[k].at <= Len(work')
      BY <2>3, <2>4
    <3>2. undone' \in SUBSET Writes
      BY Kinds, <1>1, <1>4 DEF TypeOK
    <3>3. /\ dbtype' \in Plugins /\ isConnected' \in BOOLEAN /\ isClosed' \in BOOLEAN
          /\ autoCommit' \in BOOLEAN /\ mAuto' \in BOOLEAN /\ released' \in BOOLEAN
          /\ link' \in {"none", "up", "dbDown", "proxyDown"}
          /\ durable' \in SUBSET Writes /\ promised' \in SUBSET Writes
          /\ excused' \in SUBSET Writes /\ spoiled' \in SUBSET Writes
          /\ count' \in 0..MaxWrites /\ connects' \in 0..MaxConnects
          /\ lastId' \in 0..MaxSavepoints
      BY <1>1, <2>2 DEF TypeOK, client, session, bounds
    <3> QED
      BY <1>2, <1>3, <2>2, <2>3, <2>4, <3>1, <3>2, <3>3 DEF TypeOK
  <2>9. Modes' /\ FlagMatchesDatabase' /\ ModesAgree'
    <3>1. tx # "none"
      <4>1. saves # <<>>
        BY <2>1, Empty
      <4> QED
        BY <4>1 DEF Modes
    <3>2. autoCommit => told' = <<>>
      BY <1>1, <1>2, Empty DEF Modes
    <3> QED
      BY <1>1, <2>1, <2>2, <3>1, <3>2
         DEF Modes, FlagMatchesDatabase, ModesAgree, client, session, bounds
  <2>10. Numbers'
    <3>1. \A w \in durable' \cup undone' \cup Range(told') \cup Range(work') : w <= count'
      BY <1>1, <1>2, <1>4, <2>3 DEF Numbers, bounds
    <3>2. \A k \in 1..Len(marks') : marks'[k].id <= lastId' /\ marks'[k].at <= Len(told')
      BY <1>1, <1>2, <1>3 DEF Numbers, bounds
    <3>3. \A k \in 1..Len(saves') : saves'[k].id <= lastId'
      BY <1>1, <2>4 DEF Numbers, bounds
    <3>4. Len(told') <= count' /\ Len(work') <= count'
      <4>1. m <= Len(told) /\ saves[j].at <= Len(work)
        BY <1>1, <2>1
      <4>2. Len(told) <= count /\ Len(work) <= count /\ count' = count
        BY <1>1 DEF Numbers, bounds
      <4>3. /\ m \in Nat /\ saves[j].at \in Nat /\ count \in Nat
            /\ Len(told) \in Nat /\ Len(work) \in Nat
        BY Kinds, <1>1, <2>1
      <4> QED
        BY <1>2, <2>3, <4>1, <4>2, <4>3
    <3> QED
      BY <3>1, <3>2, <3>3, <3>4 DEF Numbers
  <2>11. SavesGrow' /\ MarksGrow'
    BY <1>3, <2>4 DEF SavesGrow, MarksGrow
  <2>12. SavesMatch'
    <3> SUFFICES ASSUME NEW a \in 1..Len(marks'), NEW b \in 1..Len(saves'),
                        marks'[a].id = saves'[b].id, NEW x \in 1..Len(told')
                 PROVE  IF x <= marks'[a].at
                        THEN \/ told'[x] \in durable'
                             \/ \E y \in 1..saves'[b].at : work'[y] = told'[x]
                        ELSE \A y \in 1..saves'[b].at : work'[y] < told'[x]
      BY Zenon DEF SavesMatch
    <3>0. /\ a \in 1..i /\ b \in 1..j /\ x \in 1..m
          /\ marks'[a] = marks[a] /\ saves'[b] = saves[b] /\ told'[x] = told[x]
          /\ durable' = durable /\ marks[a].id = saves[b].id
      BY <1>1, <1>2, <1>3, <2>4
    <3>1. a \in 1..Len(marks) /\ b \in 1..Len(saves) /\ x \in 1..Len(told)
      BY <1>2, <1>3, <2>4, <3>0
    <3>2. IF x <= marks[a].at
          THEN told[x] \in durable \/ \E y \in 1..saves[b].at : work[y] = told[x]
          ELSE \A y \in 1..saves[b].at : work[y] < told[x]
      BY <3>0, <3>1 DEF SavesMatch
    <3>3. \A y \in 1..saves[b].at : work'[y] = work[y]
      <4>1. saves[b].at \in Nat /\ saves[b].at <= saves[j].at
        BY Kinds, <2>4, <3>0, <3>1
      <4>2. saves[j].at \in Nat
        BY <2>1
      <4>3. 1..saves[b].at \subseteq 1..saves[j].at
        BY <4>1, <4>2, Intervals, Zenon
      <4> QED
        BY <2>3, <4>3
    <3> QED
      BY <3>0, <3>2, <3>3
  <2>13. ToldIsThere' /\ ToldInAuto' /\ UndoneIsNotThere'
    <3>1. Range(told') \subseteq Range(work') \cup durable
      BY <1>2, <2>6
    <3>2. UndoneIsNotThere'
      BY <1>1, <2>2, <2>3, <2>7 DEF UndoneIsNotThere
    <3> QED
      BY <1>1, <1>2, <2>2, <3>1, <3>2 DEF ToldIsThere, ToldInAuto, session
  <2>14. UndoneStaysUndone' /\ EarlyIsExcused' /\ PromisedOrSpoiled'
    BY <1>1, <1>2, <1>4, <2>2
       DEF UndoneStaysUndone, EarlyIsExcused, PromisedOrSpoiled
  <2> QED
    BY <2>8, <2>9, <2>10, <2>11, <2>12, <2>13, <2>14
<1>6. CASE ~done
  <2>1. tx' = Aborted /\ work' = work /\ saves' = saves /\ excused' = excused \cup lost
    BY <1>6 DEF RollbackTo
  <2> HIDE DEF id, j, done, lost
  <2>2. TypeOK'
    <3>1. undone' \in SUBSET Writes /\ excused' \in SUBSET Writes
      BY Kinds, <1>1, <1>4, <2>1 DEF TypeOK
    <3>2. work' \in Seq(Writes) /\ saves' \in Seq(Savepoints)
          /\ \A k \in 1..Len(saves') : saves'[k].at <= Len(work')
      BY <2>1 DEF TypeOK
    <3>3. /\ dbtype' \in Plugins /\ isConnected' \in BOOLEAN /\ isClosed' \in BOOLEAN
          /\ autoCommit' \in BOOLEAN /\ mAuto' \in BOOLEAN /\ released' \in BOOLEAN
          /\ link' \in {"none", "up", "dbDown", "proxyDown"}
          /\ tx' \in {"none", "open", "aborted"}
          /\ durable' \in SUBSET Writes /\ promised' \in SUBSET Writes
          /\ spoiled' \in SUBSET Writes
          /\ count' \in 0..MaxWrites /\ connects' \in 0..MaxConnects
          /\ lastId' \in 0..MaxSavepoints
      BY <1>1, <2>1 DEF TypeOK, Aborted, client, session, bounds
    <3> QED
      BY <1>2, <1>3, <3>1, <3>2, <3>3 DEF TypeOK
  <2>3. Modes' /\ FlagMatchesDatabase' /\ ModesAgree'
    <3>1. autoCommit => told' = <<>>
      BY <1>1, <1>2, Empty DEF Modes
    <3> QED
      BY <1>1, <2>1, <3>1
         DEF Modes, FlagMatchesDatabase, ModesAgree, Aborted, client, session, bounds
  <2>4. Numbers'
    <3>1. \A w \in durable' \cup undone' \cup Range(told') \cup Range(work') : w <= count'
      BY <1>1, <1>2, <1>4, <2>1 DEF Numbers, bounds
    <3>2. \A k \in 1..Len(marks') : marks'[k].id <= lastId' /\ marks'[k].at <= Len(told')
      BY <1>1, <1>2, <1>3 DEF Numbers, bounds
    <3>3. Len(told') <= count' /\ Len(work') <= count'
      BY Kinds, <1>1, <1>2, <2>1 DEF Numbers, bounds
    <3> QED
      BY <1>1, <2>1, <3>1, <3>2, <3>3 DEF Numbers, bounds
  <2>5. SavesGrow' /\ MarksGrow'
    BY <1>3, <2>1 DEF SavesGrow, MarksGrow
  <2>6. SavesMatch'
    <3> SUFFICES ASSUME NEW a \in 1..Len(marks'), NEW b \in 1..Len(saves'),
                        marks'[a].id = saves'[b].id, NEW x \in 1..Len(told')
                 PROVE  IF x <= marks'[a].at
                        THEN \/ told'[x] \in durable'
                             \/ \E y \in 1..saves'[b].at : work'[y] = told'[x]
                        ELSE \A y \in 1..saves'[b].at : work'[y] < told'[x]
      BY Zenon DEF SavesMatch
    <3>1. /\ a \in 1..Len(marks) /\ b \in 1..Len(saves) /\ x \in 1..Len(told)
          /\ marks'[a] = marks[a] /\ saves'[b] = saves[b] /\ told'[x] = told[x]
          /\ durable' = durable /\ work' = work /\ marks[a].id = saves[b].id
      BY <1>1, <1>2, <1>3, <2>1
    <3>2. IF x <= marks[a].at
          THEN told[x] \in durable \/ \E y \in 1..saves[b].at : work[y] = told[x]
          ELSE \A y \in 1..saves[b].at : work[y] < told[x]
      BY <3>1 DEF SavesMatch
    <3> QED
      BY <3>1, <3>2
  <2>7. ToldIsThere' /\ ToldInAuto' /\ UndoneIsNotThere'
    BY <1>1, <1>2, <2>1 DEF ToldIsThere, ToldInAuto, UndoneIsNotThere, session
  <2>8. UndoneStaysUndone' /\ EarlyIsExcused' /\ PromisedOrSpoiled'
    BY <1>1, <1>2, <1>4, <2>1
       DEF UndoneStaysUndone, EarlyIsExcused, PromisedOrSpoiled
  <2> QED
    BY <2>2, <2>3, <2>4, <2>5, <2>6, <2>7, <2>8
<1> QED
  BY <1>5, <1>6

(* The savepoint and the later ones are gone; the work stays.              *)
LEMMA ReleaseSavepointKeeps ==
  ASSUME Inv, NEW i \in 1..Len(marks), ReleaseSavepoint(i)
  PROVE  Inv'
<1> USE DEF Inv
<1>1. /\ UNCHANGED <<client, session, work, durable, app, bounds>>
      /\ dbtype # "freetds"
  BY DEF ReleaseSavepoint
<1>2. /\ saves' = saves \/ \E n \in 0..Len(saves) : saves' = SubSeq(saves, 1, n)
      /\ saves' = saves \/ tx # "none"
      /\ tx' = tx \/ (tx' = "aborted" /\ dbtype = "pgsql" /\ tx # "none")
  <2>1. \/ /\ tx = "open" /\ tx' = tx /\ Known(marks[i].id)
           /\ saves' = SubSeq(saves, 1, At(marks[i].id) - 1)
        \/ tx' = Aborted /\ saves' = saves
    BY Zenon DEF ReleaseSavepoint
  <2>2. Known(marks[i].id) => At(marks[i].id) - 1 \in 0..Len(saves)
    BY SavepointAt
  <2> QED
    BY <2>1, <2>2 DEF Aborted
<1>3. /\ saves' \in Seq(Savepoints) /\ Len(saves') \in Nat /\ Len(saves') <= Len(saves)
      /\ \A k \in 1..Len(saves') : k \in 1..Len(saves) /\ saves'[k] = saves[k]
  <2>1. saves \in Seq(Savepoints)
    BY DEF TypeOK
  <2>2. ASSUME NEW n \in 0..Len(saves), saves' = SubSeq(saves, 1, n)
        PROVE  /\ saves' \in Seq(Savepoints) /\ Len(saves') = n
               /\ \A k \in 1..n : saves'[k] = saves[k]
    BY <2>1, <2>2, Prefix
  <2> QED
    BY <1>2, <2>1, <2>2
<1>4. TypeOK'
  <2>1. tx' \in {"none", "open", "aborted"}
    BY <1>2 DEF TypeOK
  <2>2. \A k \in 1..Len(saves') : saves'[k].at <= Len(work)
    BY <1>3 DEF TypeOK
  <2> QED
    BY <1>1, <1>3, <2>1, <2>2 DEF TypeOK, client, session, app, bounds, Writes, Savepoints
<1>5. Modes' /\ FlagMatchesDatabase' /\ ModesAgree'
  BY <1>1, <1>2 DEF Modes, FlagMatchesDatabase, ModesAgree, client, session, app, bounds
<1>6. Numbers'
  BY <1>1, <1>3 DEF Numbers, app, bounds
<1>7. SavesGrow' /\ MarksGrow'
  BY <1>1, <1>3 DEF SavesGrow, MarksGrow, app
<1>8. SavesMatch'
  <2> SUFFICES ASSUME NEW a \in 1..Len(marks'), NEW b \in 1..Len(saves'),
                      marks'[a].id = saves'[b].id, NEW x \in 1..Len(told')
               PROVE  IF x <= marks'[a].at
                      THEN \/ told'[x] \in durable'
                           \/ \E y \in 1..saves'[b].at : work'[y] = told'[x]
                      ELSE \A y \in 1..saves'[b].at : work'[y] < told'[x]
    BY Zenon DEF SavesMatch
  <2>1. /\ told' = told /\ marks' = marks /\ work' = work /\ durable' = durable
        /\ b \in 1..Len(saves) /\ saves'[b] = saves[b]
    BY <1>1, <1>3 DEF app
  <2>2. IF x <= marks[a].at
        THEN told[x] \in durable \/ \E y \in 1..saves[b].at : work[y] = told[x]
        ELSE \A y \in 1..saves[b].at : work[y] < told[x]
    BY <2>1 DEF SavesMatch
  <2> QED
    BY <2>1, <2>2
<1>9. ToldIsThere' /\ ToldInAuto' /\ UndoneIsNotThere'
  BY <1>1 DEF ToldIsThere, ToldInAuto, UndoneIsNotThere, session, app
<1>10. UndoneStaysUndone' /\ EarlyIsExcused' /\ PromisedOrSpoiled'
  BY <1>1 DEF UndoneStaysUndone, EarlyIsExcused, PromisedOrSpoiled, app
<1> QED
  BY <1>4, <1>5, <1>6, <1>7, <1>8, <1>9, <1>10

-----------------------------------------------------------------------------
(* The theorems                                                            *)

LEMMA InitInv == Init => Inv
<1> SUFFICES ASSUME Init PROVE Inv
  OBVIOUS
<1>1. 1..Len(<<>>) = {}
  BY Empty
<1>2. TypeOK
  <2>1. SequencesTyped
    BY <1>1, Empty DEF Init, SequencesTyped
  <2>2. count \in 0..MaxWrites /\ connects \in 0..MaxConnects /\ lastId \in 0..MaxSavepoints
    BY BoundsAssumption DEF Init
  <2> QED
    BY <2>1, <2>2 DEF Init, TypeOK, SequencesTyped
<1>3. Modes /\ Numbers
  BY <1>1, Empty, BoundsAssumption DEF Init, Modes, Numbers
<1>4. SavesGrow /\ MarksGrow /\ SavesMatch
  BY <1>1 DEF Init, SavesGrow, MarksGrow, SavesMatch
<1>5. ToldIsThere /\ ToldInAuto /\ UndoneIsNotThere
  BY Empty DEF Init, ToldIsThere, ToldInAuto, UndoneIsNotThere
<1>6. FlagMatchesDatabase /\ ModesAgree
  BY DEF Init, FlagMatchesDatabase, ModesAgree
<1>7. UndoneStaysUndone /\ EarlyIsExcused /\ PromisedOrSpoiled
  BY Empty DEF Init, UndoneStaysUndone, EarlyIsExcused, PromisedOrSpoiled
<1> QED
  BY <1>2, <1>3, <1>4, <1>5, <1>6, <1>7 DEF Inv

LEMMA InvStep == Inv /\ [Next]_vars => Inv'
<1> SUFFICES ASSUME Inv, [Next]_vars PROVE Inv'
  OBVIOUS
<1>1. CASE UNCHANGED vars
  <2>1. UNCHANGED <<client, session, db, app, bounds>>
    BY <1>1 DEF vars
  <2>2. TypeOK' /\ Modes' /\ Numbers'
    BY <2>1 DEF Inv, TypeOK, Modes, Numbers, client, session, db, app, bounds
  <2>3. SavesGrow' /\ MarksGrow' /\ SavesMatch'
    <3>1. UNCHANGED <<work, saves, durable, told, marks>>
      BY <2>1 DEF db, app
    <3> QED
      BY <3>1, SavesMatchKept DEF Inv, SavesGrow, MarksGrow
  <2>4. ToldIsThere' /\ ToldInAuto' /\ UndoneIsNotThere'
    BY <2>1 DEF Inv, ToldIsThere, ToldInAuto, UndoneIsNotThere, session, db, app
  <2>5. FlagMatchesDatabase' /\ ModesAgree'
    BY <2>1 DEF Inv, FlagMatchesDatabase, ModesAgree, client, session, db, bounds
  <2>6. UndoneStaysUndone' /\ EarlyIsExcused' /\ PromisedOrSpoiled'
    BY <2>1 DEF Inv, UndoneStaysUndone, EarlyIsExcused, PromisedOrSpoiled, db, app
  <2> QED
    BY <2>2, <2>3, <2>4, <2>5, <2>6 DEF Inv
<1>2. ASSUME NEW on \in BOOLEAN, SetAutoCommit(on)
      PROVE  Inv'
  BY <1>2, SetAutoCommitKeeps
<1>3. ASSUME NEW i \in 1..Len(marks), RollbackTo(i) \/ ReleaseSavepoint(i) \/ ReleaseCommits(i)
      PROVE  Inv'
  BY <1>3, RollbackToKeeps, ReleaseSavepointKeeps, ReleaseCommitsKeeps
<1>4. CASE Connect \/ ConnectFails \/ Close \/ CloseThrows \/ DatabaseLost \/ ProxyLost
  BY <1>4, ConnectKeeps, ConnectFailsKeeps, CloseKeeps, CloseThrowsKeeps, DatabaseLostKeeps, ProxyLostKeeps
<1>5. CASE Commit \/ Rollback \/ EndLost \/ Update \/ UpdateFails \/ SetSavepoint
  BY <1>5, CommitKeeps, RollbackKeeps, EndLostKeeps, UpdateKeeps, UpdateFailsKeeps,
     SetSavepointKeeps
<1> QED
  BY <1>1, <1>2, <1>3, <1>4, <1>5 DEF Next

LEMMA SpecInv == Spec => []Inv
BY InitInv, InvStep, PTL DEF Spec

(* The new update comes after all others.                                  *)
LEMMA UpdateKeepsTold ==
  ASSUME Inv, WorkIsTold, Update
  PROVE  WorkIsTold'
<1> DEFINE w == count + 1
<1>1. w \in Nat /\ w \in Writes /\ ExecuteUpdate(w) /\ ToldUpdate(w)
  BY Kinds, BoundsAssumption DEF Inv, Update, Writes
<1>2. \A y \in 1..Len(work) : work[y] \in Nat /\ work[y] < w
  BY Kinds, Elements DEF Inv, Numbers
<1> HIDE DEF w
<1>0. told \in Seq(Writes) /\ work \in Seq(Writes) /\ Len(work) \in Nat
  BY Kinds DEF Inv, TypeOK
<1>3. w \in Range(told') \cup excused' \/ work' = work \/ work' = <<>>
  <2>1. CASE autoCommit
    BY <1>1, <2>1 DEF Inv, ExecuteUpdate, ToldUpdate, NewTx, CommitsOnSuccess, Disagree,
                      FlagMatchesDatabase, Modes
  <2>2. CASE ~autoCommit
    <3>1. told' = Append(told, w)
      BY <1>1, <2>2 DEF ToldUpdate
    <3> QED
      BY <1>0, <1>1, <3>1, AppendRange
  <2> QED
    BY <2>1, <2>2
<1>4. Range(told) \cup excused \subseteq Range(told') \cup excused'
  <2>1. told' = told \/ told' = Append(told, w)
    BY <1>1 DEF ToldUpdate
  <2>2. Range(Append(told, w)) = Range(told) \cup {w}
    BY <1>0, <1>1, AppendRange
  <2>3. excused \subseteq excused'
    BY <1>1 DEF ToldUpdate
  <2> QED
    BY <2>1, <2>2, <2>3
<1>5. CASE work' = work
  BY <1>4, <1>5 DEF WorkIsTold
<1>6. CASE work' = <<>>
  BY <1>6, Empty DEF WorkIsTold
<1>7. CASE work' = Append(work, w) /\ w \in Range(told') \cup excused'
  <2>1. /\ Len(work') = Len(work) + 1 /\ Range(work') = Range(work) \cup {w}
        /\ \A y \in 1..Len(work) : work'[y] = work[y]
        /\ work'[Len(work) + 1] = w
    BY <1>0, <1>1, <1>7, AppendRange
  <2>2. Range(work') \subseteq Range(told') \cup excused'
    BY <1>4, <1>7, <2>1 DEF WorkIsTold
  <2>3. ASSUME NEW x \in 1..Len(work'), NEW y \in 1..Len(work'), x < y
        PROVE  work'[x] < work'[y]
    <3>1. x \in 1..Len(work) /\ (y \in 1..Len(work) \/ y = Len(work) + 1)
      BY <1>0, <2>1, <2>3
    <3> QED
      BY <1>2, <2>1, <2>3, <3>1 DEF WorkIsTold
  <2> QED
    BY <2>2, <2>3 DEF WorkIsTold
<1> QED
  BY <1>1, <1>3, <1>5, <1>6, <1>7 DEF ExecuteUpdate, NewTx

(* What the database keeps was told before the mark.                       *)
LEMMA RollbackToKeepsTold ==
  ASSUME Inv, WorkIsTold, NEW i \in 1..Len(marks), RollbackTo(i)
  PROVE  WorkIsTold'
<1> DEFINE id   == marks[i].id
           j    == At(id)
           m    == marks[i].at
           lost == Range(SubSeq(told, m + 1, Len(told)))
           done == link = "up" /\ Known(id)
<1>1. told \in Seq(Writes) /\ work \in Seq(Writes) /\ m \in 0..Len(told)
  BY Kinds DEF Inv, TypeOK, Numbers
<1>2. told' = SubSeq(told, 1, m)
  BY DEF RollbackTo
<1> HIDE DEF m
<1>3. \A x \in 1..m : told[x] \in Range(told')
  BY <1>1, <1>2, Prefix
<1>4. \A x \in 1..Len(told) : x > m => told[x] \in lost
  <2>1. ASSUME NEW x \in 1..Len(told), x > m
        PROVE  told[x] \in lost
    <3> DEFINE rest == SubSeq(told, m + 1, Len(told))
    <3>1. Len(told) \in Nat /\ m \in Nat /\ x - m \in 1..(Len(told) - m)
      BY <1>1, <2>1
    <3>2. /\ rest \in Seq(Writes) /\ Len(rest) = Len(told) - m
          /\ \A y \in 1..(Len(told) - m) : rest[y] = told[m + y]
      BY <1>1, <3>1
    <3> HIDE DEF rest
    <3>3. rest[x - m] = told[x] /\ x - m \in 1..Len(rest)
      BY <3>1, <3>2
    <3>4. told[x] \in Range(rest)
      BY <3>2, <3>3, RangeOf
    <3> QED
      BY <3>4 DEF rest
  <2> QED
    BY <2>1
<1>5. CASE done
  <2>1. /\ work' = SubSeq(work, 1, saves[j].at) /\ excused' = excused
        /\ j \in 1..Len(saves) /\ saves[j].id = id
    BY <1>5, SavepointAt DEF RollbackTo, Inv
  <2>2. saves[j].at \in 0..Len(work)
    BY <2>1, Kinds DEF Inv, TypeOK
  <2>3. \A x \in 1..Len(told) : x > m => \A y \in 1..saves[j].at : work[y] < told[x]
    <3>1. \A x \in 1..Len(told) :
            IF x <= m
            THEN told[x] \in durable \/ \E y \in 1..saves[j].at : work[y] = told[x]
            ELSE \A y \in 1..saves[j].at : work[y] < told[x]
      BY <2>1 DEF Inv, SavesMatch, m
    <3>2. \A x \in 1..Len(told) : x > m => ~(x <= m)
      BY <1>1
    <3> QED
      BY <3>1, <3>2
  <2> HIDE DEF id, j, lost, done
  <2>4. /\ Len(work') = saves[j].at
        /\ \A y \in 1..saves[j].at : y \in 1..Len(work) /\ work'[y] = work[y]
        /\ \A w \in Range(work') : w \in Range(work) /\ \E y \in 1..saves[j].at : w = work[y]
    <3> DEFINE n == saves[j].at
    <3> HIDE DEF n
    <3>1. /\ Len(SubSeq(work, 1, n)) = n
          /\ \A y \in 1..n : y \in 1..Len(work) /\ SubSeq(work, 1, n)[y] = work[y]
          /\ \A w \in Range(SubSeq(work, 1, n)) :
               w \in Range(work) /\ \E y \in 1..n : w = work[y]
      <4>1. n \in 0..Len(work)
        BY <2>2 DEF n
      <4> QED
        BY <1>1, <4>1, Prefix
    <3> QED
      BY <2>1, <3>1, Zenon DEF n
  <2>5. ASSUME NEW w \in Range(work'), w \notin excused
        PROVE  w \in Range(told')
    <3>1. w \in Range(told) /\ w \in Nat
      BY <2>4, <2>5, Kinds DEF WorkIsTold, Inv
    <3>2. PICK x \in 1..Len(told) : w = told[x]
      BY <3>1, Elements DEF Inv
    <3>3. PICK y \in 1..saves[j].at : w = work[y]
      BY <2>4
    <3>4. ~(x > m)
      <4>1. ~(w < w)
        BY <3>1
      <4> QED
        BY <2>3, <3>2, <3>3, <4>1, Zenon
    <3>5. x \in 1..m
      BY <1>1, <3>4
    <3> QED
      BY <1>3, <3>2, <3>5
  <2> QED
    BY <2>1, <2>4, <2>5 DEF WorkIsTold
<1>6. CASE ~done
  <2>1. work' = work /\ excused' = excused \cup lost
    BY <1>6 DEF RollbackTo, m
  <2> HIDE DEF id, j, lost, done
  <2>2. ASSUME NEW w \in Range(told)
        PROVE  w \in Range(told') \cup lost
    <3>1. PICK x \in 1..Len(told) : w = told[x]
      BY Elements DEF Inv
    <3>2. x \in 1..m \/ x > m
      BY <1>1
    <3> QED
      BY <1>3, <1>4, <3>1, <3>2
  <2> QED
    BY <2>1, <2>2 DEF WorkIsTold
<1> QED
  BY <1>5, <1>6

LEMMA WorkIsToldStep == Inv /\ WorkIsTold /\ [Next]_vars => WorkIsTold'
<1> SUFFICES ASSUME Inv, WorkIsTold, [Next]_vars PROVE WorkIsTold'
  OBVIOUS
<1>1. ASSUME work' = <<>>
      PROVE  WorkIsTold'
  BY <1>1, Empty DEF WorkIsTold
<1>2. ASSUME work' = work, Range(told) \cup excused \subseteq Range(told') \cup excused'
      PROVE  WorkIsTold'
  BY <1>2 DEF WorkIsTold
<1>3. CASE UNCHANGED vars
  BY <1>2, <1>3 DEF vars, db, app
<1>4. CASE Connect \/ Close \/ Commit \/ Rollback \/ EndLost \/ DatabaseLost \/ ProxyLost
  BY <1>1, <1>4 DEF Connect, Close, Commit, Rollback, EndLost, DatabaseLost, ProxyLost,
                    EndTx, CommitTx, RollbackTx, NewTx
<1>5. CASE CloseThrows
  BY <1>1, <1>5 DEF CloseThrows, Inv, Modes, db
<1>6. CASE ConnectFails \/ UpdateFails \/ SetSavepoint
  BY <1>2, <1>6 DEF ConnectFails, UpdateFails, SetSavepoint, app, db
<1>7. ASSUME NEW on \in BOOLEAN, SetAutoCommit(on)
      PROVE  WorkIsTold'
  <2>1. work' = <<>> \/ work' = work
    BY <1>7 DEF SetAutoCommit, SwitchTx, CommitTx, NewTx, db
  <2>2. CASE ToldTooEarly \/ UNCHANGED app
    <3>1. Range(told) \cup excused \subseteq Range(told') \cup excused'
      BY <2>2 DEF ToldTooEarly, app
    <3> QED
      BY <1>1, <1>2, <2>1, <3>1
  <2>3. CASE ToldCommitted /\ on /\ dbtype # "oracle"
    <3>1. CASE mAuto \/ link = "dbDown"
      BY <1>1, <2>1, <2>3, <3>1 DEF Inv, Modes, FlagMatchesDatabase, CanSwitch, SetAutoCommit
    <3>2. CASE ~mAuto /\ link # "dbDown"
      BY <1>1, <1>7, <2>3, <3>2 DEF SetAutoCommit, SwitchTx, CommitTx, NewTx
    <3> QED
      BY <3>1, <3>2
  <2> QED
    BY <1>7, <2>2, <2>3 DEF SetAutoCommit, ToldSwitched
<1>8. ASSUME NEW i \in 1..Len(marks), RollbackTo(i) \/ ReleaseSavepoint(i) \/ ReleaseCommits(i)
      PROVE  WorkIsTold'
  <2>1. CASE RollbackTo(i)
    BY <2>1, RollbackToKeepsTold
  <2>2. CASE ReleaseSavepoint(i)
    BY <1>2, <2>2 DEF ReleaseSavepoint, app
  <2>3. CASE ReleaseCommits(i)
    BY <1>1, <2>3 DEF ReleaseCommits, CommitTx, NewTx
  <2> QED
    BY <1>8, <2>1, <2>2, <2>3
<1>9. CASE Update
  BY <1>9, UpdateKeepsTold
<1> QED
  BY <1>3, <1>4, <1>5, <1>6, <1>7, <1>8, <1>9 DEF Next

(* The three parts of the state are those of the program.                  *)
THEOREM TypeCorrect == Spec => []TypeOK
<1>1. Inv => TypeOK
  BY DEF Inv
<1> QED
  BY <1>1, SpecInv, PTL

(* m_AutoCommit tells whether the plugin's database is in a transaction,   *)
(* through failed commits and lost connections, with the two exceptions    *)
(* the property names.                                                     *)
THEOREM FlagMatchesTheDatabase == Spec => []FlagMatchesDatabase
<1>1. Inv => FlagMatchesDatabase
  BY DEF Inv
<1> QED
  BY <1>1, SpecInv, PTL

(* EConnection's flag is the plugin's, until the object connects again.    *)
THEOREM ClientAndPluginAgree == Spec => []ModesAgree
<1>1. Inv => ModesAgree
  BY DEF Inv
<1> QED
  BY <1>1, SpecInv, PTL

(* rollback() and close(): an update that a call undid is never durable,   *)
(* unless it was made or undone while the parts disagreed.                 *)
THEOREM UndoneWorkStaysUndone == Spec => []UndoneStaysUndone
<1>1. Inv => UndoneStaysUndone
  BY DEF Inv
<1> QED
  BY <1>1, SpecInv, PTL

-----------------------------------------------------------------------------
(* What is committed, and what was promised                                *)

LEMMA UncommittedStep == Inv /\ UncommittedIsNotDurable /\ [Next]_vars => UncommittedIsNotDurable'
<1> SUFFICES ASSUME Inv, UncommittedIsNotDurable, [Next]_vars, connects' <= 1, ~released'
             PROVE  Range(told') \cap durable' = {}
  BY DEF UncommittedIsNotDurable
<1>0. /\ connects \in Nat
      /\ link = "up" /\ connects <= 1 => autoCommit = mAuto
      /\ told = <<>> => Range(told) = {}
  BY Empty, Kinds, BoundsAssumption DEF Inv, ModesAgree
<1>1. ASSUME told' = <<>>
      PROVE  Range(told') \cap durable' = {}
  BY <1>1, Empty
<1>2. ASSUME Range(told') \subseteq Range(told), durable' = durable,
             connects' = connects, released' = released
      PROVE  Range(told') \cap durable' = {}
  BY <1>2 DEF UncommittedIsNotDurable
<1>3. CASE UNCHANGED vars
  BY <1>2, <1>3 DEF vars, db, app, session, bounds
<1>4. CASE Connect \/ Close \/ CloseThrows \/ Commit \/ Rollback \/ EndLost
  BY <1>1, <1>4 DEF Connect, Close, CloseThrows, Commit, Rollback, EndLost,
                    ToldUndone, ToldCommitted, EndTold
<1>5. CASE UpdateFails \/ SetSavepoint \/ DatabaseLost
  BY <1>2, <1>5 DEF UpdateFails, SetSavepoint, DatabaseLost, RollbackTx, app, session, bounds
<1>6. CASE ProxyLost
  <2>1. CASE durable' = durable
    BY <1>2, <1>6, <2>1 DEF ProxyLost, app, bounds
  <2>2. CASE CommitsOnSuccess /\ CommitTx("none") /\ durable' # durable
    <3>1. link = "up" /\ mAuto /\ connects <= 1
      BY <1>6, <2>2 DEF ProxyLost, bounds, CommitTx, CommitsOnSuccess, Inv, Modes
    <3>2. told' = <<>>
      BY <1>0, <1>6, <3>1 DEF ProxyLost, app, Inv, Modes
    <3> QED
      BY <1>1, <3>2
  <2> QED
    BY <1>6, <2>1, <2>2 DEF ProxyLost, EndTx, RollbackTx
<1>7. ASSUME NEW on \in BOOLEAN, SetAutoCommit(on)
      PROVE  Range(told') \cap durable' = {}
  <2>1. CASE durable' = durable
    BY <1>1, <1>2, <1>7, <2>1 DEF SetAutoCommit, ToldSwitched, ToldTooEarly, ToldCommitted,
                                  EndTold, app, session, bounds
  <2>2. CASE durable' # durable
    <3>1. on /\ link = "up"
      BY <1>7, <2>2 DEF SetAutoCommit, CanSwitch, SwitchTx, CommitTx, NewTx, db
    <3>2. told' = <<>>
      BY <1>7, <3>1 DEF SetAutoCommit, ToldSwitched, ToldTooEarly, ToldCommitted, EndTold,
                        app, Inv, Modes
    <3> QED
      BY <1>1, <3>2
  <2> QED
    BY <2>1, <2>2
<1>8. CASE Update
  <2>1. CASE autoCommit
    BY <1>1, <1>8, <2>1 DEF Update, ToldUpdate, Inv, Modes
  <2>2. CASE ~autoCommit
    <3> DEFINE w == count + 1
    <3>1. w \in Writes /\ told \in Seq(Writes) /\ count \in Nat /\ told' = Append(told, w)
      BY <1>8, <2>2, Kinds, BoundsAssumption DEF Inv, TypeOK, Update, ToldUpdate, Writes
    <3>2. Range(told') = Range(told) \cup {w}
      <4> HIDE DEF w
      <4> QED BY <3>1, AppendRange
    <3>3. durable' = durable
      BY <1>0, <1>8, <2>2 DEF Update, ExecuteUpdate, CommitsOnSuccess, Inv, FlagMatchesDatabase,
                              session
    <3>4. w \notin durable
      BY <3>1, Kinds DEF Inv, Numbers, TypeOK, Writes
    <3>5. connects' = connects /\ released' = released
      BY <1>8 DEF Update, session
    <3> QED
      BY <3>2, <3>3, <3>4, <3>5 DEF UncommittedIsNotDurable
  <2> QED
    BY <2>1, <2>2
<1>9. ASSUME NEW i \in 1..Len(marks), RollbackTo(i) \/ ReleaseSavepoint(i) \/ ReleaseCommits(i)
      PROVE  Range(told') \cap durable' = {}
  <2>1. CASE RollbackTo(i)
    <3>1. told' = SubSeq(told, 1, marks[i].at) /\ marks[i].at \in 0..Len(told)
      BY <2>1, Kinds DEF RollbackTo, Inv, Numbers
    <3>2. Range(told') \subseteq Range(told)
      BY <3>1, Prefix DEF Inv, TypeOK
    <3> QED
      BY <1>2, <2>1, <3>2 DEF RollbackTo, session, bounds
  <2>2. CASE ReleaseSavepoint(i)
    BY <1>2, <2>2 DEF ReleaseSavepoint, session, app, bounds
  <2>3. CASE ReleaseCommits(i)
    BY <2>3 DEF ReleaseCommits
  <2> QED
    BY <1>9, <2>1, <2>2, <2>3
<1>10. CASE ConnectFails
  <2>1. connects' <= 1 => connects <= 1
    BY <1>0, <1>10 DEF ConnectFails
  <2> QED
    BY <1>10, <2>1 DEF ConnectFails, db, app, session, UncommittedIsNotDurable
<1> QED
  BY <1>3, <1>4, <1>5, <1>6, <1>7, <1>8, <1>9, <1>10 DEF Next

(* Until its second connect(), and but for the savepoints that FreeTDS     *)
(* releases, what an application did without auto-commit is not committed  *)
(* before it says so, with every plugin and whatever connection breaks.    *)
THEOREM NothingCommitsEarly == Spec => []UncommittedIsNotDurable
<1>1. Init => UncommittedIsNotDurable
  BY Empty DEF Init, UncommittedIsNotDurable
<1> QED
  BY <1>1, UncommittedStep, SpecInv, PTL DEF Spec

(* MySQL and SQL Server commit what they were asked to: nothing is told    *)
(* permanent that is not.                                                  *)
NothingSpoiled == dbtype \in {"mysql", "freetds"} => spoiled = {}

LEMMA NothingSpoiledStep == Inv /\ NothingSpoiled /\ [Next]_vars => NothingSpoiled'
<1> SUFFICES ASSUME Inv, NothingSpoiled, [Next]_vars, dbtype' \in {"mysql", "freetds"}
             PROVE  spoiled' = {}
  BY DEF NothingSpoiled
<1>1. CASE UNCHANGED vars
  BY <1>1 DEF vars, app, session, NothingSpoiled
<1>2. CASE \/ Connect \/ ConnectFails \/ Close \/ CloseThrows \/ Rollback \/ EndLost \/ Update \/ UpdateFails
           \/ SetSavepoint \/ DatabaseLost \/ ProxyLost
  BY <1>2 DEF Connect, ConnectFails, Close, CloseThrows, Rollback, EndLost, Update, UpdateFails, SetSavepoint,
              DatabaseLost, ProxyLost, ToldUndone, ToldUpdate, session, app, NothingSpoiled
<1>3. CASE Commit
  BY <1>3 DEF Commit, ToldCommitted, session, NothingSpoiled, Inv, Modes
<1>4. ASSUME NEW on \in BOOLEAN, SetAutoCommit(on)
      PROVE  spoiled' = {}
  BY <1>4 DEF SetAutoCommit, ToldSwitched, ToldCommitted, app, NothingSpoiled, Inv, Modes
<1>5. ASSUME NEW i \in 1..Len(marks), RollbackTo(i) \/ ReleaseSavepoint(i) \/ ReleaseCommits(i)
      PROVE  spoiled' = {}
  BY <1>5 DEF RollbackTo, ReleaseSavepoint, ReleaseCommits, session, app, NothingSpoiled
<1> QED
  BY <1>1, <1>2, <1>3, <1>4, <1>5 DEF Next

(* What a commit() or an auto-commit that succeeded said is permanent is   *)
(* committed: always with MySQL and FreeTDS; but for the commit of an      *)
(* aborted transaction with PostgreSQL, and the setAutoCommit(true) that   *)
(* commits nothing with Oracle.                                            *)
THEOREM CommittedWorkIsDurable == Spec => []PromisedIsDurable
<1>1. Init => NothingSpoiled
  BY DEF Init, NothingSpoiled
<1>2. Inv /\ NothingSpoiled => PromisedIsDurable
  BY DEF Inv, NothingSpoiled, PromisedOrSpoiled, PromisedIsDurable
<1> QED
  BY <1>1, <1>2, NothingSpoiledStep, SpecInv, PTL DEF Spec

(* The living transaction of the database has all the updates told, until  *)
(* a second connect(), and no others but those the property names; a       *)
(* commit() makes these permanent.                                         *)
THEOREM TransactionHasWhatWasTold == Spec => []WorkIsWhatWasTold
<1>1. Init => WorkIsTold /\ UncommittedIsNotDurable
  BY Empty DEF Init, WorkIsTold, UncommittedIsNotDurable
<1>2. Inv /\ WorkIsTold /\ UncommittedIsNotDurable => WorkIsWhatWasTold
  <2> SUFFICES ASSUME Inv, WorkIsTold, UncommittedIsNotDurable, link = "up", tx = "open"
               PROVE  /\ connects <= 1 => Range(told) \subseteq Range(work)
                      /\ Range(work) \ excused = Range(told) \ excused
                      /\ \A x, y \in 1..Len(work) : x < y => work[x] < work[y]
    BY DEF WorkIsWhatWasTold
  <2>1. ~released
    BY DEF Inv, Modes
  <2>2. Range(told) \subseteq Range(work) \cup durable
    BY DEF Inv, ToldIsThere
  <2>3. connects <= 1 => Range(told) \subseteq Range(work)
    BY <2>1, <2>2 DEF UncommittedIsNotDurable
  <2>4. Range(work) \ excused = Range(told) \ excused
    BY <2>2 DEF Inv, WorkIsTold, EarlyIsExcused
  <2> QED
    BY <2>3, <2>4 DEF WorkIsTold
<1>3. Spec => [](WorkIsTold /\ UncommittedIsNotDurable)
  BY <1>1, WorkIsToldStep, UncommittedStep, SpecInv, PTL DEF Spec
<1> QED
  BY <1>2, <1>3, SpecInv, PTL
=============================================================================
