------------------------ MODULE ServerRestartProofs ------------------------
(***************************************************************************)
(* Proofs about ServerRestart, for any number of commands and sessions.    *)
(* The inductive invariant Inv says which processes can be at the pid file *)
(* at once, and what the one that is there may rely on.                    *)
(***************************************************************************)
EXTENDS ServerRestart, TLAPS

(* Between its start and its last access to the pid file.                  *)
AtFile(p) == pc[p] \in {"read", "signal", "unlink", "load", "store"}

(* A server: it has written the pid file and its worker has not ended.     *)
Running(p) == pc[p] \in {"spawn", "quit", "term", "join"} /\ worker[p] # "ended"

(* It has written the pid file; as a server it has ended, or a signal came *)
(* before it was ready.                                                    *)
Stored(p) ==
  \/ pc[p] \in {"spawn", "quit", "term", "join"}
  \/ pc[p] = "gone" /\ (worker[p] = "ended" \/ p \in early)

OneAtFile == \A p, q \in Pids : AtFile(p) /\ AtFile(q) => p = q

Threads ==
  \A p \in Pids :
    /\ cmd[p] = "none" => pc[p] = "none"
    /\ worker[p] \notin {"none", "ended"} => pc[p] \in {"quit", "term", "join"}
    /\ pc[p] \in {"quit", "term", "join"} => worker[p] # "none"
    /\ pc[p] \notin {"quit", "term", "join", "gone"} => worker[p] = "none"

FileNamesRunning == \A p \in Pids : Running(p) /\ told[p] = {} => pidFile = p

FileNamesStored == \A p \in Pids : pidFile = p => Stored(p)

TargetIsFile == \A q \in Pids : pc[q] = "signal" => target[q] = pidFile

(* Behind the signal of a restart, and in a start, no server is left that  *)
(* was not told to stop.                                                   *)
OthersTold ==
  \A q \in Pids : pc[q] \in {"unlink", "load", "store"} =>
    \A p \in Pids : Running(p) => told[p] # {}

PendingWasTold == \A p \in Pids : pending[p] \subseteq told[p]

Stopping ==
  \A p \in Pids : told[p] # {} /\ pending[p] = {} =>
    p \in early \/ worker[p] \in {"draining", "closed", "ended"}

Inv ==
  /\ TypeOK
  /\ OneAtFile
  /\ Threads
  /\ FileNamesRunning
  /\ FileNamesStored
  /\ TargetIsFile
  /\ OthersTold
  /\ PendingWasTold
  /\ Stopping
  /\ QuitCutsNoSession

-----------------------------------------------------------------------------
(* Each action keeps Inv                                                   *)

LEMMA NoPidIsNone == NoPid \notin Pids
BY BoundsAssumption DEF NoPid, Pids

(* A command: no other is at the pid file, and a start finds no server     *)
(* that was not told to stop.                                              *)
LEMMA IssueKeeps ==
  ASSUME Inv, NEW p \in Pids, NEW c \in {"start", "restart", "stop", "kill"}, Issue(p, c)
  PROVE  Inv'
<1> USE DEF Inv, TypeOK, Issue, Commands, FileAtRest, Alive, server, history
<1>1. TypeOK'
  BY BoundsAssumption, NoPidIsNone, SMTT(20)
<1>2. OneAtFile' /\ Threads' /\ TargetIsFile'
  BY NoPidIsNone, SMTT(20) DEF OneAtFile, AtFile, Threads, TargetIsFile
<1>3. FileNamesRunning' /\ FileNamesStored' /\ OthersTold'
  BY NoPidIsNone, SMTT(20) DEF FileNamesRunning, Running, FileNamesStored, Stored, OthersTold, Threads
<1>4. PendingWasTold' /\ Stopping' /\ QuitCutsNoSession'
  BY NoPidIsNone, SMTT(20) DEF PendingWasTold, Stopping, QuitCutsNoSession
<1> QED
  BY <1>1, <1>2, <1>3, <1>4

(* The pid that is read is the file's, of a process that has stored it.    *)
LEMMA ReadPidKeeps ==
  ASSUME Inv, NEW p \in Pids, ReadPid(p)
  PROVE  Inv'
<1> USE DEF Inv, TypeOK, ReadPid, Go, server, history
<1>1. TypeOK'
  BY NoPidIsNone, SMTT(20)
<1>2. OneAtFile' /\ Threads' /\ TargetIsFile'
  BY NoPidIsNone, SMTT(20) DEF OneAtFile, AtFile, Threads, TargetIsFile
<1>3. FileNamesRunning' /\ FileNamesStored' /\ OthersTold'
  BY NoPidIsNone, SMTT(20) DEF FileNamesRunning, Running, FileNamesStored, Stored, OthersTold
<1>4. PendingWasTold' /\ Stopping' /\ QuitCutsNoSession'
  BY NoPidIsNone, SMTT(20) DEF PendingWasTold, Stopping, QuitCutsNoSession
<1> QED
  BY <1>1, <1>2, <1>3, <1>4

(* The target is the process of the pid file, the only one that may run    *)
(* and was not told.  If it is gone, it has ended or took a signal early.  *)
LEMMA SendSignalKeeps ==
  ASSUME Inv, NEW p \in Pids, SendSignal(p)
  PROVE  Inv'
<1> USE DEF Inv, TypeOK, SendSignal, Signal, Alive, Go, server
<1>1. TypeOK'
  BY NoPidIsNone, SMTT(20)
<1>2. OneAtFile' /\ Threads' /\ TargetIsFile'
  BY NoPidIsNone, SMTT(20) DEF OneAtFile, AtFile, Threads, TargetIsFile
<1>3. FileNamesRunning' /\ FileNamesStored' /\ OthersTold'
  BY NoPidIsNone, SMTT(20) DEF FileNamesRunning, Running, FileNamesStored, Stored, OthersTold, TargetIsFile
<1>4. PendingWasTold' /\ Stopping' /\ QuitCutsNoSession'
  BY NoPidIsNone, SMTT(20) DEF PendingWasTold, Stopping, QuitCutsNoSession, TargetIsFile, FileNamesStored, Stored, Threads
<1> QED
  BY <1>1, <1>2, <1>3, <1>4

(* The servers whose name the file loses were told.                        *)
LEMMA UnlinkPidKeeps ==
  ASSUME Inv, NEW p \in Pids, UnlinkPid(p)
  PROVE  Inv'
<1> USE DEF Inv, TypeOK, UnlinkPid, Go, server, history
<1>1. TypeOK'
  BY NoPidIsNone, SMTT(20)
<1>2. OneAtFile' /\ Threads' /\ TargetIsFile'
  BY NoPidIsNone, SMTT(20) DEF OneAtFile, AtFile, Threads, TargetIsFile
<1>3. FileNamesRunning' /\ FileNamesStored' /\ OthersTold'
  BY NoPidIsNone, SMTT(20) DEF FileNamesRunning, Running, FileNamesStored, Stored, OthersTold
<1>4. PendingWasTold' /\ Stopping' /\ QuitCutsNoSession'
  BY NoPidIsNone, SMTT(20) DEF PendingWasTold, Stopping, QuitCutsNoSession
<1> QED
  BY <1>1, <1>2, <1>3, <1>4

(* A command that loads its configuration has passed the signal.           *)
LEMMA LoadKeeps ==
  ASSUME Inv, NEW p \in Pids, Load(p)
  PROVE  Inv'
<1> USE DEF Inv, TypeOK, Load, Go, server, history
<1>1. TypeOK'
  BY NoPidIsNone, SMTT(20)
<1>2. OneAtFile' /\ Threads' /\ TargetIsFile'
  BY NoPidIsNone, SMTT(20) DEF OneAtFile, AtFile, Threads, TargetIsFile
<1>3. FileNamesRunning' /\ FileNamesStored' /\ OthersTold'
  BY NoPidIsNone, SMTT(20) DEF FileNamesRunning, Running, FileNamesStored, Stored, OthersTold
<1>4. PendingWasTold' /\ Stopping' /\ QuitCutsNoSession'
  BY NoPidIsNone, SMTT(20) DEF PendingWasTold, Stopping, QuitCutsNoSession
<1> QED
  BY <1>1, <1>2, <1>3, <1>4

(* The servers whose name the file loses were told; the process now counts *)
(* as a server and is the one that is named.                               *)
LEMMA StorePidKeeps ==
  ASSUME Inv, NEW p \in Pids, StorePid(p)
  PROVE  Inv'
<1> USE DEF Inv, TypeOK, StorePid, Go, server, history
<1>1. TypeOK'
  BY NoPidIsNone, SMTT(20)
<1>2. OneAtFile' /\ Threads' /\ TargetIsFile'
  BY NoPidIsNone, SMTT(20) DEF OneAtFile, AtFile, Threads, TargetIsFile
<1>3. FileNamesRunning' /\ FileNamesStored' /\ OthersTold'
  BY NoPidIsNone, SMTT(20) DEF FileNamesRunning, Running, FileNamesStored, Stored, OthersTold, OneAtFile, AtFile, Threads
<1>4. PendingWasTold' /\ Stopping' /\ QuitCutsNoSession'
  BY NoPidIsNone, SMTT(20) DEF PendingWasTold, Stopping, QuitCutsNoSession
<1> QED
  BY <1>1, <1>2, <1>3, <1>4

(* The main thread of a server, and its end.                               *)
LEMMA SpawnKeeps ==
  ASSUME Inv, NEW p \in Pids, Spawn(p)
  PROVE  Inv'
<1> USE DEF Inv, TypeOK, Spawn, Go, history
<1>1. TypeOK'
  BY NoPidIsNone, SMTT(20)
<1>2. OneAtFile' /\ Threads' /\ TargetIsFile'
  BY NoPidIsNone, SMTT(20) DEF OneAtFile, AtFile, Threads, TargetIsFile
<1>3. FileNamesRunning' /\ FileNamesStored' /\ OthersTold'
  BY NoPidIsNone, SMTT(20) DEF FileNamesRunning, Running, FileNamesStored, Stored, OthersTold, Threads
<1>4. PendingWasTold' /\ Stopping' /\ QuitCutsNoSession'
  BY NoPidIsNone, SMTT(20) DEF PendingWasTold, Stopping, QuitCutsNoSession, Threads
<1> QED
  BY <1>1, <1>2, <1>3, <1>4

LEMMA InstallHandlerKeeps ==
  ASSUME Inv, NEW p \in Pids, InstallHandler(p)
  PROVE  Inv'
<1> USE DEF Inv, TypeOK, InstallHandler, Go, server, history
<1>1. TypeOK'
  BY NoPidIsNone, SMTT(20)
<1>2. OneAtFile' /\ Threads' /\ TargetIsFile'
  BY NoPidIsNone, SMTT(20) DEF OneAtFile, AtFile, Threads, TargetIsFile
<1>3. FileNamesRunning' /\ FileNamesStored' /\ OthersTold'
  BY NoPidIsNone, SMTT(20) DEF FileNamesRunning, Running, FileNamesStored, Stored, OthersTold
<1>4. PendingWasTold' /\ Stopping' /\ QuitCutsNoSession'
  BY NoPidIsNone, SMTT(20) DEF PendingWasTold, Stopping, QuitCutsNoSession
<1> QED
  BY <1>1, <1>2, <1>3, <1>4

LEMMA JoinKeeps ==
  ASSUME Inv, NEW p \in Pids, Join(p)
  PROVE  Inv'
<1> USE DEF Inv, TypeOK, Join, Go, server, history
<1>1. TypeOK'
  BY NoPidIsNone, SMTT(20)
<1>2. OneAtFile' /\ Threads' /\ TargetIsFile'
  BY NoPidIsNone, SMTT(20) DEF OneAtFile, AtFile, Threads, TargetIsFile
<1>3. FileNamesRunning' /\ FileNamesStored' /\ OthersTold'
  BY NoPidIsNone, SMTT(20) DEF FileNamesRunning, Running, FileNamesStored, Stored, OthersTold
<1>4. PendingWasTold' /\ Stopping' /\ QuitCutsNoSession'
  BY NoPidIsNone, SMTT(20) DEF PendingWasTold, Stopping, QuitCutsNoSession
<1> QED
  BY <1>1, <1>2, <1>3, <1>4

(* The worker of a server stays between its creation and its end.          *)
LEMMA CreateKeeps ==
  ASSUME Inv, NEW p \in Pids, Create(p)
  PROVE  Inv'
<1> USE DEF Inv, TypeOK, Create, Become, process, history
<1>1. TypeOK'
  BY NoPidIsNone, SMTT(20)
<1>2. OneAtFile' /\ Threads' /\ TargetIsFile'
  BY NoPidIsNone, SMTT(20) DEF OneAtFile, AtFile, Threads, TargetIsFile
<1>3. FileNamesRunning' /\ FileNamesStored' /\ OthersTold'
  BY NoPidIsNone, SMTT(20) DEF FileNamesRunning, Running, FileNamesStored, Stored, OthersTold, Threads
<1>4. PendingWasTold' /\ Stopping' /\ QuitCutsNoSession'
  BY NoPidIsNone, SMTT(20) DEF PendingWasTold, Stopping, QuitCutsNoSession
<1> QED
  BY <1>1, <1>2, <1>3, <1>4

LEMMA ListenKeeps ==
  ASSUME Inv, NEW p \in Pids, Listen(p)
  PROVE  Inv'
<1> USE DEF Inv, TypeOK, Listen, Become, process, history
<1>1. TypeOK'
  BY NoPidIsNone, SMTT(20)
<1>2. OneAtFile' /\ Threads' /\ TargetIsFile'
  BY NoPidIsNone, SMTT(20) DEF OneAtFile, AtFile, Threads, TargetIsFile
<1>3. FileNamesRunning' /\ FileNamesStored' /\ OthersTold'
  BY NoPidIsNone, SMTT(20) DEF FileNamesRunning, Running, FileNamesStored, Stored, OthersTold, Threads
<1>4. PendingWasTold' /\ Stopping' /\ QuitCutsNoSession'
  BY NoPidIsNone, SMTT(20) DEF PendingWasTold, Stopping, QuitCutsNoSession
<1> QED
  BY <1>1, <1>2, <1>3, <1>4

LEMMA ListenFailsKeeps ==
  ASSUME Inv, NEW p \in Pids, ListenFails(p)
  PROVE  Inv'
<1> USE DEF Inv, TypeOK, ListenFails, Become, process
<1>1. TypeOK'
  BY BoundsAssumption, NoPidIsNone, SMTT(20)
<1>2. OneAtFile' /\ Threads' /\ TargetIsFile'
  BY NoPidIsNone, SMTT(20) DEF OneAtFile, AtFile, Threads, TargetIsFile
<1>3. FileNamesRunning' /\ FileNamesStored' /\ OthersTold'
  BY NoPidIsNone, SMTT(20) DEF FileNamesRunning, Running, FileNamesStored, Stored, OthersTold, Threads
<1>4. PendingWasTold' /\ Stopping' /\ QuitCutsNoSession'
  BY NoPidIsNone, SMTT(20) DEF PendingWasTold, Stopping, QuitCutsNoSession
<1> QED
  BY <1>1, <1>2, <1>3, <1>4

LEMMA OpenSessionKeeps ==
  ASSUME Inv, NEW p \in Pids, OpenSession(p)
  PROVE  Inv'
<1> USE DEF Inv, TypeOK, OpenSession, process, history
<1>1. TypeOK'
  BY BoundsAssumption, NoPidIsNone, SMTT(20)
<1>2. OneAtFile' /\ Threads' /\ TargetIsFile'
  BY NoPidIsNone, SMTT(20) DEF OneAtFile, AtFile, Threads, TargetIsFile
<1>3. FileNamesRunning' /\ FileNamesStored' /\ OthersTold'
  BY NoPidIsNone, SMTT(20) DEF FileNamesRunning, Running, FileNamesStored, Stored, OthersTold
<1>4. PendingWasTold' /\ Stopping' /\ QuitCutsNoSession'
  BY NoPidIsNone, SMTT(20) DEF PendingWasTold, Stopping, QuitCutsNoSession
<1> QED
  BY <1>1, <1>2, <1>3, <1>4

LEMMA CloseSessionKeeps ==
  ASSUME Inv, NEW p \in Pids, CloseSession(p)
  PROVE  Inv'
<1> USE DEF Inv, TypeOK, CloseSession, process, history
<1>1. TypeOK'
  BY BoundsAssumption, NoPidIsNone, SMTT(20)
<1>2. OneAtFile' /\ Threads' /\ TargetIsFile'
  BY NoPidIsNone, SMTT(20) DEF OneAtFile, AtFile, Threads, TargetIsFile
<1>3. FileNamesRunning' /\ FileNamesStored' /\ OthersTold'
  BY NoPidIsNone, SMTT(20) DEF FileNamesRunning, Running, FileNamesStored, Stored, OthersTold
<1>4. PendingWasTold' /\ Stopping' /\ QuitCutsNoSession'
  BY NoPidIsNone, SMTT(20) DEF PendingWasTold, Stopping, QuitCutsNoSession
<1> QED
  BY <1>1, <1>2, <1>3, <1>4

LEMMA ClosePortKeeps ==
  ASSUME Inv, NEW p \in Pids, ClosePort(p)
  PROVE  Inv'
<1> USE DEF Inv, TypeOK, ClosePort, Become, process, history
<1>1. TypeOK'
  BY NoPidIsNone, SMTT(20)
<1>2. OneAtFile' /\ Threads' /\ TargetIsFile'
  BY NoPidIsNone, SMTT(20) DEF OneAtFile, AtFile, Threads, TargetIsFile
<1>3. FileNamesRunning' /\ FileNamesStored' /\ OthersTold'
  BY NoPidIsNone, SMTT(20) DEF FileNamesRunning, Running, FileNamesStored, Stored, OthersTold, Threads
<1>4. PendingWasTold' /\ Stopping' /\ QuitCutsNoSession'
  BY NoPidIsNone, SMTT(20) DEF PendingWasTold, Stopping, QuitCutsNoSession
<1> QED
  BY <1>1, <1>2, <1>3, <1>4

LEMMA DrainedKeeps ==
  ASSUME Inv, NEW p \in Pids, Drained(p)
  PROVE  Inv'
<1> USE DEF Inv, TypeOK, Drained, Become, process, history
<1>1. TypeOK'
  BY NoPidIsNone, SMTT(20)
<1>2. OneAtFile' /\ Threads' /\ TargetIsFile'
  BY NoPidIsNone, SMTT(20) DEF OneAtFile, AtFile, Threads, TargetIsFile
<1>3. FileNamesRunning' /\ FileNamesStored' /\ OthersTold'
  BY NoPidIsNone, SMTT(20) DEF FileNamesRunning, Running, FileNamesStored, Stored, OthersTold, Threads
<1>4. PendingWasTold' /\ Stopping' /\ QuitCutsNoSession'
  BY NoPidIsNone, SMTT(20) DEF PendingWasTold, Stopping, QuitCutsNoSession
<1> QED
  BY <1>1, <1>2, <1>3, <1>4

(* A signal in a process that is ready starts or makes the end of its      *)
(* server; in any other it is counted as early.                            *)
LEMMA TakeSignalKeeps ==
  ASSUME Inv, NEW p \in Pids, NEW s \in {"QUIT", "TERM"}, TakeSignal(p, s)
  PROVE  Inv'
<1> USE DEF Inv, TypeOK, TakeSignal, Alive, Handled, Die, Go, EndSessions, Shutdown, Serving, Become, Ready
<1>1. TypeOK'
  BY BoundsAssumption, NoPidIsNone, SMTT(20)
<1>2. OneAtFile' /\ Threads' /\ TargetIsFile'
  BY NoPidIsNone, SMTT(20) DEF OneAtFile, AtFile, Threads, TargetIsFile
<1>3. FileNamesRunning' /\ FileNamesStored' /\ OthersTold'
  BY NoPidIsNone, SMTT(20) DEF FileNamesRunning, Running, FileNamesStored, Stored, OthersTold, Threads
<1>4. PendingWasTold' /\ Stopping' /\ QuitCutsNoSession'
  BY NoPidIsNone, SMTT(20) DEF PendingWasTold, Stopping, QuitCutsNoSession, Threads
<1> QED
  BY <1>1, <1>2, <1>3, <1>4

(* A server that crashes has stored its pid, and has ended.                *)
LEMMA CrashKeeps ==
  ASSUME Inv, NEW p \in Pids, Crash(p)
  PROVE  Inv'
<1> USE DEF Inv, TypeOK, Crash, Alive, Serving, Die, Go, EndSessions
<1>1. TypeOK'
  BY BoundsAssumption, NoPidIsNone, SMTT(20)
<1>2. OneAtFile' /\ Threads' /\ TargetIsFile'
  BY NoPidIsNone, SMTT(20) DEF OneAtFile, AtFile, Threads, TargetIsFile
<1>3. FileNamesRunning' /\ FileNamesStored' /\ OthersTold'
  BY NoPidIsNone, SMTT(20) DEF FileNamesRunning, Running, FileNamesStored, Stored, OthersTold, Threads
<1>4. PendingWasTold' /\ Stopping' /\ QuitCutsNoSession'
  BY NoPidIsNone, SMTT(20) DEF PendingWasTold, Stopping, QuitCutsNoSession, Threads
<1> QED
  BY <1>1, <1>2, <1>3, <1>4

-----------------------------------------------------------------------------
(* The theorems                                                            *)

LEMMA InitInv == Init => Inv
<1> SUFFICES ASSUME Init PROVE Inv
  OBVIOUS
<1>1. TypeOK
  BY BoundsAssumption, SMT DEF Init, TypeOK
<1>2. OneAtFile /\ Threads /\ FileNamesRunning
  BY DEF Init, OneAtFile, AtFile, Threads, FileNamesRunning, Running
<1>3. FileNamesStored
  BY NoPidIsNone DEF Init, FileNamesStored
<1>4. TargetIsFile /\ OthersTold /\ PendingWasTold /\ Stopping /\ QuitCutsNoSession
  BY DEF Init, TargetIsFile, OthersTold, PendingWasTold, Stopping, QuitCutsNoSession
<1> QED
  BY <1>1, <1>2, <1>3, <1>4 DEF Inv

LEMMA InvStep == Inv /\ [Next]_vars => Inv'
<1> SUFFICES ASSUME Inv, [Next]_vars PROVE Inv'
  OBVIOUS
<1>1. CASE UNCHANGED vars
  BY <1>1 DEF Inv, TypeOK, OneAtFile, AtFile, Threads, FileNamesRunning, Running,
              FileNamesStored, Stored, TargetIsFile, OthersTold, PendingWasTold,
              Stopping, QuitCutsNoSession, vars, process, server, history
<1>2. ASSUME NEW p \in Pids, Main(p)
      PROVE  Inv'
  BY <1>2, ReadPidKeeps, SendSignalKeeps, UnlinkPidKeeps, LoadKeeps,
     StorePidKeeps, SpawnKeeps, InstallHandlerKeeps, JoinKeeps DEF Main
<1>3. ASSUME NEW p \in Pids, Worker(p)
      PROVE  Inv'
  BY <1>3, CreateKeeps, ListenKeeps, ListenFailsKeeps, ClosePortKeeps, DrainedKeeps
     DEF Worker
<1>4. ASSUME NEW p \in Pids, Signals(p)
      PROVE  Inv'
  BY <1>4, TakeSignalKeeps DEF Signals
<1> QED
  BY <1>1, <1>2, <1>3, <1>4, IssueKeeps, OpenSessionKeeps, CloseSessionKeeps, CrashKeeps
     DEF Next

LEMMA SpecInv == Spec => []Inv
BY InitInv, InvStep, PTL DEF Spec

(* The states of the processes are those of the program.                   *)
THEOREM TypeCorrect == Spec => []TypeOK
<1>1. Inv => TypeOK
  BY DEF Inv
<1> QED
  BY <1>1, SpecInv, PTL

(* doAction, storePidFile: while a server serves and nobody told it to     *)
(* stop, the pid file names it, however many commands came before.         *)
THEOREM PidFileNamesTheServer == Spec => []PidFileNamesServer
<1>1. Inv => PidFileNamesServer
  BY DEF Inv, Threads, FileNamesRunning, Running, PidFileNamesServer, Serving
<1> QED
  BY <1>1, SpecInv, PTL

(* handle_signal: a stop or restart cuts no session off, unless it reaches *)
(* a server that has no handler or no DBProxyServer yet.                   *)
THEOREM QuitIsGraceful == Spec => []QuitCutsNoSession
<1>1. Inv => QuitCutsNoSession
  BY DEF Inv
<1> QED
  BY <1>1, SpecInv, PTL

(* A server that took the signals it was sent, not too early, serves no    *)
(* more: a restart leaves no old server that takes new sessions.           *)
THEOREM SignalledServersStop == Spec => []ToldServersStop
<1>1. Inv => ToldServersStop
  BY DEF Inv, Stopping, ToldServersStop, Serving
<1> QED
  BY <1>1, SpecInv, PTL
=============================================================================
