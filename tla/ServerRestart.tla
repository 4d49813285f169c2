--------------------------- MODULE ServerRestart ---------------------------
(***************************************************************************)
(* The process of lite_dbproxy and the commands an operator gives it:      *)
(* start, restart, stop and kill are processes of their own that meet a    *)
(* running server through the pid file and through signals.  A restart     *)
(* signals the old server, removes its pid file and goes on as a start in  *)
(* the same process, while the old one lets its sessions come to an end.   *)
(*                                                                         *)
(* In a server two threads run at once: main writes the pid file, spawns   *)
(* the worker, installs the signal handlers and joins; the worker creates  *)
(* the DBProxyServer and listens.                                          *)
(*                                                                         *)
(* The kernel and ESocketAcceptor are external: one process holds the      *)
(* port, shutdown() closes it and lets sessions end (onConnection asks     *)
(* isDisposed() only), dispose() ends them.  What shutdown() does to an    *)
(* acceptor that does not listen yet is left open.                         *)
(***************************************************************************)
EXTENDS Naturals, FiniteSets

CONSTANTS
  MaxCommands,       \* bound on the commands
  MaxSessions        \* bound on the sessions of a server

ASSUME BoundsAssumption == MaxCommands \in Nat /\ MaxSessions \in Nat

Pids == 1..MaxCommands
NoPid == 0

VARIABLES
  cmd,               \* a process's action, "none" before it exists
  pc,                \* of its main thread
  target,            \* the pid it read
  worker,            \* of its worker thread
  tries,             \* the attempts to listen that failed
  pending,           \* signals sent to it
  open,              \* its sessions
  pidFile,           \* the pid in ./DBPROXY.pid, NoPid without the file
  told,              \* the signals commands sent it
  crashed,           \* the servers that crashed by themselves
  late,              \* those that gave up while a server told to stop had the port
  early,             \* those that took a signal before they were ready for it
  cut                \* the servers that ended with open sessions

process == <<cmd, pc, target>>
server  == <<worker, tries, open>>
history == <<told, crashed, late, early, cut>>
vars    == <<process, server, pending, pidFile, history>>

Init ==
  /\ cmd = [p \in Pids |-> "none"] /\ pc = [p \in Pids |-> "none"]
  /\ target = [p \in Pids |-> NoPid]
  /\ worker = [p \in Pids |-> "none"] /\ tries = [p \in Pids |-> 0]
  /\ open = [p \in Pids |-> 0]
  /\ pending = [p \in Pids |-> {}]
  /\ pidFile = NoPid
  /\ told = [p \in Pids |-> {}] /\ crashed = {} /\ late = {} /\ early = {} /\ cut = {}

-----------------------------------------------------------------------------
(* The operator                                                            *)

Alive(p) == pc[p] \notin {"none", "gone"}

Serving(p) == worker[p] = "serving"
HoldsPort(p) == worker[p] \in {"serving", "draining"}

(* No command is between its start and its last access to the pid file.    *)
FileAtRest == \A q \in Pids : pc[q] \in {"none", "spawn", "quit", "term", "join", "gone"}

(* A command gets the next pid.  The operator gives one command at a time, *)
(* though to servers that have only just written their pid file, and       *)
(* starts no server beside one that was not told to stop.                  *)
Issue(p, c) ==
  /\ cmd[p] = "none" /\ \A q \in 1..(p - 1) : cmd[q] # "none"
  /\ FileAtRest
  /\ c = "start" => \A q \in Pids : Alive(q) /\ worker[q] # "ended" => told[q] # {}
  /\ cmd' = [cmd EXCEPT ![p] = c]
  /\ pc' = [pc EXCEPT ![p] = IF c = "start" THEN "load" ELSE "read"]
  /\ UNCHANGED <<target, server, pending, pidFile, history>>

-----------------------------------------------------------------------------
(* doAction                                                                *)

Go(p, to) == pc' = [pc EXCEPT ![p] = to]

(* Mutant: a missing pid file is not noticed.                              *)
ReadPidUnchecked(p) ==
  /\ pc[p] = "read"
  /\ target' = [target EXCEPT ![p] = pidFile]
  /\ Go(p, "signal")
  /\ UNCHANGED <<cmd, server, pending, pidFile, history>>

(* getPidFromFile: without the file the command ends with an exception.    *)
ReadPid(p) ==
  /\ pc[p] = "read"
  /\ IF pidFile = NoPid
     THEN Go(p, "gone") /\ UNCHANGED target
     ELSE Go(p, "signal") /\ target' = [target EXCEPT ![p] = pidFile]
  /\ UNCHANGED <<cmd, server, pending, pidFile, history>>

Signal(p) == IF cmd[p] = "kill" THEN "TERM" ELSE "QUIT"

(* kill(pid, ...): nothing is checked, the process may be gone.            *)
SendSignal(p) ==
  /\ pc[p] = "signal"
  /\ pending' = IF Alive(target[p])
                THEN [pending EXCEPT ![target[p]] = @ \cup {Signal(p)}] ELSE pending
  /\ told' = [told EXCEPT ![target[p]] = @ \cup {Signal(p)}]
  /\ Go(p, "unlink")
  /\ UNCHANGED <<cmd, target, server, pidFile, crashed, late, early, cut>>

(* A restart sleeps 100 ms and falls through to the start.                 *)
UnlinkPid(p) ==
  /\ pc[p] = "unlink"
  /\ pidFile' = NoPid
  /\ Go(p, IF cmd[p] = "restart" THEN "load" ELSE "gone")
  /\ UNCHANGED <<cmd, target, server, pending, history>>

(* The configuration is read and its databases are tested.                 *)
Load(p) ==
  /\ pc[p] = "load"
  /\ Go(p, "store") \/ Go(p, "gone")
  /\ UNCHANGED <<cmd, target, server, pending, pidFile, history>>

(* Mutant: a restart leaves the file as it is.                             *)
StorePidAtStart(p) ==
  /\ pc[p] = "store"
  /\ pidFile' = IF cmd[p] = "start" THEN p ELSE pidFile
  /\ Go(p, "spawn")
  /\ UNCHANGED <<cmd, target, server, pending, history>>

StorePid(p) ==
  /\ pc[p] = "store"
  /\ pidFile' = p
  /\ Go(p, "spawn")
  /\ UNCHANGED <<cmd, target, server, pending, history>>

Spawn(p) ==
  /\ pc[p] = "spawn"
  /\ worker' = [worker EXCEPT ![p] = "new"]
  /\ Go(p, "quit")
  /\ UNCHANGED <<cmd, target, tries, open, pending, pidFile, history>>

(* eso_signal(SIGQUIT, ...), then eso_signal(SIGTERM, ...).                *)
InstallHandler(p) ==
  /\ pc[p] \in {"quit", "term"}
  /\ Go(p, IF pc[p] = "quit" THEN "term" ELSE "join")
  /\ UNCHANGED <<cmd, target, server, pending, pidFile, history>>

(* join() returns, and the process ends.                                   *)
Join(p) ==
  /\ pc[p] = "join" /\ worker[p] = "ended"
  /\ Go(p, "gone")
  /\ UNCHANGED <<cmd, target, server, pending, pidFile, history>>

-----------------------------------------------------------------------------
(* startDBProxy                                                            *)

Become(p, state) == worker' = [worker EXCEPT ![p] = state]

(* dbserver is assigned.                                                   *)
Create(p) ==
  /\ worker[p] = "new"
  /\ Become(p, "listen")
  /\ UNCHANGED <<process, tries, open, pending, pidFile, history>>

Listen(p) ==
  /\ worker[p] = "listen"
  /\ \A q \in Pids : ~HoldsPort(q)
  /\ Become(p, "serving")
  /\ UNCHANGED <<process, tries, open, pending, pidFile, history>>

(* Mutant: one attempt.                                                    *)
ListenFailsAtOnce(p) ==
  /\ worker[p] = "listen"
  /\ \E q \in Pids : HoldsPort(q)
  /\ Become(p, "ended")
  /\ UNCHANGED <<process, tries, open, pending, pidFile, history>>

(* EBindException is caught twice, 100 ms apart; the third ends the worker.*)
ListenFails(p) ==
  \E q \in Pids :
    /\ worker[p] = "listen" /\ HoldsPort(q)
    /\ IF tries[p] < 2
       THEN tries' = [tries EXCEPT ![p] = @ + 1] /\ UNCHANGED <<worker, late>>
       ELSE /\ Become(p, "ended")
            /\ late' = IF told[q] = {} THEN late ELSE late \cup {p}
            /\ UNCHANGED tries
    /\ UNCHANGED <<process, open, pending, pidFile, told, crashed, early, cut>>

OpenSession(p) ==
  /\ Serving(p) /\ open[p] < MaxSessions
  /\ open' = [open EXCEPT ![p] = @ + 1]
  /\ UNCHANGED <<process, worker, tries, pending, pidFile, history>>

(* The client ends its session.                                            *)
CloseSession(p) ==
  /\ open[p] > 0
  /\ open' = [open EXCEPT ![p] = @ - 1]
  /\ UNCHANGED <<process, worker, tries, pending, pidFile, history>>

(* After shutdown(): the port is closed, and listen() returns when the     *)
(* last session has ended.                                                 *)
ClosePort(p) ==
  /\ worker[p] = "draining"
  /\ Become(p, "closed")
  /\ UNCHANGED <<process, tries, open, pending, pidFile, history>>

Drained(p) ==
  /\ worker[p] = "closed" /\ open[p] = 0
  /\ Become(p, "ended")
  /\ UNCHANGED <<process, tries, open, pending, pidFile, history>>

-----------------------------------------------------------------------------
(* Signals                                                                 *)

(* The worker ends, its sessions with it.                                  *)
EndSessions(p) ==
  /\ worker' = [worker EXCEPT ![p] = IF @ = "none" THEN @ ELSE "ended"]
  /\ open' = [open EXCEPT ![p] = 0]
  /\ cut' = IF open[p] > 0 THEN cut \cup {p} ELSE cut

Die(p) == Go(p, "gone") /\ EndSessions(p)

Handled(p, s) == pc[p] = "join" \/ (pc[p] = "term" /\ s = "QUIT")

(* Mutant: SIGQUIT is handled as SIGTERM.                                  *)
ShutdownDisposes(p) == EndSessions(p)

(* Mutant: a serving acceptor does not notice.                             *)
ShutdownUnnoticed(p) == UNCHANGED <<worker, open, cut>>

(* dbserver->shutdown().                                                   *)
Shutdown(p) ==
  /\ \/ Serving(p) /\ Become(p, "draining")
     \/ worker[p] = "listen" /\ worker' \in {worker, [worker EXCEPT ![p] = "ended"]}
     \/ worker[p] \in {"draining", "closed", "ended"} /\ UNCHANGED worker
  /\ UNCHANGED <<open, cut>>

Ready(p) == pc[p] = "join" /\ worker[p] \notin {"new", "listen"}

(* A signal without handler ends the process; a handler uses dbserver,     *)
(* which is null until the worker has created it.                          *)
TakeSignal(p, s) ==
  /\ Alive(p) /\ s \in pending[p]
  /\ pending' = [pending EXCEPT ![p] = @ \ {s}]
  /\ IF ~Handled(p, s) \/ worker[p] = "new"
     THEN Die(p)
     ELSE /\ IF s = "QUIT" THEN Shutdown(p) ELSE EndSessions(p)
          /\ UNCHANGED pc
  /\ early' = IF Ready(p) THEN early ELSE early \cup {p}
  /\ UNCHANGED <<cmd, target, tries, pidFile, told, crashed, late>>

Crash(p) ==
  /\ Alive(p) /\ Serving(p)
  /\ Die(p)
  /\ crashed' = crashed \cup {p}
  /\ UNCHANGED <<cmd, target, tries, pending, pidFile, told, late, early>>

-----------------------------------------------------------------------------

Main(p) ==
  \/ ReadPid(p) \/ SendSignal(p) \/ UnlinkPid(p) \/ Load(p) \/ StorePid(p)
  \/ Spawn(p) \/ InstallHandler(p) \/ Join(p)

Worker(p) == Create(p) \/ Listen(p) \/ ListenFails(p) \/ ClosePort(p) \/ Drained(p)

Signals(p) == \E s \in {"QUIT", "TERM"} : TakeSignal(p, s)

Next ==
  \E p \in Pids :
    \/ \E c \in {"start", "restart", "stop", "kill"} : Issue(p, c)
    \/ Main(p) \/ Worker(p) \/ Signals(p)
    \/ OpenSession(p) \/ CloseSession(p) \/ Crash(p)

(* Threads run; operators, clients, signals and crashes are free.          *)
Fairness == \A p \in Pids : WF_vars(Main(p)) /\ WF_vars(Worker(p))

Spec == Init /\ [][Next]_vars /\ Fairness
-----------------------------------------------------------------------------
(* Properties                                                              *)

Commands == {"start", "restart", "stop", "kill"}

TypeOK ==
  /\ cmd \in [Pids -> Commands \cup {"none"}]
  /\ pc \in [Pids -> {"none", "read", "signal", "unlink", "load", "store", "spawn",
                      "quit", "term", "join", "gone"}]
  /\ target \in [Pids -> Pids \cup {NoPid}]
  /\ worker \in [Pids -> {"none", "new", "listen", "serving", "draining", "closed", "ended"}]
  /\ tries \in [Pids -> 0..2] /\ open \in [Pids -> 0..MaxSessions]
  /\ pending \in [Pids -> SUBSET {"QUIT", "TERM"}] /\ told \in [Pids -> SUBSET {"QUIT", "TERM"}]
  /\ pidFile \in Pids \cup {NoPid}
  /\ crashed \in SUBSET Pids /\ late \in SUBSET Pids
  /\ early \in SUBSET Pids /\ cut \in SUBSET Pids
  /\ \A p \in Pids : pc[p] = "signal" => target[p] \in Pids

(* While a server serves and nobody told it to stop, the pid file names    *)
(* it: the next stop or restart reaches it, through restarts that failed   *)
(* half way, crashes, and old servers that still drain.                    *)
PidFileNamesServer == \A p \in Pids : Serving(p) /\ told[p] = {} => pidFile = p

(* A stop or restart ends no session of a client: only SIGTERM, a crash,   *)
(* or a signal to a server that has no handler yet does.                   *)
QuitCutsNoSession == \A p \in cut : "TERM" \in told[p] \/ p \in crashed \cup early

(* A server that has taken the signals it was sent does not serve, unless  *)
(* it took one before it listened.                                         *)
ToldServersStop ==
  \A p \in Pids : told[p] # {} /\ pending[p] = {} => ~Serving(p) \/ p \in early

(* A start or restart that got through its tests comes to serve, unless    *)
(* the old server keeps its port beyond the third attempt.                 *)
RestartServes ==
  \A p \in Pids :
    pc[p] = "spawn" ~> Serving(p) \/ told[p] # {} \/ p \in crashed \cup late
=============================================================================
