-------------------------- MODULE ConnectionLeases --------------------------
(***************************************************************************)
(* What a connection pool promises, without its queue, its lock or its     *)
(* physical connections: every connection it made is leased to at most one *)
(* caller, it makes at most MaxConns of them, and it turns a caller away   *)
(* only while it could still have made one.                                *)
(***************************************************************************)
EXTENDS Naturals, FiniteSets

CONSTANTS Threads, Conns, MaxConns, None

VARIABLES
  made,      \* the connections made so far
  lease,     \* the connection each caller has, or None
  asking     \* the callers that wait for an answer

vars == <<made, lease, asking>>

Init ==
  /\ made = {}
  /\ lease = [t \in Threads |-> None]
  /\ asking = {}

Free == {c \in made : \A t \in Threads : lease[t] # c}

Ask(t) ==
  /\ lease[t] = None
  /\ t \notin asking
  /\ asking' = asking \cup {t}
  /\ UNCHANGED <<made, lease>>

(* A caller whose request is met at once is never seen asking.             *)
Grant(t, c) ==
  /\ lease[t] = None
  /\ c \in Free
  /\ lease' = [lease EXCEPT ![t] = c]
  /\ asking' = asking \ {t}
  /\ UNCHANGED made

GrantNew(t, c) ==
  /\ t \in asking
  /\ c \in Conns \ made
  /\ Cardinality(made) < MaxConns
  /\ made' = made \cup {c}
  /\ lease' = [lease EXCEPT ![t] = c]
  /\ asking' = asking \ {t}

Refuse(t) ==
  /\ t \in asking
  /\ Cardinality(made) < MaxConns
  /\ asking' = asking \ {t}
  /\ UNCHANGED <<made, lease>>

GiveBack(t) ==
  /\ lease[t] # None
  /\ lease' = [lease EXCEPT ![t] = None]
  /\ UNCHANGED <<made, asking>>

Next == \E t \in Threads :
  \/ Ask(t) \/ Refuse(t) \/ GiveBack(t)
  \/ \E c \in Conns : Grant(t, c) \/ GrantNew(t, c)

Spec == Init /\ [][Next]_vars
=============================================================================
