---------------------------- MODULE SerialCalls ----------------------------
(***************************************************************************)
(* What a session promises the calls of its client, without packages,      *)
(* streams or threads: they are worked on one at a time, in the order they *)
(* were made and each at most once; a call returns the first of the        *)
(* replies on their way, none twice, and only of calls whose work is over; *)
(* until a call ends in an error none is passed over, the proxy works only *)
(* while the caller waits, and each call returns its own reply, or nothing *)
(* if the session is over since its work has begun.                        *)
(***************************************************************************)
EXTENDS Naturals

VARIABLES
  caller,    \* "idle", "waits" for its latest call, or "gone"
  made,      \* the number of calls made
  begun,     \* the latest call that was begun to be worked on
  working,   \* whether it still is
  replies,   \* calls whose replies are on their way
  given,     \* the call whose reply the latest return gave, or 0
  broken,    \* a call has ended in an error
  over       \* the proxy has ended the session

vars == <<caller, made, begun, working, replies, given, broken, over>>

Init ==
  /\ caller = "idle" /\ made = 0
  /\ begun = 0 /\ working = FALSE
  /\ replies = {} /\ given = 0 /\ broken = FALSE /\ over = FALSE

Call ==
  /\ caller = "idle"
  /\ caller' = "waits"
  /\ made' = made + 1
  /\ UNCHANGED <<begun, working, replies, given, broken, over>>

(* The next call, or after an error a later one.                           *)
Begin(c) ==
  /\ ~working /\ ~over
  /\ begun < c
  /\ ~broken => c = begun + 1 /\ caller # "idle"
  /\ begun' = c
  /\ working' = TRUE
  /\ UNCHANGED <<caller, made, replies, given, broken, over>>

(* The reply is written, or nobody is there to read it.                    *)
End ==
  /\ working
  /\ working' = FALSE
  /\ replies' \in {replies, replies \cup {begun}}
  /\ over' \in {over, TRUE}
  /\ UNCHANGED <<caller, made, begun, given, broken>>

Finish ==
  /\ over' = TRUE
  /\ working' = FALSE
  /\ UNCHANGED <<caller, made, begun, replies, given, broken>>

Stop == caller' \in {"idle", "gone"}

Return(c) ==
  /\ caller = "waits"
  /\ \A d \in replies : c <= d
  /\ ~broken => c = made
  /\ given' = c
  /\ replies' = replies \ {c}
  /\ Stop
  /\ UNCHANGED <<made, begun, working, broken, over>>

(* The session is over in the middle of the reply: the caller is not told. *)
ReturnNothing ==
  /\ caller = "waits"
  /\ over
  /\ ~broken => begun = made
  /\ given' = 0
  /\ replies' \subseteq replies
  /\ Stop
  /\ UNCHANGED <<made, begun, working, broken, over>>

(* A call ends without a reply; what was on its way may be lost.           *)
Break ==
  /\ caller = "waits"
  /\ given' = 0
  /\ broken' = TRUE
  /\ replies' \subseteq replies
  /\ Stop
  /\ UNCHANGED <<made, begun, working, over>>

Lose ==
  /\ replies' \subseteq replies
  /\ UNCHANGED <<caller, made, begun, working, given, broken, over>>

Leave ==
  /\ caller' = "gone"
  /\ UNCHANGED <<made, begun, working, replies, given, broken, over>>

Next ==
  \/ Call \/ End \/ Finish \/ ReturnNothing \/ Break \/ Lose \/ Leave
  \/ \E c \in 1..made : Begin(c)
  \/ \E c \in replies : Return(c)

Spec == Init /\ [][Next]_vars
=============================================================================
