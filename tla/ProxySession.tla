---------------------------- MODULE ProxySession ----------------------------
(***************************************************************************)
(* One session between a client (EDBHandler, S2R over a socket) and the    *)
(* proxy (lite_dbproxy, DBProxyServer::onConnection).  The client writes a *)
(* request and, for an execute, an update or a large object write, one     *)
(* chunked stream per stream parameter; the proxy's fiber reads the        *)
(* request, hands it to an executor thread, which reads the streams from   *)
(* the same socket (PackageInputStream) or writes a large object to it     *)
(* (PackageOutputStream), and writes the reply.  Packages have no          *)
(* identity: only their order on the two byte streams pairs them.          *)
(*                                                                         *)
(* A byte stream is a sequence of heads (edb_pkg_head_t) and pieces of     *)
(* bodies; a head's len counts pieces.  A piece says what it is a piece of.*)
(*                                                                         *)
(* cpc, the client: "idle" between calls; "body" the request's head is     *)
(* written; "upload" writing streams; "reply" waiting for the first        *)
(* package of the answer; "more" for another package of a large object;    *)
(* "last" for the reply after a large object; "answer" the reply's head is *)
(* read and its body is not; "gone" its socket is closed.                  *)
(* spc, the proxy: "head" and "body" reading a request; "task" the fiber   *)
(* waits on the channel for the executor; "reply" there is a reply to      *)
(* write; "write" its head is written and its body is not; "hung" the      *)
(* executor left with an exception and nothing will ever write the         *)
(* channel; "ended" the fiber is over and the socket closed.               *)
(***************************************************************************)
EXTENDS Naturals, Sequences, SequencesExt

CONSTANTS
  MaxRequests,       \* bound on the requests of one session
  MaxStreams,        \* bound on the stream parameters of a request
  MaxChunks          \* bound on the packages of a stream or large object

ASSUME BoundsAssumption ==
  MaxRequests \in Nat /\ MaxStreams \in Nat \ {0} /\ MaxChunks \in Nat

VARIABLES
  c2s, s2c,          \* bytes written and not yet read, per direction
  cpc,               \* position of the client's thread
  req,               \* its latest request
  sent,              \* its position in the streams: <<stream, chunks sent>>
  got,               \* id of the request the latest call's reply answers; 0: none
  failed,            \* a call on this socket ended in "socket error"
  cut,               \* an input stream of the application threw in an upload
  spc,               \* position of the proxy's fiber
  open,              \* database != null
  sreq,              \* the request it reads or executes
  taken,             \* the streams the executor has read to their end
  lob                \* what it has read of the current one, or written of a
                     \* large object

clientVars == <<cpc, req, sent, got, failed, cut>>
proxyVars  == <<spc, open, sreq, taken, lob>>
vars       == <<c2s, s2c, clientVars, proxyVars>>

(* A request: its number, its operation and the length of its streams.     *)
Kinds == {"open", "call", "write", "read", "close"}
Lens(kind) ==
  CASE kind = "call"  -> SeqOf(0..MaxChunks, MaxStreams)
    [] kind = "write" -> SeqOf(0..MaxChunks, 1) \ {<<>>}
    [] OTHER          -> {<<>>}
Requests == UNION {[id : 0..MaxRequests, kind : {k}, lens : Lens(k)] : k \in Kinds}
NoRequest == [id |-> 0, kind |-> "close", lens |-> <<>>]

(* write_pkg_head of the client and, with fewer parameters, of the proxy.  *)
PkgHead(type, gzip, next, len) ==
  [unit |-> "head", type |-> type, gzip |-> gzip, next |-> next, len |-> len]
ProxyHead(type, next, length) == PkgHead(type, FALSE, next, length)
Piece(unit, of) == [unit |-> unit, of |-> of]
Gzip == Piece("gzip", NoRequest)

IsHead(u) == u.unit = "head"
IsMain(u) == IsHead(u) /\ u.type = 0

RequestPackage(r) == <<PkgHead(0, FALSE, FALSE, 1), Piece("request", r)>>
Chunk(r, k, i) == Piece("chunk", [id |-> r.id, stream |-> k, chunk |-> i])
ChunkPackage(r, k, i) == <<PkgHead(1, TRUE, TRUE, 1), Chunk(r, k, i)>>
EndPackage == <<PkgHead(1, FALSE, FALSE, 0)>>
ReplyHead == ProxyHead(0, FALSE, 1)
ReplyPackage(r) == <<ReplyHead, Piece("reply", r)>>

(* PackageOutputStream passes (type, gzip, next, length) to the proxy's    *)
(* write_pkg_head(type, next, length, reqid): next is TRUE, length is the  *)
(* flag, and the gzipped body, longer than one byte, follows unannounced.  *)
FullPackage == <<ProxyHead(1, TRUE, 1), Gzip, Gzip>>
LastPackage == <<ProxyHead(1, TRUE, 0), Gzip, Gzip>>
NoPackage   == <<ProxyHead(1, FALSE, 0)>>

Init ==
  /\ c2s = <<>> /\ s2c = <<>>
  /\ cpc = "idle" /\ req = NoRequest /\ sent = <<1, 0>>
  /\ got = 0 /\ failed = FALSE /\ cut = FALSE
  /\ spc = "head" /\ open = FALSE /\ sreq = NoRequest
  /\ taken = <<>> /\ lob = <<>>

-----------------------------------------------------------------------------
(* The client                                                              *)

AfterCall == IF req.kind = "close" THEN "gone" ELSE "idle"

Return(id) ==
  /\ cpc' = AfterCall
  /\ got' = id
  /\ UNCHANGED <<req, sent, failed, cut>>

(* catch(...): the caller is told "socket error", the socket stays open.   *)
SocketError(streamThrew) ==
  /\ cpc' = AfterCall
  /\ got' = 0
  /\ failed' = TRUE
  /\ cut' = (cut \/ streamThrew)
  /\ UNCHANGED <<req, sent>>

(* EConnection::connect opens; every other operation calls once.           *)
Call(r) ==
  /\ cpc = "idle"
  /\ r.id = req.id + 1
  /\ (r.kind = "open") = (r.id = 1)
  /\ req' = r
  /\ cpc' = "body"
  /\ c2s' = Append(c2s, RequestPackage(r)[1])
  /\ UNCHANGED <<s2c, sent, got, failed, cut, proxyVars>>

SendBody ==
  /\ cpc = "body"
  /\ c2s' = Append(c2s, RequestPackage(req)[2])
  /\ sent' = <<1, 0>>
  /\ cpc' = IF req.lens = <<>> THEN "reply" ELSE "upload"
  /\ UNCHANGED <<s2c, req, got, failed, cut, proxyVars>>

SendChunk ==
  /\ cpc = "upload"
  /\ sent[2] < req.lens[sent[1]]
  /\ sent' = [sent EXCEPT ![2] = @ + 1]
  /\ c2s' = c2s \o ChunkPackage(req, sent[1], sent'[2])
  /\ UNCHANGED <<s2c, cpc, req, got, failed, cut, proxyVars>>

SendEnd ==
  /\ cpc = "upload"
  /\ sent[2] = req.lens[sent[1]]
  /\ c2s' = c2s \o EndPackage
  /\ sent' = <<sent[1] + 1, 0>>
  /\ cpc' = IF sent[1] = Len(req.lens) THEN "reply" ELSE "upload"
  /\ UNCHANGED <<s2c, req, got, failed, cut, proxyVars>>

(* The application's input stream throws out of read().                    *)
StreamThrows ==
  /\ cpc = "upload"
  /\ SocketError(TRUE)
  /\ UNCHANGED <<c2s, s2c, proxyVars>>

(* The proxy has closed the socket.                                        *)
SendFails ==
  /\ cpc \in {"body", "upload"}
  /\ spc = "ended"
  /\ SocketError(FALSE)
  /\ UNCHANGED <<c2s, s2c, proxyVars>>

RecvHead ==
  /\ cpc \in {"reply", "last"}
  /\ s2c # <<>>
  /\ IsMain(s2c[1])
  /\ s2c' = Tail(s2c)
  /\ cpc' = "answer"
  /\ UNCHANGED <<c2s, req, sent, got, failed, cut, proxyVars>>

(* Mutant: the body of the reply is left unread.                           *)
RecvReplyUnread ==
  /\ cpc = "answer"
  /\ s2c # <<>>
  /\ Return(s2c[1].of.id)
  /\ UNCHANGED <<c2s, s2c, proxyVars>>

RecvReply ==
  /\ cpc = "answer"
  /\ s2c # <<>>
  /\ s2c' = Tail(s2c)
  /\ Return(s2c[1].of.id)
  /\ UNCHANGED <<c2s, proxyVars>>

(* End of stream, or a reset because the proxy left bytes unread, which    *)
(* may overtake what it wrote; nothing can be read after it.               *)
Reset == spc = "ended" /\ (s2c = <<>> \/ c2s # <<>>)

(* rep is not null any more: the catch leaves it empty, and a reply        *)
(* without ERRCODE is a success.                                           *)
RecvCut ==
  /\ cpc = "answer"
  /\ Reset
  /\ s2c' = <<>>
  /\ Return(0)
  /\ UNCHANGED <<c2s, proxyVars>>

(* rep_stream_read_and_write: one package of a large object.               *)
RecvLob ==
  /\ cpc \in {"reply", "more"}
  /\ s2c # <<>>
  /\ IsHead(s2c[1])
  /\ cpc = "reply" => s2c[1].type = 1 /\ req.kind = "read"
  /\ s2c' = SubSeq(s2c, 2 + s2c[1].len, Len(s2c))
  /\ cpc' = IF s2c[1].next THEN "more" ELSE "last"
  /\ UNCHANGED <<c2s, req, sent, got, failed, cut, proxyVars>>

(* "flag error": bytes of a body are read as a head.  A long piece is not  *)
(* used up by one such read.  Or an assertion on the head's type fails.    *)
RecvBad ==
  /\ cpc \in {"reply", "more", "last"}
  /\ s2c # <<>>
  /\ \/ ~IsHead(s2c[1]) /\ s2c' \in {s2c, Tail(s2c)}
     \/ /\ IsHead(s2c[1]) /\ s2c[1].type = 1
        /\ cpc = "last" \/ (cpc = "reply" /\ req.kind # "read")
        /\ s2c' = Tail(s2c)
  /\ SocketError(FALSE)
  /\ UNCHANGED <<c2s, proxyVars>>

RecvFails ==
  /\ cpc \in {"reply", "more", "last"}
  /\ Reset
  /\ s2c' = <<>>
  /\ SocketError(FALSE)
  /\ UNCHANGED <<c2s, proxyVars>>

(* The socket is closed: by ~EDBHandler, or because the client dies.       *)
Vanish ==
  /\ cpc # "gone"
  /\ cpc' = "gone"
  /\ UNCHANGED <<c2s, s2c, req, sent, got, failed, cut, proxyVars>>

-----------------------------------------------------------------------------
(* The proxy's fiber                                                       *)

EndSession == spc' = "ended" /\ open' = FALSE

(* Its loop goes on until the server is disposed.                          *)
GoOn == EndSession \/ (spc' = "head" /\ UNCHANGED open)

(* Mutant: pkg_head.type is not checked.                                   *)
ReadAnyHead ==
  /\ spc = "head"
  /\ c2s # <<>>
  /\ IsHead(c2s[1])
  /\ c2s' = Tail(c2s)
  /\ spc' = "body"
  /\ UNCHANGED <<s2c, open, sreq, taken, lob, clientVars>>

ReadHead ==
  /\ spc = "head"
  /\ c2s # <<>>
  /\ IsMain(c2s[1])
  /\ c2s' = Tail(c2s)
  /\ spc' = "body"
  /\ UNCHANGED <<s2c, open, sreq, taken, lob, clientVars>>

(* Mutant: responseFailed() and on with the session, no break.             *)
AnswerBad ==
  /\ spc = "head"
  /\ c2s # <<>>
  /\ ~IsMain(c2s[1])
  /\ c2s' = Tail(c2s)
  /\ s2c' = s2c \o ReplyPackage(sreq)
  /\ UNCHANGED <<spc, open, sreq, taken, lob, clientVars>>

(* "request error." for a large object's package, "flag error" otherwise.  *)
ReadBad ==
  /\ spc = "head"
  /\ c2s # <<>>
  /\ ~IsMain(c2s[1])
  /\ c2s' = Tail(c2s)
  /\ EndSession
  /\ UNCHANGED <<s2c, sreq, taken, lob, clientVars>>

(* Mutant: the fiber replies without waiting for the channel.              *)
ReplyAtOnce ==
  /\ spc = "body"
  /\ c2s # <<>>
  /\ c2s' = Tail(c2s)
  /\ sreq' = c2s[1].of
  /\ open' = TRUE
  /\ s2c' = s2c \o ReplyPackage(sreq')
  /\ spc' = "task"
  /\ taken' = <<>>
  /\ lob' = <<>>
  /\ UNCHANGED clientVars

ReadBody ==
  /\ spc = "body"
  /\ c2s # <<>>
  /\ c2s' = Tail(c2s)
  /\ sreq' = c2s[1].of
  /\ open' = (open \/ sreq'.kind = "open")
  /\ open'
  /\ spc' = "task"
  /\ taken' = <<>>
  /\ lob' = <<>>
  /\ UNCHANGED <<s2c, clientVars>>

(* Mutant: a refused client gets no answer.                                *)
IgnoreRefused ==
  /\ spc = "body"
  /\ c2s # <<>>
  /\ c2s' = Tail(c2s)
  /\ sreq' = c2s[1].of
  /\ sreq'.kind = "open"
  /\ spc' = "head"
  /\ UNCHANGED <<s2c, open, taken, lob, clientVars>>

(* doDBOpen knows no such user: responseFailed and the end of the loop.    *)
ReadBodyRefused ==
  /\ spc = "body"
  /\ c2s # <<>>
  /\ c2s' = Tail(c2s)
  /\ sreq' = c2s[1].of
  /\ sreq'.kind = "open"
  /\ spc' = "reply"
  /\ open' = FALSE
  /\ UNCHANGED <<s2c, taken, lob, clientVars>>

(* ESocketTimeoutException: continue, without the bytes already read.      *)
ReadTimesOut ==
  /\ spc \in {"head", "body"}
  /\ c2s = <<>>
  /\ cpc # "gone"
  /\ GoOn
  /\ UNCHANGED <<c2s, s2c, sreq, taken, lob, clientVars>>

(* Mutant: EOF is treated like a timeout.                                  *)
ContinueAtEOF ==
  /\ spc \in {"head", "body"}
  /\ c2s = <<>>
  /\ cpc = "gone"
  /\ spc' = "head"
  /\ UNCHANGED <<c2s, s2c, open, sreq, taken, lob, clientVars>>

ReadEOF ==
  /\ spc \in {"head", "body"}
  /\ c2s = <<>>
  /\ cpc = "gone"
  /\ EndSession
  /\ UNCHANGED <<c2s, s2c, sreq, taken, lob, clientVars>>

WriteHead ==
  /\ spc = "reply"
  /\ s2c' = Append(s2c, ReplyHead)
  /\ spc' = "write"
  /\ UNCHANGED <<c2s, open, sreq, taken, lob, clientVars>>

(* A refused client has had its reply.                                     *)
WriteReply ==
  /\ spc = "write"
  /\ s2c' = Append(s2c, Piece("reply", sreq))
  /\ GoOn
  /\ ~open => spc' = "ended"
  /\ UNCHANGED <<c2s, sreq, taken, lob, clientVars>>

(* The exception leaves onConnection.                                      *)
WriteReplyFails ==
  /\ spc \in {"reply", "write"}
  /\ cpc = "gone"
  /\ EndSession
  /\ UNCHANGED <<c2s, s2c, sreq, taken, lob, clientVars>>

(* The proxy's process dies, or the network between the two.               *)
Dies ==
  /\ spc # "ended"
  /\ EndSession
  /\ UNCHANGED <<c2s, s2c, sreq, taken, lob, clientVars>>

-----------------------------------------------------------------------------
(* The executor                                                            *)

WantsStream == spc = "task" /\ Len(taken) < Len(sreq.lens)

(* Nothing to read, or a head whose body is not written yet.               *)
Starved == c2s \in {<<>>, <<RequestPackage(req)[1]>>}

(* Mutant: the next stream starts with the bytes of the one before.        *)
TaskReadKeepsBuffer ==
  /\ WantsStream
  /\ ~Starved
  /\ IsHead(c2s[1])
  /\ lob' = lob \o SubSeq(c2s, 2, 1 + c2s[1].len)
  /\ taken' = IF c2s[1].next THEN taken ELSE Append(taken, lob')
  /\ c2s' = SubSeq(c2s, 2 + c2s[1].len, Len(c2s))
  /\ UNCHANGED <<s2c, spc, open, sreq, clientVars>>

(* PackageInputStream::read: the type of the head is not looked at.        *)
TaskRead ==
  /\ WantsStream
  /\ ~Starved
  /\ IsHead(c2s[1])
  /\ LET data == lob \o SubSeq(c2s, 2, 1 + c2s[1].len) IN
       IF c2s[1].next
       THEN lob' = data /\ UNCHANGED taken
       ELSE lob' = <<>> /\ taken' = Append(taken, data)
  /\ c2s' = SubSeq(c2s, 2 + c2s[1].len, Len(c2s))
  /\ UNCHANGED <<s2c, spc, open, sreq, clientVars>>

(* End of stream or a timeout inside a stream is an exception that no one  *)
(* catches between the plugin and the thread pool: channel.write() is      *)
(* skipped.                                                                *)
TaskEOF ==
  /\ WantsStream
  /\ Starved
  /\ cpc = "gone"
  /\ spc' = "hung"
  /\ UNCHANGED <<c2s, s2c, open, sreq, taken, lob, clientVars>>

TaskTimesOut ==
  /\ WantsStream
  /\ Starved
  /\ cpc # "gone"
  /\ spc' = "hung"
  /\ UNCHANGED <<c2s, s2c, open, sreq, taken, lob, clientVars>>

(* The plugin gives up before it has read all streams: "params error", a   *)
(* failing prepare, open or write.                                         *)
TaskGivesUp ==
  /\ WantsStream
  /\ spc' = "reply"
  /\ UNCHANGED <<c2s, s2c, open, sreq, taken, lob, clientVars>>

TaskDone ==
  /\ spc = "task"
  /\ Len(taken) = Len(sreq.lens)
  /\ lob = <<>>
  /\ spc' = "reply"
  /\ UNCHANGED <<c2s, s2c, open, sreq, taken, lob, clientVars>>

(* onLOBRead through PackageOutputStream, while the client may read what   *)
(* was written already: full packages as the buffer fills up, and the end. *)
TaskWriteFull ==
  /\ spc = "task"
  /\ sreq.kind = "read"
  /\ Len(lob) < MaxChunks
  /\ s2c' = s2c \o FullPackage
  /\ lob' = Append(lob, Gzip)
  /\ UNCHANGED <<c2s, spc, open, sreq, taken, clientVars>>

TaskWriteEnd ==
  /\ spc = "task"
  /\ sreq.kind = "read"
  /\ \E end \in {LastPackage, NoPackage} : s2c' = s2c \o end
  /\ spc' = "reply"
  /\ UNCHANGED <<c2s, open, sreq, taken, lob, clientVars>>

TaskWriteLobFails ==
  /\ spc = "task"
  /\ sreq.kind = "read"
  /\ cpc = "gone"
  /\ spc' = "hung"
  /\ UNCHANGED <<c2s, s2c, open, sreq, taken, lob, clientVars>>

-----------------------------------------------------------------------------
Client ==
  \/ \E r \in Requests : Call(r)
  \/ SendBody \/ SendChunk \/ SendEnd \/ StreamThrows \/ SendFails
  \/ RecvHead \/ RecvReply \/ RecvCut \/ RecvLob \/ RecvBad \/ RecvFails \/ Vanish

Fiber ==
  \/ ReadHead \/ ReadBad \/ ReadBody \/ ReadBodyRefused \/ ReadTimesOut
  \/ ReadEOF \/ WriteHead \/ WriteReply \/ WriteReplyFails \/ Dies

Task ==
  \/ TaskRead \/ TaskEOF \/ TaskTimesOut \/ TaskGivesUp \/ TaskDone
  \/ TaskWriteFull \/ TaskWriteEnd \/ TaskWriteLobFails

Next == Client \/ Fiber \/ Task

(* The application's streams deliver, the network delivers, the database   *)
(* answers and the proxy's threads run; an executor whose stream ends in   *)
(* silence meets the socket's timeout (socket_timeout, three seconds).     *)
(* Nothing makes a client call or vanish, a plugin give up or a proxy die. *)
Fairness ==
  /\ WF_vars(SendBody \/ SendChunk \/ SendEnd \/ StreamThrows \/ SendFails)
  /\ WF_vars(RecvHead \/ RecvReply \/ RecvCut \/ RecvLob \/ RecvBad \/ RecvFails)
  /\ WF_vars(ReadHead \/ ReadBad \/ ReadBody \/ ReadBodyRefused \/ ReadEOF)
  /\ WF_vars(WriteHead \/ WriteReply \/ WriteReplyFails)
  /\ WF_vars(TaskRead \/ TaskEOF \/ TaskTimesOut \/ TaskDone \/ TaskWriteEnd
             \/ TaskWriteLobFails)

Spec == Init /\ [][Next]_vars
FairSpec == Spec /\ Fairness
-----------------------------------------------------------------------------
(* Properties                                                              *)

Units ==
  [unit : {"head"}, type : 0..1, gzip : BOOLEAN, next : BOOLEAN, len : 0..1]
    \cup {Piece(unit, r) : unit \in {"request", "reply"}, r \in Requests} \cup {Gzip}
    \cup {Chunk(r, k, i) : r \in Requests, k \in 1..MaxStreams, i \in 1..MaxChunks}

TypeOK ==
  /\ c2s \in Seq(Units) /\ s2c \in Seq(Units)
  /\ cpc \in {"idle", "body", "upload", "reply", "more", "last", "answer", "gone"}
  /\ req \in Requests \cup {NoRequest}
  /\ sent \in (1..MaxStreams + 1) \X (0..MaxChunks)
  /\ got \in 0..MaxRequests
  /\ failed \in BOOLEAN /\ cut \in BOOLEAN
  /\ spc \in {"head", "body", "task", "reply", "write", "hung", "ended"}
  /\ open \in BOOLEAN
  /\ sreq \in Requests \cup {NoRequest}
  /\ taken \in Seq(Seq(Units)) /\ lob \in Seq(Units)

(* What the specification SerialCalls has of the session.                  *)
Caller == CASE cpc \in {"idle", "gone"} -> cpc [] OTHER -> "waits"
Busy == spc \in {"task", "reply", "write", "hung"}
Replies == {s2c[i].of.id : i \in {j \in 1..Len(s2c) : s2c[j].unit = "reply"}}

Calls == INSTANCE SerialCalls WITH
  caller <- Caller, made <- req.id, begun <- sreq.id,
  working <- Busy, replies <- Replies, given <- got, broken <- failed, over <- spc = "ended"

(* Whatever is lost, late, cut off or misread, requests are executed in    *)
(* the order of the calls and at most once, and no reply is taken twice.   *)
ImplementsCalls == Calls!Spec

(* Until its first "socket error" no call of a client returns another      *)
(* request's reply, although packages carry no number: whatever the        *)
(* streams, timeouts and early failures of the database.  It returns its   *)
(* own reply or, if that is cut after its head, an empty one, which S2R    *)
(* hands out as a success; then the session is over.                       *)
RepliesMatch ==
  cpc = "idle" /\ ~failed => got = req.id \/ (got = 0 /\ spc = "ended")

(* After a reply nothing of the exchange is left on the wires but packages *)
(* of streams the database did not want, which end the session.            *)
NothingLeftOver ==
  cpc = "idle" /\ ~failed =>
    /\ s2c = <<>>
    /\ \A i \in 1..Len(c2s) : ~IsMain(c2s[i])

StreamOf(r, k) == [i \in 1..r.lens[k] |-> Chunk(r, k, i)]

(* While no stream of the application has thrown in an upload, each stream *)
(* the database gets is the stream that was bound, whole and in its place. *)
LobIsWhatWasSent == ~cut => \A k \in 1..Len(taken) : taken[k] = StreamOf(sreq, k)

(* A client that is gone ends its session, unless the executor threw.      *)
SessionEnds == cpc = "gone" ~> spc \in {"ended", "hung"}

(* A call returns, from wherever it writes or waits, unless the executor   *)
(* threw: then nobody answers, and the client has no timeout.              *)
CallsReturn == Caller = "waits" ~> Caller # "waits" \/ spc = "hung"

(* EDBInterface.h, type: "0-主请求|1-lob流数据".  The streams a database   *)
(* gets hold data of packages of type 1 only.                              *)
StreamsHoldStreamData == \A k \in 1..Len(taken), i \in 1..MaxChunks + 1 :
  i <= Len(taken[k]) => taken[k][i].unit = "chunk"
=============================================================================
