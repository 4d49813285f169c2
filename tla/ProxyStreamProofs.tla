------------------------- MODULE ProxyStreamProofs -------------------------
(***************************************************************************)
(* Proofs about the streams of ProxySession: the packages on the wire from *)
(* the client are the way of its writer, from the position the proxy has   *)
(* reached to the position the client has.  Ends of streams carry nothing  *)
(* that tells them apart, so that a package alone does not say where it    *)
(* belongs: the way does.                                                  *)
(***************************************************************************)
EXTENDS ProxySessionProofs

(* Only the first request opens.                                           *)
Known == {r \in Requests \cup {NoRequest} : (r.kind = "open") = (r.id = 1)}

(* A position of the writer: it has written i packages of stream k of      *)
(* request r, and owes the body of a head, or a new head.                  *)
Pos == [of : Known, stream : Nat, chunk : Nat, due : {"head", "request", "chunk"}]
At(r, k, i, due) == [of |-> r, stream |-> k, chunk |-> i, due |-> due]

(* It moves from p to q and writes u.                                      *)
Opens(p, u, q) ==
  /\ u = RequestHead
  /\ p.due = "head" /\ p.stream > Len(p.of.lens)
  /\ q.of.id = p.of.id + 1
  /\ q = At(q.of, 1, 0, "request")

Asks(p, u, q) ==
  /\ u = Piece("request", p.of)
  /\ p.due = "request"
  /\ q = At(p.of, 1, 0, "head")

Announces(p, u, q) ==
  /\ u = ChunkHead
  /\ p.due = "head" /\ p.stream <= Len(p.of.lens) /\ p.chunk < p.of.lens[p.stream]
  /\ q = At(p.of, p.stream, p.chunk, "chunk")

Streams(p, u, q) ==
  /\ u = Chunk(p.of, p.stream, p.chunk + 1)
  /\ p.due = "chunk"
  /\ q = At(p.of, p.stream, p.chunk + 1, "head")

Ends(p, u, q) ==
  /\ u = EndHead
  /\ p.due = "head" /\ p.stream <= Len(p.of.lens) /\ p.chunk = p.of.lens[p.stream]
  /\ q = At(p.of, p.stream + 1, 0, "head")

Moves(p, u, q) ==
  Opens(p, u, q) \/ Asks(p, u, q) \/ Announces(p, u, q) \/ Streams(p, u, q) \/ Ends(p, u, q)

(* The writer writes c on its way from a to b.                             *)
Path(P, c) ==
  /\ P \in [0..Len(c) -> Pos]
  /\ \A i \in 1..Len(c) : Moves(P[i - 1], c[i], P[i])

Way(a, c, b) == \E P : Path(P, c) /\ P[0] = a /\ P[Len(c)] = b

(* Where the client is.                                                    *)
Writer ==
  IF cpc = "body" THEN At(req, 1, 0, "request") ELSE At(req, sent[1], sent[2], "head")

HasWritten(b) ==
  /\ b = Writer
  /\ cpc \in {"idle", "reply", "more", "last", "answer"} => sent[1] > Len(req.lens)

(* Where the proxy is: within the streams of its request; in between it    *)
(* may have dropped any number of them.                                    *)
HasRead(a) ==
  /\ WantsStream => a = At(sreq, Len(taken) + 1, Len(lob), "head") /\ sreq.id >= 1
  /\ spc = "body" => a.of.id >= 1
  /\ taken # <<>> => a.of.id >= (IF spc = "body" THEN 2 ELSE 1)

OnTheWay ==
  spc # "ended" =>
    \E a, b \in Pos : Way(a, c2s, b) /\ HasRead(a) /\ (cpc # "gone" => HasWritten(b))

(* What was read of the stream at hand is its beginning.                   *)
Begins ==
  WantsStream => \A i \in 1..Len(lob) : lob[i] = Chunk(sreq, Len(taken) + 1, i)

Whole == ~cut => LobIsWhatWasSent /\ Begins /\ OnTheWay

-----------------------------------------------------------------------------
(* Ways                                                                    *)

LEMMA WayEmpty ==
  ASSUME NEW a \in Pos
  PROVE  Way(a, <<>>, a)
<1> DEFINE P == [i \in 0..0 |-> a]
<1>1. Len(<<>>) = 0
  OBVIOUS
<1>2. P \in [0..0 -> Pos] /\ P[0] = a
  OBVIOUS
<1>3. \A i \in 1..0 : FALSE
  OBVIOUS
<1> HIDE DEF P
<1>4. Path(P, <<>>)
  BY <1>1, <1>2, <1>3 DEF Path
<1> QED BY <1>1, <1>2, <1>4 DEF Way

LEMMA WayGrows ==
  ASSUME NEW c \in Seq(Units), NEW a, NEW p, Way(a, c, p),
         NEW u \in Units, NEW q \in Pos, Moves(p, u, q)
  PROVE  Way(a, Append(c, u), q)
<1>1. PICK P : Path(P, c) /\ P[0] = a /\ P[Len(c)] = p
  BY DEF Way
<1> DEFINE n == Len(c)
           d == Append(c, u)
           Q == [i \in 0..(n + 1) |-> IF i <= n THEN P[i] ELSE q]
<1>2. n \in Nat /\ Len(d) = n + 1 /\ d[n + 1] = u /\ \A i \in 1..n : d[i] = c[i]
  OBVIOUS
<1>3. P \in [0..n -> Pos] /\ \A i \in 1..n : Moves(P[i - 1], c[i], P[i])
  BY <1>1 DEF Path
<1> HIDE DEF n, d
<1>4. Q \in [0..(n + 1) -> Pos] /\ Q[n + 1] = q /\ \A i \in 0..n : Q[i] = P[i]
  BY <1>2, <1>3
<1> HIDE DEF Q
<1>5. ASSUME NEW i \in 1..(n + 1)
      PROVE  Moves(Q[i - 1], d[i], Q[i])
  <2>1. CASE i <= n
    <3>1. i \in 1..n /\ i - 1 \in 0..n /\ i \in 0..n
      BY <1>2, <2>1
    <3>2. Q[i - 1] = P[i - 1] /\ Q[i] = P[i] /\ d[i] = c[i]
      BY <1>2, <1>4, <3>1, Zenon
    <3> QED BY <1>3, <3>1, <3>2
  <2>2. CASE i = n + 1
    <3>1. i - 1 = n /\ n \in 0..n
      BY <1>2, <2>2
    <3>2. Q[i - 1] = p /\ Q[i] = q /\ d[i] = u
      BY <1>1, <1>2, <1>4, <2>2, <3>1 DEF n
    <3> QED BY <3>2
  <2> QED BY <1>2, <2>1, <2>2
<1>6. Path(Q, d)
  BY <1>2, <1>4, <1>5 DEF Path
<1>7. 0 \in 0..n
  BY <1>2
<1>8. Q[0] = a /\ Q[Len(d)] = q
  BY <1>1, <1>2, <1>4, <1>7
<1>9. Way(a, d, q)
  BY <1>6, <1>8 DEF Way
<1> QED BY <1>9 DEF d

LEMMA WayShrinks ==
  ASSUME NEW c \in Seq(Units), c # <<>>, NEW a, NEW b, Way(a, c, b)
  PROVE  \E m \in Pos : Moves(a, c[1], m) /\ Way(m, Tail(c), b)
<1>1. PICK P : Path(P, c) /\ P[0] = a /\ P[Len(c)] = b
  BY DEF Way
<1> DEFINE n == Len(c)
           d == Tail(c)
           Q == [i \in 0..(n - 1) |-> P[i + 1]]
<1>2. n \in Nat /\ n > 0 /\ Len(d) = n - 1 /\ \A i \in 1..(n - 1) : d[i] = c[i + 1]
  BY HeadTailProperties
<1>3. P \in [0..n -> Pos] /\ \A i \in 1..n : Moves(P[i - 1], c[i], P[i])
  BY <1>1 DEF Path
<1> HIDE DEF d
<1>4. P[n] = b
  BY <1>1
<1> HIDE DEF n
<1>5. Q \in [0..(n - 1) -> Pos] /\ \A i \in 0..(n - 1) : Q[i] = P[i + 1]
  BY <1>2, <1>3
<1> HIDE DEF Q
<1>6. ASSUME NEW i \in 1..(n - 1)
      PROVE  Moves(Q[i - 1], d[i], Q[i])
  <2>1. i - 1 \in 0..(n - 1) /\ i \in 0..(n - 1) /\ i + 1 \in 1..n /\ (i + 1) - 1 = i
        /\ (i - 1) + 1 = i
    BY <1>2
  <2>2. Q[i - 1] = P[i] /\ Q[i] = P[i + 1] /\ d[i] = c[i + 1]
    BY <1>2, <1>5, <2>1
  <2>3. Moves(P[(i + 1) - 1], c[i + 1], P[i + 1])
    BY <1>3, <2>1
  <2> QED BY <2>1, <2>2, <2>3
<1>7. Path(Q, d)
  BY <1>2, <1>5, <1>6 DEF Path
<1>8. 0 \in 0..(n - 1) /\ n - 1 \in 0..(n - 1) /\ 0 + 1 = 1 /\ (n - 1) + 1 = n /\ 1 \in 1..n
      /\ 1 \in 0..n /\ 1 - 1 = 0
  BY <1>2
<1>9. Q[0] = P[1] /\ Q[Len(d)] = b
  BY <1>2, <1>4, <1>5, <1>8
<1>10. P[1] \in Pos /\ Moves(a, c[1], P[1])
  BY <1>1, <1>3, <1>8
<1>11. Way(P[1], d, b)
  BY <1>7, <1>9 DEF Way
<1> QED BY <1>10, <1>11 DEF d

-----------------------------------------------------------------------------
(* Positions                                                               *)

LEMMA Positions ==
  ASSUME NEW r \in Known, NEW k \in Nat, NEW i \in Nat, NEW due \in {"head", "request", "chunk"}
  PROVE  /\ At(r, k, i, due) \in Pos
         /\ At(r, k, i, due).of = r /\ At(r, k, i, due).stream = k
         /\ At(r, k, i, due).chunk = i /\ At(r, k, i, due).due = due
BY DEF At, Pos

LEMMA KnownFacts ==
  ASSUME NEW r \in Known
  PROVE  /\ r.lens \in Seq(0..MaxChunks) /\ Len(r.lens) \in 0..MaxStreams /\ r.id \in Nat
         /\ (r.kind = "open") = (r.id = 1)
         /\ r.id >= 1 => r \in Requests
<1>1. CASE r \in Requests
  BY <1>1, RequestFacts, BoundsAssumption DEF Known
<1>2. CASE r = NoRequest
  <2>1. r.lens = <<>> /\ r.id = 0 /\ Len(<<>>) = 0
    BY <1>2 DEF NoRequest
  <2>2. <<>> \in Seq(0..MaxChunks)
    OBVIOUS
  <2> QED BY <2>1, <2>2, BoundsAssumption DEF Known
<1> QED BY <1>1, <1>2 DEF Known

(* A unit tells what kind of move wrote it.                                *)
LEMMA MoveOf ==
  ASSUME NEW p \in Pos, NEW u, NEW q \in Pos, Moves(p, u, q)
  PROVE  /\ u = RequestHead \/ IsMain(u) => Opens(p, u, q)
         /\ u.unit = "request" => Asks(p, u, q)
         /\ u = ChunkHead => Announces(p, u, q)
         /\ u = EndHead => Ends(p, u, q)
         /\ p.due = "chunk" => Streams(p, u, q)
<1>1. /\ ~IsHead(Piece("request", p.of)) /\ Piece("request", p.of).unit = "request"
      /\ ~IsHead(Chunk(p.of, p.stream, p.chunk + 1))
      /\ Chunk(p.of, p.stream, p.chunk + 1).unit = "chunk"
  BY DEF Piece, Chunk, IsHead
<1>2. /\ RequestHead.unit = "head" /\ ChunkHead.unit = "head" /\ EndHead.unit = "head"
  BY DEF RequestHead, ChunkHead, EndHead, PkgHead
<1>3. IsMain(u) => IsHead(u)
  BY DEF IsMain
<1>4. u = RequestHead \/ IsMain(u) => Opens(p, u, q)
  BY <1>1, <1>3, Heads DEF Moves, Opens, Asks, Announces, Streams, Ends, IsHead
<1>5. u.unit = "request" => Asks(p, u, q)
  BY <1>1, <1>2 DEF Moves, Opens, Asks, Announces, Streams, Ends
<1>6. (u = ChunkHead => Announces(p, u, q)) /\ (u = EndHead => Ends(p, u, q))
  BY <1>1, <1>2, Heads DEF Moves, Opens, Asks, Announces, Streams, Ends
<1>7. p.due = "chunk" => Streams(p, u, q)
  BY DEF Moves, Opens, Asks, Announces, Streams, Ends
<1> QED BY <1>4, <1>5, <1>6, <1>7

-----------------------------------------------------------------------------
(* The client writes                                                       *)

LEMMA WholeInit == Init => Whole
<1> SUFFICES ASSUME Init PROVE Whole
  OBVIOUS
<1>1. LobIsWhatWasSent /\ Begins
  BY DEF Init, LobIsWhatWasSent, Begins
<1>2. NoRequest \in Known
  BY DEF Known, NoRequest
<1> DEFINE a == At(NoRequest, 1, 0, "head")
<1>3. a \in Pos
  BY <1>2, Positions
<1>4. Way(a, c2s, a)
  BY <1>3, WayEmpty DEF Init
<1>5. HasRead(a)
  BY DEF HasRead, Init, WantsStream
<1>6. HasWritten(a)
  <2>1. Len(NoRequest.lens) = 0
    BY DEF NoRequest
  <2> QED BY <2>1 DEF HasWritten, Init, Writer
<1> QED BY <1>1, <1>3, <1>4, <1>5, <1>6 DEF Whole, OnTheWay

(* Writing does not change what was read.                                  *)
LEMMA ReadStays ==
  ASSUME ~cut, UNCHANGED proxyVars, LobIsWhatWasSent, Begins
  PROVE  /\ LobIsWhatWasSent' /\ Begins' /\ (spc' = "ended" <=> spc = "ended")
         /\ \A a : HasRead(a) => HasRead(a)'
<1>1. LobIsWhatWasSent' /\ Begins'
  BY DEF proxyVars, LobIsWhatWasSent, Begins, WantsStream, StreamOf
<1> QED BY <1>1 DEF proxyVars, HasRead, WantsStream

(* The client goes on to q, with c2s longer by what it writes there.       *)
LEMMA WritesOn ==
  ASSUME Whole, cut' = cut, UNCHANGED proxyVars,
         \A a, b \in Pos : spc # "ended" /\ Way(a, c2s, b) /\ HasWritten(b) =>
           \E q \in Pos : Way(a, c2s', q) /\ (cpc' # "gone" => HasWritten(q)'),
         cpc # "gone"
  PROVE  Whole'
<1> SUFFICES ASSUME ~cut PROVE Whole'
  BY DEF Whole
<1>1. /\ LobIsWhatWasSent' /\ Begins' /\ (spc' = "ended" <=> spc = "ended")
      /\ \A a : HasRead(a) => HasRead(a)'
  BY ReadStays DEF Whole
<1>2. OnTheWay'
  <2>1. SUFFICES ASSUME spc # "ended" PROVE OnTheWay'
    BY <1>1 DEF OnTheWay
  <2>2. PICK a, b \in Pos : Way(a, c2s, b) /\ HasRead(a) /\ HasWritten(b)
    BY <2>1 DEF Whole, OnTheWay
  <2>3. PICK q \in Pos : Way(a, c2s', q) /\ (cpc' # "gone" => HasWritten(q)')
    BY <2>1, <2>2
  <2>4. Way(a, c2s, q)' /\ HasRead(a)' /\ (cpc' # "gone" => HasWritten(q)')
    BY <1>1, <2>2, <2>3 DEF Way, Path
  <2> QED BY <2>4 DEF OnTheWay
<1> QED BY <1>1, <1>2 DEF Whole

LEMMA CallWhole ==
  ASSUME Form, Whole, NEW r \in Requests, Call(r)
  PROVE  Whole'
<1>1. /\ cpc = "idle" /\ r.id = req.id + 1 /\ (r.kind = "open") = (r.id = 1) /\ req' = r
      /\ cpc' = "body" /\ c2s' = Append(c2s, RequestHead) /\ cut' = cut /\ UNCHANGED proxyVars
  BY DEF Call, RequestPackage, RequestHead
<1>2. ASSUME NEW a \in Pos, NEW b \in Pos, Way(a, c2s, b), HasWritten(b)
      PROVE  \E q \in Pos : Way(a, c2s', q) /\ HasWritten(q)'
  <2> DEFINE q == At(r, 1, 0, "request")
  <2>1. b = At(req, sent[1], sent[2], "head") /\ sent[1] > Len(req.lens)
    BY <1>1, <1>2 DEF HasWritten, Writer
  <2>2. r \in Known
    BY <1>1 DEF Known
  <2>3. q \in Pos /\ q.of = r
    BY <2>2, Positions
  <2>4. Opens(b, RequestHead, q)
    BY <1>1, <2>1, <2>3 DEF Opens, At
  <2>5. c2s \in Seq(Units) /\ RequestHead \in Units
    BY Heads DEF Form, TypeOK
  <2>6. Way(a, c2s', q)
    BY <1>1, <1>2, <2>3, <2>4, <2>5, WayGrows DEF Moves
  <2>7. HasWritten(q)'
    BY <1>1 DEF HasWritten, Writer
  <2> QED BY <2>3, <2>6, <2>7
<1> QED BY <1>1, <1>2, WritesOn

LEMMA SendBodyWhole ==
  ASSUME Form, Whole, SendBody
  PROVE  Whole'
<1>1. /\ cpc = "body" /\ c2s' = Append(c2s, Piece("request", req)) /\ sent' = <<1, 0>>
      /\ cpc' = (IF req.lens = <<>> THEN "reply" ELSE "upload")
      /\ req' = req /\ cut' = cut /\ UNCHANGED proxyVars
  BY DEF SendBody, RequestPackage
<1>2. req \in Requests
  BY <1>1 DEF Form, Bodies
<1>3. ASSUME NEW a \in Pos, NEW b \in Pos, Way(a, c2s, b), HasWritten(b)
      PROVE  \E q \in Pos : Way(a, c2s', q) /\ HasWritten(q)'
  <2> DEFINE q == At(req, 1, 0, "head")
  <2>1. b = At(req, 1, 0, "request")
    BY <1>1, <1>3 DEF HasWritten, Writer
  <2>2. req \in Known /\ b.of = req /\ b.due = "request"
    BY <1>3, <2>1 DEF At, Pos
  <2>3. q \in Pos
    BY <2>2, Positions
  <2>4. Asks(b, Piece("request", req), q)
    BY <2>2 DEF Asks
  <2>5. c2s \in Seq(Units) /\ Piece("request", req) \in Units
    BY <1>2, Pieces DEF Form, TypeOK
  <2>6. Way(a, c2s', q)
    BY <1>1, <1>3, <2>3, <2>4, <2>5, WayGrows DEF Moves
  <2>7. cpc' # "body" /\ (cpc' # "upload" => Len(req.lens) = 0)
    BY <1>1
  <2>8. q = Writer' /\ (cpc' \in {"idle", "reply", "more", "last", "answer"} => sent'[1] > Len(req'.lens))
    BY <1>1, <2>7 DEF Writer
  <2> QED BY <2>3, <2>6, <2>8 DEF HasWritten
<1> QED BY <1>1, <1>3, WritesOn

(* In an upload the writer is within the stream it is at.                  *)
LEMMA WriterUploads ==
  ASSUME Form, cpc = "upload", NEW b \in Pos, HasWritten(b)
  PROVE  /\ b = At(req, sent[1], sent[2], "head") /\ req \in Known
         /\ b.of = req /\ b.stream = sent[1] /\ b.chunk = sent[2] /\ b.due = "head"
         /\ sent[1] \in Nat /\ sent[2] \in Nat
<1>1. b = At(req, sent[1], sent[2], "head")
  BY DEF HasWritten, Writer
<1> QED BY <1>1 DEF At, Pos

LEMMA SendChunkWhole ==
  ASSUME Form, Whole, SendChunk
  PROVE  Whole'
<1>1. cpc = "upload" /\ sent[2] < req.lens[sent[1]]
      /\ sent' = [sent EXCEPT ![2] = @ + 1] /\ c2s' = c2s \o ChunkPackage(req, sent[1], sent'[2])
      /\ UNCHANGED <<cpc, req, cut, proxyVars>>
  BY DEF SendChunk
<1>2. /\ req \in Requests /\ sent[1] \in 1..MaxStreams /\ sent[1] \in 1..Len(req.lens)
      /\ req.lens[sent[1]] \in 0..MaxChunks /\ sent[2] \in 0..MaxChunks
      /\ sent = <<sent[1], sent[2]>> /\ Len(req.lens) \in 0..MaxStreams
  BY <1>1, StreamSent
<1>3. sent' = <<sent[1], sent[2] + 1>> /\ sent'[1] = sent[1] /\ sent'[2] = sent[2] + 1
  BY <1>1, <1>2
<1> DEFINE u == Chunk(req, sent[1], sent[2] + 1)
<1>4. sent[2] + 1 \in 1..MaxChunks /\ sent[1] <= Len(req.lens)
  BY <1>1, <1>2, BoundsAssumption
<1>5. u \in Units /\ ChunkHead \in Units /\ c2s \in Seq(Units)
  BY <1>2, <1>4, Chunks, Heads DEF Form, TypeOK
<1>6. c2s' = c2s \o <<ChunkHead, u>>
  BY <1>1, <1>3 DEF ChunkPackage, ChunkHead
<1>7. c2s' = Append(Append(c2s, ChunkHead), u)
  <2> HIDE DEF u
  <2> QED BY <1>5, <1>6
<1>8. ASSUME NEW a \in Pos, NEW b \in Pos, Way(a, c2s, b), HasWritten(b)
      PROVE  \E q \in Pos : Way(a, c2s', q) /\ HasWritten(q)'
  <2> DEFINE p == At(req, sent[1], sent[2], "chunk")
             q == At(req, sent[1], sent[2] + 1, "head")
  <2>1. /\ req \in Known /\ b.of = req /\ b.stream = sent[1] /\ b.chunk = sent[2]
        /\ b.due = "head" /\ sent[1] \in Nat /\ sent[2] \in Nat
    BY <1>1, <1>8, WriterUploads
  <2>2. /\ p \in Pos /\ p.of = req /\ p.stream = sent[1] /\ p.chunk = sent[2]
        /\ p.due = "chunk" /\ q \in Pos
    BY <2>1, Positions
  <2>3. Announces(b, ChunkHead, p)
    BY <1>1, <1>4, <2>1 DEF Announces
  <2>4. Streams(p, u, q)
    BY <2>2 DEF Streams
  <2>5. Way(a, Append(c2s, ChunkHead), p)
    BY <1>5, <1>8, <2>2, <2>3, WayGrows DEF Moves
  <2>6. Append(c2s, ChunkHead) \in Seq(Units)
    BY <1>5
  <2>7. Way(a, c2s', q)
    BY <1>5, <1>7, <2>2, <2>4, <2>5, <2>6, WayGrows DEF Moves
  <2>8. q = Writer' /\ (cpc' \in {"idle", "reply", "more", "last", "answer"} => sent'[1] > Len(req'.lens))
    BY <1>1, <1>3 DEF Writer
  <2> QED BY <2>2, <2>7, <2>8 DEF HasWritten
<1> QED BY <1>1, <1>8, WritesOn

LEMMA SendEndWhole ==
  ASSUME Form, Whole, SendEnd
  PROVE  Whole'
<1>1. cpc = "upload" /\ sent[2] = req.lens[sent[1]] /\ c2s' = c2s \o EndPackage
      /\ sent' = <<sent[1] + 1, 0>>
      /\ cpc' = (IF sent[1] = Len(req.lens) THEN "reply" ELSE "upload")
      /\ UNCHANGED <<req, cut, proxyVars>>
  BY DEF SendEnd
<1>2. /\ req \in Requests /\ sent[1] \in 1..MaxStreams /\ sent[1] \in 1..Len(req.lens)
      /\ Len(req.lens) \in 0..MaxStreams
  BY <1>1, StreamSent
<1>3. c2s \in Seq(Units) /\ EndHead \in Units
  BY Heads DEF Form, TypeOK
<1>4. c2s' = Append(c2s, EndHead)
  <2>1. EndPackage = <<EndHead>>
    BY DEF EndPackage, EndHead
  <2> QED BY <1>1, <1>3, <2>1, AppendIsConcat
<1>5. ASSUME NEW a \in Pos, NEW b \in Pos, Way(a, c2s, b), HasWritten(b)
      PROVE  \E q \in Pos : Way(a, c2s', q) /\ HasWritten(q)'
  <2> DEFINE q == At(req, sent[1] + 1, 0, "head")
  <2>1. /\ req \in Known /\ b.of = req /\ b.stream = sent[1] /\ b.chunk = sent[2]
        /\ b.due = "head" /\ sent[1] \in Nat
    BY <1>1, <1>5, WriterUploads
  <2>2. q \in Pos
    BY <2>1, Positions
  <2>3. Ends(b, EndHead, q)
    BY <1>1, <1>2, <2>1 DEF Ends
  <2>4. Way(a, c2s', q)
    BY <1>3, <1>4, <1>5, <2>2, <2>3, WayGrows DEF Moves
  <2>5. cpc' # "body" /\ (cpc' # "upload" => sent[1] + 1 > Len(req.lens))
    BY <1>1, <1>2
  <2>6. q = Writer' /\ (cpc' \in {"idle", "reply", "more", "last", "answer"} => sent'[1] > Len(req'.lens))
    BY <1>1, <2>5 DEF Writer
  <2> QED BY <2>2, <2>4, <2>6 DEF HasWritten
<1> QED BY <1>1, <1>5, WritesOn

LEMMA ClientWaitsWhole ==
  ASSUME Form, Whole,
         \/ StreamThrows \/ SendFails \/ Vanish
         \/ RecvHead \/ RecvReply \/ RecvCut \/ RecvLob \/ RecvBad \/ RecvFails
  PROVE  Whole'
<1>1. /\ c2s' = c2s /\ UNCHANGED <<req, sent, proxyVars>> /\ cpc # "gone"
      /\ cut' = cut \/ cut' = TRUE
      /\ \/ cut' = TRUE \/ spc = "ended" \/ cpc' = "gone"
         \/ /\ cpc \in {"reply", "more", "last", "answer"}
            /\ cpc' \in {"idle", "more", "last", "answer"}
  BY DEF StreamThrows, SendFails, Vanish, RecvHead, RecvReply, RecvCut, RecvLob, RecvBad,
         RecvFails, Reset, Return, SocketError, AfterCall, Form, TypeOK
<1>2. CASE cut' = TRUE
  BY <1>2 DEF Whole
<1>3. CASE cut' = cut /\ ~cut
  <2>1. ASSUME NEW a \in Pos, NEW b \in Pos, spc # "ended", Way(a, c2s, b), HasWritten(b)
        PROVE  \E q \in Pos : Way(a, c2s', q) /\ (cpc' # "gone" => HasWritten(q)')
    BY <1>1, <1>3, <2>1 DEF HasWritten, Writer
  <2> QED BY <1>1, <1>3, <2>1, WritesOn
<1> QED BY <1>1, <1>2, <1>3

-----------------------------------------------------------------------------
(* The proxy reads                                                         *)

LEMMA IdsOf ==
  ASSUME NEW a \in Pos
  PROVE  /\ a.of \in Known /\ a.of.id \in Nat /\ (a.of.kind = "open") = (a.of.id = 1)
         /\ a.stream \in Nat /\ a.chunk \in Nat /\ a.due \in {"head", "request", "chunk"}
BY KnownFacts DEF Pos

LEMMA ProxyRestsWhole ==
  ASSUME Form, Whole,
         \/ ReadTimesOut \/ ReadEOF \/ WriteHead \/ WriteReply \/ WriteReplyFails \/ Dies
         \/ TaskEOF \/ TaskTimesOut \/ TaskGivesUp \/ TaskDone \/ TaskWriteFull \/ TaskWriteEnd
         \/ TaskWriteLobFails
  PROVE  Whole'
<1> SUFFICES ASSUME ~cut PROVE Whole'
  BY DEF Whole, ReadTimesOut, ReadEOF, WriteHead, WriteReply, WriteReplyFails, Dies, TaskEOF,
         TaskTimesOut, TaskGivesUp, TaskDone, TaskWriteFull, TaskWriteEnd, TaskWriteLobFails,
         WantsStream, clientVars
<1>1. /\ c2s' = c2s /\ UNCHANGED <<clientVars, sreq, taken>>
      /\ spc # "ended" /\ spc' # "body"
      /\ spc' = "task" => sreq.kind = "read" /\ spc = "task"
  BY DEF ReadTimesOut, ReadEOF, WriteHead, WriteReply, WriteReplyFails, Dies, TaskEOF,
         TaskTimesOut, TaskGivesUp, TaskDone, TaskWriteFull, TaskWriteEnd, TaskWriteLobFails,
         WantsStream, GoOn, EndSession
<1>2. ~WantsStream'
  <2>1. SUFFICES ASSUME spc' = "task" PROVE Len(sreq.lens) = 0 /\ Len(taken) >= 0
    BY <1>1 DEF WantsStream
  <2>2. sreq \in Requests
    BY <1>1, <2>1 DEF Form, Bodies, Working
  <2>3. sreq.lens = <<>>
    BY <1>1, <2>1, <2>2, RequestFacts
  <2> QED BY <2>3 DEF Form, TypeOK
<1>3. LobIsWhatWasSent' /\ Begins'
  BY <1>1, <1>2 DEF Whole, LobIsWhatWasSent, StreamOf, Begins
<1>4. OnTheWay'
  <2>1. PICK a, b \in Pos : Way(a, c2s, b) /\ HasRead(a) /\ (cpc # "gone" => HasWritten(b))
    BY <1>1 DEF Whole, OnTheWay
  <2>2. HasRead(a)'
    BY <1>1, <1>2, <2>1, IdsOf DEF HasRead
  <2>3. Way(a, c2s, b)' /\ (cpc' # "gone" => HasWritten(b)')
    BY <1>1, <2>1 DEF Way, Path, clientVars, HasWritten, Writer
  <2> QED BY <2>2, <2>3 DEF OnTheWay
<1> QED BY <1>3, <1>4 DEF Whole

(* What the proxy reads is the next move of the way.                       *)
LEMMA NextMove ==
  ASSUME Form, c2s # <<>>, NEW a \in Pos, NEW b \in Pos, Way(a, c2s, b)
  PROVE  \E m \in Pos : Moves(a, c2s[1], m) /\ Way(m, Tail(c2s), b)
BY WayShrinks DEF Form, TypeOK

LEMMA ReadHeadWhole ==
  ASSUME Form, Whole, ReadHead
  PROVE  Whole'
<1>1. /\ spc = "head" /\ c2s # <<>> /\ IsMain(c2s[1]) /\ c2s' = Tail(c2s) /\ spc' = "body"
      /\ UNCHANGED <<sreq, taken, lob, clientVars>>
  BY DEF ReadHead
<1> SUFFICES ASSUME ~cut PROVE Whole'
  BY <1>1 DEF Whole, clientVars
<1>2. LobIsWhatWasSent' /\ Begins'
  BY <1>1 DEF Whole, LobIsWhatWasSent, StreamOf, Begins, WantsStream
<1>3. PICK a, b \in Pos : Way(a, c2s, b) /\ HasRead(a) /\ (cpc # "gone" => HasWritten(b))
  BY <1>1 DEF Whole, OnTheWay
<1>4. PICK m \in Pos : Moves(a, c2s[1], m) /\ Way(m, Tail(c2s), b)
  BY <1>1, <1>3, NextMove
<1>5. m.of.id = a.of.id + 1 /\ a.of.id \in Nat
  BY <1>1, <1>4, MoveOf, IdsOf DEF Opens
<1>6. HasRead(m)'
  BY <1>1, <1>3, <1>5 DEF HasRead, WantsStream
<1>7. Way(m, c2s, b)' /\ (cpc' # "gone" => HasWritten(b)')
  BY <1>1, <1>3, <1>4 DEF Way, Path, clientVars, HasWritten, Writer
<1> QED BY <1>2, <1>6, <1>7 DEF Whole, OnTheWay

LEMMA ReadBadWhole ==
  ASSUME Whole, ReadBad
  PROVE  Whole'
BY DEF ReadBad, EndSession, Whole, clientVars, LobIsWhatWasSent, StreamOf, Begins, WantsStream, OnTheWay

(* A body is the request its head announced.                               *)
LEMMA BodyOf ==
  ASSUME Form, Whole, ~cut, spc = "body", c2s # <<>>
  PROVE  \E a, m, b \in Pos :
           /\ HasRead(a) /\ c2s[1].of = a.of /\ m = At(a.of, 1, 0, "head")
           /\ Way(m, Tail(c2s), b) /\ (cpc # "gone" => HasWritten(b))
<1>1. c2s[1].unit = "request"
  BY DEF Form, Bodies
<1>2. PICK a, b \in Pos : Way(a, c2s, b) /\ HasRead(a) /\ (cpc # "gone" => HasWritten(b))
  BY DEF Whole, OnTheWay
<1>3. PICK m \in Pos : Moves(a, c2s[1], m) /\ Way(m, Tail(c2s), b)
  BY <1>2, NextMove
<1>4. c2s[1] = Piece("request", a.of) /\ m = At(a.of, 1, 0, "head")
  BY <1>1, <1>3, MoveOf DEF Asks
<1>5. c2s[1].of = a.of
  BY <1>4 DEF Piece
<1> QED BY <1>2, <1>3, <1>4, <1>5

LEMMA ReadBodyWhole ==
  ASSUME Form, Whole, ReadBody
  PROVE  Whole'
<1>1. /\ spc = "body" /\ c2s # <<>> /\ c2s' = Tail(c2s) /\ sreq' = c2s[1].of
      /\ spc' = "task" /\ taken' = <<>> /\ lob' = <<>> /\ UNCHANGED clientVars
  BY DEF ReadBody
<1> SUFFICES ASSUME ~cut PROVE Whole'
  BY <1>1 DEF Whole, clientVars
<1>2. LobIsWhatWasSent' /\ Begins'
  BY <1>1 DEF LobIsWhatWasSent, Begins
<1>3. PICK a, m, b \in Pos :
        /\ HasRead(a) /\ c2s[1].of = a.of /\ m = At(a.of, 1, 0, "head")
        /\ Way(m, Tail(c2s), b) /\ (cpc # "gone" => HasWritten(b))
  BY <1>1, BodyOf
<1>4. HasRead(m)'
  <2>1. Len(taken') + 1 = 1 /\ Len(lob') = 0
    BY <1>1
  <2>2. sreq'.id >= 1
    BY <1>1, <1>3 DEF HasRead
  <2> QED BY <1>1, <1>3, <2>1, <2>2 DEF HasRead
<1>5. Way(m, c2s, b)' /\ (cpc' # "gone" => HasWritten(b)')
  BY <1>1, <1>3 DEF Way, Path, clientVars, HasWritten, Writer
<1> QED BY <1>2, <1>4, <1>5 DEF Whole, OnTheWay

(* Only the first request opens: no stream was read before it.             *)
LEMMA ReadBodyRefusedWhole ==
  ASSUME Form, Whole, ReadBodyRefused
  PROVE  Whole'
<1>1. /\ spc = "body" /\ c2s # <<>> /\ c2s' = Tail(c2s) /\ sreq' = c2s[1].of
      /\ sreq'.kind = "open" /\ spc' = "reply" /\ taken' = taken /\ UNCHANGED clientVars
  BY DEF ReadBodyRefused
<1> SUFFICES ASSUME ~cut PROVE Whole'
  BY <1>1 DEF Whole, clientVars
<1>2. PICK a, m, b \in Pos :
        /\ HasRead(a) /\ c2s[1].of = a.of /\ m = At(a.of, 1, 0, "head")
        /\ Way(m, Tail(c2s), b) /\ (cpc # "gone" => HasWritten(b))
  BY <1>1, BodyOf
<1>3. a.of.id = 1
  BY <1>1, <1>2, IdsOf
<1>4. taken = <<>>
  BY <1>1, <1>2, <1>3 DEF HasRead
<1>5. LobIsWhatWasSent' /\ Begins'
  BY <1>1, <1>4 DEF LobIsWhatWasSent, Begins, WantsStream
<1>6. HasRead(m)'
  BY <1>1, <1>4 DEF HasRead, WantsStream
<1>7. Way(m, c2s, b)' /\ (cpc' # "gone" => HasWritten(b)')
  BY <1>1, <1>2 DEF Way, Path, clientVars, HasWritten, Writer
<1> QED BY <1>5, <1>6, <1>7 DEF Whole, OnTheWay

-----------------------------------------------------------------------------
(* The executor reads                                                      *)

LEMMA OneUnit ==
  ASSUME NEW s \in Seq(Units), s # <<>>
  PROVE  /\ SubSeq(s, 2, 1) = <<>> /\ SubSeq(s, 2, Len(s)) = Tail(s) /\ Tail(s) \in Seq(Units)
         /\ Len(s) > 1 => /\ Tail(s) # <<>> /\ Tail(s)[1] = s[2] /\ s[2] \in Units
                          /\ SubSeq(s, 2, 2) = <<s[2]>>
                          /\ SubSeq(s, 3, Len(s)) = Tail(Tail(s))
<1>1. SubSeq(s, 2, 1) = <<>>
  BY SubSeqEmpty
<1>2. SubSeq(s, 2, Len(s)) = Tail(s) /\ Tail(s) \in Seq(Units)
  BY TailIsSubSeq
<1>3. ASSUME Len(s) > 1
      PROVE  /\ Tail(s) # <<>> /\ Tail(s)[1] = s[2] /\ s[2] \in Units
             /\ SubSeq(s, 2, 2) = <<s[2]>>
             /\ SubSeq(s, 3, Len(s)) = Tail(Tail(s))
  <2> DEFINE t == Tail(s)
  <2>1. t \in Seq(Units) /\ Len(t) = Len(s) - 1 /\ \A i \in 1..Len(t) : t[i] = s[i + 1]
    BY HeadTailProperties
  <2> HIDE DEF t
  <2>2. Len(s) \in Nat /\ Len(t) >= 1 /\ t # <<>> /\ 1 \in 1..Len(t) /\ 2 \in 1..Len(s)
        /\ 1 + 1 = 2
    BY <1>3, <2>1
  <2>3. t[1] = s[2] /\ s[2] \in Units
    BY <2>1, <2>2
  <2>4. SubSeq(s, 2, 2) = <<s[2]>>
    <3> DEFINE x == SubSeq(s, 2, 2)
    <3>1. \A i \in 2..2 : s[i] \in Units
      BY <2>3
    <3>2. /\ x \in Seq(Units) /\ Len(x) = IF 2 <= 2 THEN 2 - 2 + 1 ELSE 0
          /\ \A i \in 1..(2 - 2 + 1) : x[i] = s[2 + i - 1]
      BY <3>1, SubSeqProperties
    <3> HIDE DEF x
    <3>3. Len(x) = 1 /\ x[1] = s[2]
      BY <3>2
    <3> DEFINE e == s[2]
               y == <<e>>
    <3>4. e \in Units /\ x[1] = e
      BY <2>3, <3>3
    <3> HIDE DEF e
    <3>5. y \in Seq(Units) /\ Len(y) = 1 /\ y[1] = e
      BY <3>4
    <3> HIDE DEF y
    <3>6. \A i \in 1..Len(x) : x[i] = y[i]
      BY <3>3, <3>4, <3>5
    <3>7. x = y
      BY <3>2, <3>3, <3>5, <3>6, SeqEqual
    <3> QED BY <3>7 DEF x, y, e
  <2> DEFINE v == Tail(t)
             w == SubSeq(s, 3, Len(s))
  <2>5. v \in Seq(Units) /\ Len(v) = Len(t) - 1 /\ \A i \in 1..Len(v) : v[i] = t[i + 1]
    BY <2>1, <2>2, HeadTailProperties
  <2>6. /\ w \in Seq(Units) /\ Len(w) = Len(s) - 3 + 1
        /\ \A i \in 1..Len(w) : w[i] = s[i + 3 - 1]
    BY <1>3, Dropped
  <2> HIDE DEF v, w
  <2>7. Len(v) = Len(w) /\ \A i \in 1..Len(v) : v[i] = w[i]
    <3>1. Len(v) = Len(w)
      BY <2>1, <2>2, <2>5, <2>6
    <3>2. ASSUME NEW i \in 1..Len(v)
          PROVE  v[i] = w[i]
      <4>1. i + 1 \in 1..Len(t) /\ i \in 1..Len(w) /\ (i + 1) + 1 = i + 3 - 1
        BY <2>2, <2>5, <3>1
      <4>2. v[i] = s[(i + 1) + 1] /\ w[i] = s[i + 3 - 1]
        BY <2>1, <2>5, <2>6, <4>1
      <4> QED BY <4>1, <4>2
    <3> QED BY <3>1, <3>2
  <2>8. v = w
    BY <2>5, <2>6, <2>7, SeqEqual
  <2> QED BY <2>2, <2>3, <2>4, <2>8 DEF t, v, w
<1> QED BY <1>1, <1>2, <1>3

(* Where the executor reads there is a package of the stream it is at.     *)
LEMMA StreamRead ==
  ASSUME Form, Whole, ~cut, WantsStream, ~Starved, IsHead(c2s[1])
  PROVE  \E a, m, b \in Pos :
           /\ a = At(sreq, Len(taken) + 1, Len(lob), "head") /\ sreq.id >= 1 /\ sreq \in Known
           /\ Way(m, Tail(c2s), b) /\ (cpc # "gone" => HasWritten(b))
           /\ \/ c2s[1] = ChunkHead /\ Len(c2s) > 1 /\ Announces(a, ChunkHead, m)
              \/ c2s[1] = EndHead /\ Ends(a, EndHead, m)
<1>1. c2s # <<>> /\ spc = "task"
  BY DEF Starved, WantsStream
<1>2. PICK a, b \in Pos : Way(a, c2s, b) /\ HasRead(a) /\ (cpc # "gone" => HasWritten(b))
  BY <1>1 DEF Whole, OnTheWay
<1>3. a = At(sreq, Len(taken) + 1, Len(lob), "head") /\ sreq.id >= 1
  BY <1>2 DEF HasRead
<1>4. a.of = sreq /\ a.stream = Len(taken) + 1 /\ sreq \in Known
  BY <1>2, <1>3 DEF At, Pos
<1>5. PICK m \in Pos : Moves(a, c2s[1], m) /\ Way(m, Tail(c2s), b)
  BY <1>1, <1>2, NextMove
<1>6. 1 \in 1..Len(c2s) /\ Aligned(c2s)
  BY <1>1 DEF Form, TypeOK, Written
<1>7. c2s[1] \in {RequestHead, ChunkHead, EndHead}
  BY <1>6 DEF Aligned
<1>8. c2s[1] # RequestHead
  <2>1. SUFFICES ASSUME c2s[1] = RequestHead PROVE FALSE
    OBVIOUS
  <2>2. a.stream > Len(a.of.lens)
    BY <1>5, <2>1, MoveOf DEF Opens
  <2>3. Len(sreq.lens) \in Nat /\ Len(taken) \in Nat
    BY <1>4, KnownFacts, BoundsAssumption DEF Form, TypeOK
  <2> QED BY <1>4, <2>2, <2>3 DEF WantsStream
<1>9. CASE c2s[1] = ChunkHead
  <2>1. Len(c2s) > 1
    BY <1>6, <1>9 DEF Aligned
  <2>2. Announces(a, ChunkHead, m)
    BY <1>5, <1>9, MoveOf
  <2> QED BY <1>2, <1>3, <1>4, <1>5, <1>9, <2>1, <2>2
<1>10. CASE c2s[1] = EndHead
  <2>1. Ends(a, EndHead, m)
    BY <1>5, <1>10, MoveOf
  <2> QED BY <1>2, <1>3, <1>4, <1>5, <1>10, <2>1
<1> QED BY <1>7, <1>8, <1>9, <1>10

LEMMA TaskReadWhole ==
  ASSUME Form, Whole, TaskRead
  PROVE  Whole'
<1>1. /\ WantsStream /\ ~Starved /\ IsHead(c2s[1])
      /\ UNCHANGED <<spc, sreq, clientVars>>
  BY DEF TaskRead
<1> SUFFICES ASSUME ~cut PROVE Whole'
  BY <1>1 DEF Whole, clientVars
<1>2. LobIsWhatWasSent /\ Begins
  BY DEF Whole
<1>3. /\ c2s \in Seq(Units) /\ c2s # <<>> /\ lob \in Seq(Units) /\ taken \in Seq(Seq(Units))
      /\ spc = "task" /\ Len(lob) \in Nat /\ Len(taken) \in Nat
  BY <1>1 DEF Form, TypeOK, Starved, WantsStream
<1>4. PICK a, m, b \in Pos :
        /\ a = At(sreq, Len(taken) + 1, Len(lob), "head") /\ sreq.id >= 1 /\ sreq \in Known
        /\ Way(m, Tail(c2s), b) /\ (cpc # "gone" => HasWritten(b))
        /\ \/ c2s[1] = ChunkHead /\ Len(c2s) > 1 /\ Announces(a, ChunkHead, m)
           \/ c2s[1] = EndHead /\ Ends(a, EndHead, m)
  BY <1>1, StreamRead
<1>5. a.of = sreq /\ a.stream = Len(taken) + 1 /\ a.chunk = Len(lob)
  BY <1>4 DEF At
<1>6. ASSUME NEW q \in Pos, Way(q, c2s', b), HasRead(q)'
      PROVE  OnTheWay'
  <2>1. Way(q, c2s, b)' /\ (cpc' # "gone" => HasWritten(b)')
    BY <1>1, <1>4, <1>6 DEF Way, Path, clientVars, HasWritten, Writer
  <2> QED BY <1>6, <2>1 DEF OnTheWay
<1>7. CASE c2s[1] = ChunkHead
  <2> DEFINE u == c2s[2]
  <2>1. ChunkHead.next = TRUE /\ ChunkHead.len = 1 /\ ChunkHead # EndHead
    BY Heads DEF ChunkHead, PkgHead
  <2>2. Len(c2s) > 1 /\ m = At(sreq, Len(taken) + 1, Len(lob), "chunk")
    BY <1>4, <1>5, <1>7, <2>1 DEF Announces
  <2>3. /\ Tail(c2s) # <<>> /\ Tail(c2s)[1] = u /\ u \in Units /\ Tail(c2s) \in Seq(Units)
        /\ SubSeq(c2s, 2, 2) = <<u>> /\ SubSeq(c2s, 3, Len(c2s)) = Tail(Tail(c2s))
    BY <1>3, <2>2, OneUnit
  <2>4. PICK q \in Pos : Moves(m, u, q) /\ Way(q, Tail(Tail(c2s)), b)
    BY <1>4, <2>3, WayShrinks
  <2>5. u = Chunk(sreq, Len(taken) + 1, Len(lob) + 1)
        /\ q = At(sreq, Len(taken) + 1, Len(lob) + 1, "head")
    <3>1. m.due = "chunk" /\ m.of = sreq /\ m.stream = Len(taken) + 1 /\ m.chunk = Len(lob)
      BY <2>2 DEF At
    <3>2. Streams(m, u, q)
      BY <2>4, <3>1, MoveOf
    <3> QED BY <3>1, <3>2 DEF Streams
  <2>6. lob' = lob \o <<u>> /\ taken' = taken /\ c2s' = Tail(Tail(c2s))
    <3>1. 1 + c2s[1].len = 2 /\ 2 + c2s[1].len = 3 /\ c2s[1].next = TRUE
      BY <1>7, <2>1
    <3> QED BY <2>3, <3>1 DEF TaskRead
  <2> HIDE DEF u
  <2>7. Len(lob') = Len(lob) + 1 /\ lob'[Len(lob) + 1] = u
        /\ \A i \in 1..Len(lob) : lob'[i] = lob[i]
    BY <1>3, <2>3, <2>6
  <2>8. Begins'
    <3>1. \A i \in 1..(Len(lob) + 1) : i = Len(lob) + 1 \/ i \in 1..Len(lob)
      BY <1>3
    <3> QED BY <1>1, <1>2, <2>5, <2>6, <2>7, <3>1 DEF Begins
  <2>9. LobIsWhatWasSent'
    BY <1>1, <1>2, <2>6 DEF LobIsWhatWasSent, StreamOf
  <2>10. HasRead(q)'
    <3>1. q.of = sreq
      BY <2>5 DEF At
    <3> QED BY <1>1, <1>3, <1>4, <2>5, <2>6, <2>7, <3>1 DEF HasRead
  <2> QED BY <1>6, <2>4, <2>6, <2>8, <2>9, <2>10 DEF Whole
<1>8. CASE c2s[1] = EndHead
  <2>1. EndHead.next = FALSE /\ EndHead.len = 0 /\ ChunkHead # EndHead
    BY Heads DEF EndHead, PkgHead
  <2>2. /\ m = At(sreq, Len(taken) + 1 + 1, 0, "head") /\ Len(taken) + 1 <= Len(sreq.lens)
        /\ Len(lob) = sreq.lens[Len(taken) + 1]
    BY <1>4, <1>5, <1>8, <2>1 DEF Ends
  <2>3. SubSeq(c2s, 2, 1) = <<>> /\ SubSeq(c2s, 2, Len(c2s)) = Tail(c2s)
    BY <1>3, OneUnit
  <2>4. lob' = <<>> /\ taken' = Append(taken, lob) /\ c2s' = Tail(c2s)
    <3>1. 1 + c2s[1].len = 1 /\ 2 + c2s[1].len = 2 /\ c2s[1].next = FALSE
      BY <1>8, <2>1
    <3>2. lob \o <<>> = lob
      BY <1>3, ConcatEmptySeq
    <3> QED BY <2>3, <3>1, <3>2 DEF TaskRead
  <2>5. lob = StreamOf(sreq, Len(taken) + 1)
    <3>1. \A i \in 1..Len(lob) : lob[i] = Chunk(sreq, Len(taken) + 1, i)
      BY <1>1, <1>2 DEF Begins
    <3>2. lob = [i \in 1..Len(lob) |-> lob[i]]
      BY <1>3
    <3> QED BY <2>2, <3>1, <3>2 DEF StreamOf
  <2>6. LobIsWhatWasSent'
    <3>1. /\ Len(taken') = Len(taken) + 1 /\ taken'[Len(taken) + 1] = lob
          /\ \A k \in 1..Len(taken) : taken'[k] = taken[k]
      BY <1>3, <2>4
    <3>2. \A k \in 1..(Len(taken) + 1) : k = Len(taken) + 1 \/ k \in 1..Len(taken)
      BY <1>3
    <3>3. \A k \in 1..Len(taken) : taken[k] = StreamOf(sreq, k)
      BY <1>2 DEF LobIsWhatWasSent
    <3>4. \A k \in 1..Len(taken') : taken'[k] = StreamOf(sreq, k)
      BY <2>5, <3>1, <3>2, <3>3
    <3>5. \A k \in 1..Len(taken') : StreamOf(sreq, k) = StreamOf(sreq', k)
      BY <1>1
    <3> QED BY <1>1, <3>4 DEF LobIsWhatWasSent, StreamOf
  <2>7. Begins'
    BY <2>4 DEF Begins
  <2>8. HasRead(m)'
    <3>1. m.of = sreq
      BY <2>2 DEF At
    <3>2. Len(taken') = Len(taken) + 1 /\ Len(lob') = 0
      BY <1>3, <2>4
    <3> QED BY <1>1, <1>3, <1>4, <2>2, <3>1, <3>2 DEF HasRead
  <2> QED BY <1>4, <1>6, <2>4, <2>6, <2>7, <2>8 DEF Whole
<1> QED BY <1>4, <1>7, <1>8

-----------------------------------------------------------------------------
LEMMA WholeStep == Form /\ Whole /\ [Next]_vars => Whole'
<1> SUFFICES ASSUME Form, Whole, [Next]_vars PROVE Whole'
  OBVIOUS
<1>1. CASE UNCHANGED vars
  BY <1>1 DEF vars, clientVars, proxyVars, Whole, LobIsWhatWasSent, StreamOf, Begins, OnTheWay,
              WantsStream, Way, Path, HasRead, HasWritten, Writer
<1>2. CASE Client
  <2>1. CASE \E r \in Requests : Call(r)
    BY <2>1, CallWhole
  <2>2. CASE SendBody
    BY <2>2, SendBodyWhole
  <2>3. CASE SendChunk
    BY <2>3, SendChunkWhole
  <2>4. CASE SendEnd
    BY <2>4, SendEndWhole
  <2>5. CASE \/ StreamThrows \/ SendFails \/ Vanish
             \/ RecvHead \/ RecvReply \/ RecvCut \/ RecvLob \/ RecvBad \/ RecvFails
    BY <2>5, ClientWaitsWhole
  <2> QED BY <1>2, <2>1, <2>2, <2>3, <2>4, <2>5 DEF Client
<1>3. CASE Fiber \/ Task
  <2>1. CASE ReadHead
    BY <2>1, ReadHeadWhole
  <2>2. CASE ReadBad
    BY <2>2, ReadBadWhole
  <2>3. CASE ReadBody
    BY <2>3, ReadBodyWhole
  <2>4. CASE ReadBodyRefused
    BY <2>4, ReadBodyRefusedWhole
  <2>5. CASE TaskRead
    BY <2>5, TaskReadWhole
  <2>6. CASE \/ ReadTimesOut \/ ReadEOF \/ WriteHead \/ WriteReply \/ WriteReplyFails
             \/ Dies \/ TaskEOF \/ TaskTimesOut \/ TaskGivesUp \/ TaskDone \/ TaskWriteFull \/ TaskWriteEnd
             \/ TaskWriteLobFails
    BY <2>6, ProxyRestsWhole
  <2> QED BY <1>3, <2>1, <2>2, <2>3, <2>4, <2>5, <2>6 DEF Fiber, Task
<1> QED BY <1>1, <1>2, <1>3 DEF Next

(* Streams have no end marks of their own and packages no numbers: still,  *)
(* what PackageInputStream gives the database is, stream by stream, what   *)
(* S2R wrote, as long as no stream of the application has thrown; through  *)
(* timeouts, plugins that give up and calls that failed otherwise.         *)
THEOREM StreamsArriveWhole == Spec => []LobIsWhatWasSent
<1>1. Inv => Form
  BY DEF Inv
<1>2. Whole => LobIsWhatWasSent
  BY DEF Whole, LobIsWhatWasSent
<1> QED BY <1>1, <1>2, SpecInv, WholeInit, WholeStep, PTL DEF Spec
(* As long as no stream of the application throws, no request is read as   *)
(* data of a stream.                                                       *)
THEOREM StreamsHoldData == Spec => [](~cut => StreamsHoldStreamData)
<1>1. ASSUME TypeOK, LobIsWhatWasSent, ~cut, NEW k \in 1..Len(taken), NEW i \in 1..MaxChunks + 1,
             i <= Len(taken[k])
      PROVE  taken[k][i].unit = "chunk"
  <2>1. taken[k] \in Seq(Units)
    BY <1>1, ElementOfSeq DEF TypeOK
  <2>2. i \in DOMAIN taken[k]
    BY <1>1, <2>1, BoundsAssumption
  <2>3. taken[k] = [j \in 1..sreq.lens[k] |-> Chunk(sreq, k, j)]
    BY <1>1 DEF LobIsWhatWasSent, StreamOf
  <2>4. taken[k][i] = Chunk(sreq, k, i)
    BY <2>2, <2>3, Zenon
  <2> QED
    BY <2>4 DEF Chunk, Piece
<1>2. TypeOK /\ LobIsWhatWasSent => (~cut => StreamsHoldStreamData)
  BY <1>1 DEF StreamsHoldStreamData
<1> QED
  BY <1>2, TypeCorrect, StreamsArriveWhole, PTL
=============================================================================
