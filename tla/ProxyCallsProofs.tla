-------------------------- MODULE ProxyCallsProofs --------------------------
(* Proofs about ProxySession beyond the first "socket error": requests and *)
(* replies keep their order on the wires whatever is lost, cut off or      *)
(* misread, so a session implements SerialCalls; and no client waits for   *)
(* what nobody will write.                                                 *)
EXTENDS ProxySessionProofs

(* The pieces of one unit in s are of requests with rising numbers.        *)
Rising(s, unit, low, high) == \A i \in 1..Len(s) : s[i].unit = unit =>
  /\ low <= s[i].of.id /\ s[i].of.id <= high
  /\ \A j \in 1..Len(s) : i < j /\ s[j].unit = unit => s[i].of.id < s[j].of.id

(* The last request whose body is written, and the last one answered.      *)
Latest   == IF cpc = "body" THEN req.id - 1 ELSE req.id
Answered == IF Busy THEN sreq.id - 1 ELSE sreq.id

InOrder ==
  /\ Rising(c2s, "request", sreq.id + 1, Latest)
  /\ Rising(s2c, "reply", 0, Answered)
  /\ sreq.id <= Latest /\ got <= sreq.id
  /\ ~failed => req.id <= sreq.id + 1

-----------------------------------------------------------------------------
(* Pieces in order                                                         *)

LEMMA IdOfPiece ==
  ASSUME NEW s \in Seq(Units), NEW unit \in {"request", "reply"},
         NEW i \in 1..Len(s), s[i].unit = unit
  PROVE  s[i].of.id \in Nat /\ s[i].of \in Requests
<1>1. s[i] \in Units
  BY ElementOfSeq
<1>2. s[i].of \in Requests
  BY <1>1, UnitFacts
<1> QED BY <1>2, RequestFacts, BoundsAssumption

LEMMA RisingWithin ==
  ASSUME NEW s \in Seq(Units), NEW unit \in {"request", "reply"}, NEW low \in Int,
         NEW high \in Int, Rising(s, unit, low, high),
         NEW l \in Int, l <= low, NEW h \in Int, high <= h
  PROVE  Rising(s, unit, l, h)
<1>1. ASSUME NEW i \in 1..Len(s), s[i].unit = unit
      PROVE  l <= s[i].of.id /\ s[i].of.id <= h
  <2>1. s[i].of.id \in Nat
    BY <1>1, IdOfPiece
  <2>2. low <= s[i].of.id /\ s[i].of.id <= high
    BY <1>1 DEF Rising
  <2> QED BY <2>1, <2>2
<1> QED BY <1>1 DEF Rising

(* What is read leaves the rest in order.                                  *)
LEMMA RisingSuffix ==
  ASSUME NEW s \in Seq(Units), s # <<>>, NEW unit \in {"request", "reply"},
         NEW low \in Int, NEW high \in Int, Rising(s, unit, low, high),
         NEW m \in {2, 3}, NEW t, t = SubSeq(s, m, Len(s))
  PROVE  /\ Rising(t, unit, low, high)
         /\ \A k \in 1..Len(s) : k < m /\ s[k].unit = unit
              => Rising(t, unit, s[k].of.id + 1, high)
<1>1. CASE m > Len(s) + 1
  <2>1. t = <<>>
    BY <1>1, SubSeqEmpty
  <2> QED BY <2>1 DEF Rising
<1>2. CASE m <= Len(s) + 1
  <2>1. /\ t \in Seq(Units) /\ Len(t) = Len(s) - m + 1
        /\ \A i \in 1..Len(t) : t[i] = s[i + m - 1]
    BY <1>2, Dropped
  <2>2. Len(s) \in Nat /\ Len(t) \in Nat
    BY <2>1
  <2>3. ASSUME NEW i \in 1..Len(t)
        PROVE  i + m - 1 \in 1..Len(s) /\ t[i] = s[i + m - 1] /\ m <= i + m - 1
    BY <2>1, <2>2
  <2>4. ASSUME NEW i \in 1..Len(t), NEW j \in 1..Len(t), i < j,
               t[i].unit = unit, t[j].unit = unit
        PROVE  t[i].of.id < t[j].of.id
    <3>1. i + m - 1 < j + m - 1
      BY <2>4
    <3> QED BY <2>3, <2>4, <3>1 DEF Rising
  <2>5. Rising(t, unit, low, high)
    BY <2>3, <2>4 DEF Rising
  <2>6. ASSUME NEW k \in 1..Len(s), k < m, s[k].unit = unit
        PROVE  Rising(t, unit, s[k].of.id + 1, high)
    <3>1. ASSUME NEW i \in 1..Len(t), t[i].unit = unit
          PROVE  s[k].of.id + 1 <= t[i].of.id
      <4>1. k < i + m - 1
        BY <2>3, <2>6
      <4>2. s[k].of.id < t[i].of.id
        BY <2>3, <2>6, <3>1, <4>1 DEF Rising
      <4>3. s[k].of.id \in Nat /\ t[i].of.id \in Nat
        BY <2>1, <2>6, <3>1, IdOfPiece
      <4>4. \A a, b \in Nat : a < b => a + 1 <= b
        OBVIOUS
      <4> QED BY <4>2, <4>3, <4>4, Zenon
    <3> QED BY <2>5, <3>1 DEF Rising
  <2> QED BY <2>5, <2>6
<1>3. Len(s) \in Nat
  OBVIOUS
<1> QED BY <1>1, <1>2, <1>3

LEMMA RisingTail ==
  ASSUME NEW s \in Seq(Units), s # <<>>, NEW unit \in {"request", "reply"},
         NEW low \in Int, NEW high \in Int, Rising(s, unit, low, high)
  PROVE  /\ Rising(Tail(s), unit, low, high)
         /\ s[1].unit = unit => Rising(Tail(s), unit, s[1].of.id + 1, high)
<1>1. Tail(s) = SubSeq(s, 2, Len(s))
  BY TailIsSubSeq
<1>2. 1 \in 1..Len(s) /\ 1 < 2 /\ 2 \in {2, 3}
  OBVIOUS
<1> QED BY <1>1, <1>2, RisingSuffix

LEMMA RisingJoin ==
  ASSUME NEW s \in Seq(Units), NEW t \in Seq(Units), NEW unit \in {"request", "reply"},
         NEW low \in Int, NEW high \in Int, Rising(s, unit, low, high),
         NEW l \in Int, NEW h \in Int, Rising(t, unit, l, h), low <= l, high < l, high <= h
  PROVE  Rising(s \o t, unit, low, h)
<1> DEFINE u == s \o t
<1>1. /\ u \in Seq(Units) /\ Len(u) = Len(s) + Len(t)
      /\ \A i \in 1..Len(s) : u[i] = s[i]
      /\ \A i \in 1..Len(u) : i > Len(s) => u[i] = t[i - Len(s)]
  BY Joined
<1>2. Len(s) \in Nat /\ Len(t) \in Nat
  OBVIOUS
<1> HIDE DEF u
<1>3. ASSUME NEW i \in 1..Len(u), u[i].unit = unit
      PROVE  /\ u[i].of.id \in Nat /\ low <= u[i].of.id /\ u[i].of.id <= h
             /\ i <= Len(s) => i \in 1..Len(s) /\ u[i] = s[i] /\ u[i].of.id <= high
             /\ i > Len(s) => /\ i - Len(s) \in 1..Len(t) /\ u[i] = t[i - Len(s)]
                              /\ l <= u[i].of.id
  <2>1. u[i].of.id \in Nat
    BY <1>1, <1>3, IdOfPiece
  <2>2. CASE i <= Len(s)
    <3>1. i \in 1..Len(s)
      BY <1>2, <2>2
    <3>2. u[i] = s[i]
      BY <1>1, <3>1
    <3>3. low <= u[i].of.id /\ u[i].of.id <= high
      BY <1>3, <3>1, <3>2 DEF Rising
    <3> QED BY <1>2, <2>1, <2>2, <3>1, <3>2, <3>3
  <2>3. CASE i > Len(s)
    <3>1. i - Len(s) \in 1..Len(t)
      BY <1>1, <1>2, <2>3
    <3>2. u[i] = t[i - Len(s)]
      BY <1>1, <2>3
    <3>3. l <= u[i].of.id /\ u[i].of.id <= h
      BY <1>3, <3>1, <3>2 DEF Rising
    <3> QED BY <1>2, <2>1, <2>3, <3>1, <3>2, <3>3
  <2> QED BY <1>2, <2>2, <2>3
<1>4. ASSUME NEW i \in 1..Len(u), u[i].unit = unit, NEW j \in 1..Len(u), i < j,
             u[j].unit = unit
      PROVE  u[i].of.id < u[j].of.id
  <2>1. CASE j <= Len(s)
    <3>1. i <= Len(s)
      BY <1>2, <1>4, <2>1
    <3> QED BY <1>3, <1>4, <2>1, <3>1 DEF Rising
  <2>2. CASE i > Len(s)
    <3>1. j > Len(s) /\ i - Len(s) < j - Len(s)
      BY <1>2, <1>4, <2>2
    <3>2. /\ i - Len(s) \in 1..Len(t) /\ u[i] = t[i - Len(s)]
          /\ j - Len(s) \in 1..Len(t) /\ u[j] = t[j - Len(s)]
      BY <1>3, <1>4, <2>2, <3>1
    <3> QED BY <1>4, <3>1, <3>2 DEF Rising
  <2>3. CASE i <= Len(s) /\ j > Len(s)
    <3>1. u[i].of.id \in Nat /\ u[i].of.id <= high
      BY <1>3, <1>4, <2>3
    <3>2. u[j].of.id \in Nat /\ l <= u[j].of.id
      BY <1>3, <1>4, <2>3
    <3>3. \A a, b \in Nat : a <= high /\ l <= b => a < b
      OBVIOUS
    <3> QED BY <3>1, <3>2, <3>3, Zenon
  <2> QED BY <1>2, <2>1, <2>2, <2>3
<1> QED BY <1>3, <1>4 DEF Rising, u

(* What has no piece of the unit changes nothing.                          *)
LEMMA RisingKept ==
  ASSUME NEW s \in Seq(Units), NEW t \in Seq(Units), NEW unit \in {"request", "reply"},
         NEW low \in Int, NEW high \in Int, Rising(s, unit, low, high),
         \A i \in 1..Len(t) : t[i].unit # unit
  PROVE  Rising(s \o t, unit, low, high)
<1> DEFINE u == s \o t
<1>1. /\ u \in Seq(Units) /\ Len(u) = Len(s) + Len(t)
      /\ \A i \in 1..Len(s) : u[i] = s[i]
      /\ \A i \in 1..Len(u) : i > Len(s) => u[i] = t[i - Len(s)]
  BY Joined
<1>2. Len(s) \in Nat /\ Len(t) \in Nat
  OBVIOUS
<1> HIDE DEF u
<1>3. ASSUME NEW i \in 1..Len(u), u[i].unit = unit
      PROVE  i \in 1..Len(s) /\ u[i] = s[i]
  <2>1. ASSUME i > Len(s)
        PROVE  FALSE
    <3>1. i - Len(s) \in 1..Len(t) /\ u[i] = t[i - Len(s)]
      BY <1>1, <1>2, <2>1
    <3> QED BY <1>3, <3>1
  <2>2. i \in 1..Len(s)
    BY <1>2, <2>1
  <2> QED BY <1>1, <2>2
<1> QED BY <1>3 DEF Rising, u

LEMMA OnePiece ==
  ASSUME NEW r \in Requests, NEW unit \in {"request", "reply"},
         NEW l \in Int, NEW h \in Int, l <= r.id, r.id <= h
  PROVE  Rising(<<Piece(unit, r)>>, unit, l, h)
<1>1. r.id \in Nat
  BY RequestFacts, BoundsAssumption
<1> QED BY <1>1 DEF Rising, Piece

(* Packages without a piece of a request or a reply.                       *)
LEMMA OtherPackages ==
  /\ \A i \in 1..Len(<<RequestHead>>) : <<RequestHead>>[i].unit # "request"
  /\ \A i \in 1..Len(EndPackage) : EndPackage[i].unit # "request"
  /\ \A r, k, n : \A i \in 1..Len(ChunkPackage(r, k, n)) :
       ChunkPackage(r, k, n)[i].unit # "request"
  /\ \A t \in {FullPackage, LastPackage, NoPackage, <<ReplyHead>>} :
       \A i \in 1..Len(t) : t[i].unit # "reply"
<1>1. \A i \in 1..Len(<<RequestHead>>) : <<RequestHead>>[i].unit # "request"
  BY DEF RequestHead, PkgHead
<1>2. \A i \in 1..Len(EndPackage) : EndPackage[i].unit # "request"
  BY DEF EndPackage, PkgHead
<1>3. ASSUME NEW r, NEW k, NEW n
      PROVE  \A i \in 1..Len(ChunkPackage(r, k, n)) : ChunkPackage(r, k, n)[i].unit # "request"
  <2>1. \A i \in 1..2 : i = 1 \/ i = 2
    OBVIOUS
  <2> QED BY <2>1 DEF ChunkPackage, PkgHead, Chunk, Piece
<1>4. ASSUME NEW h, h.unit = "head"
      PROVE  /\ \A i \in 1..Len(<<h>>) : <<h>>[i].unit # "reply"
             /\ \A i \in 1..Len(<<h, Gzip, Gzip>>) : <<h, Gzip, Gzip>>[i].unit # "reply"
  <2>1. \A i \in 1..3 : i = 1 \/ i = 2 \/ i = 3
    OBVIOUS
  <2> QED BY <1>4, <2>1 DEF Gzip, Piece
<1>5. \A t \in {FullPackage, LastPackage, NoPackage, <<ReplyHead>>} :
        \A i \in 1..Len(t) : t[i].unit # "reply"
  <2>1. ProxyHead(1, TRUE, 1).unit = "head" /\ ProxyHead(1, TRUE, 0).unit = "head"
        /\ ProxyHead(1, FALSE, 0).unit = "head" /\ ReplyHead.unit = "head"
    BY DEF ReplyHead, ProxyHead, PkgHead
  <2> QED BY <1>4, <2>1 DEF FullPackage, LastPackage, NoPackage
<1> QED BY <1>1, <1>2, <1>3, <1>5

-----------------------------------------------------------------------------
(* Requests and replies in order                                           *)

LEMMA Numbers ==
  ASSUME Form
  PROVE  /\ req.id \in Nat /\ sreq.id \in Nat /\ got \in Nat
         /\ Latest \in Int /\ Answered \in Int /\ Latest <= req.id /\ Answered <= sreq.id
         /\ c2s \in Seq(Units) /\ s2c \in Seq(Units)
         /\ sreq.id + 1 \in Int /\ 0 \in Int
         /\ "request" \in {"request", "reply"} /\ "reply" \in {"request", "reply"}
<1>1. \A r \in Requests \cup {NoRequest} : r.id \in Nat
  BY RequestFacts, BoundsAssumption DEF NoRequest
<1>2. req.id \in Nat /\ sreq.id \in Nat /\ got \in Nat /\ c2s \in Seq(Units) /\ s2c \in Seq(Units)
  BY <1>1, BoundsAssumption DEF Form, TypeOK
<1> QED BY <1>2 DEF Latest, Answered

LEMMA OrderInit == Init => InOrder
<1> SUFFICES ASSUME Init PROVE InOrder
  OBVIOUS
<1>1. \A unit, l, h : Rising(<<>>, unit, l, h)
  BY DEF Rising
<1>2. NoRequest.id = 0
  BY DEF NoRequest
<1> QED BY <1>1, <1>2 DEF Init, InOrder, Latest, Answered, Busy

(* A call ends, or a package of the answer is read.                        *)
LEMMA ClientReadsInOrder ==
  ASSUME Form, InOrder, UNCHANGED <<c2s, req, sreq, spc>>, cpc' # "body",
         Rising(s2c', "reply", 0, Answered), got' \in Nat, got' <= sreq.id,
         failed' \in {failed, TRUE}
  PROVE  InOrder'
<1>1. Latest' = req.id /\ Answered' = Answered /\ c2s' = c2s /\ sreq' = sreq /\ req' = req
  BY DEF Latest, Answered, Busy
<1>2. Rising(c2s', "request", sreq'.id + 1, Latest')
  BY <1>1, Numbers, RisingWithin DEF InOrder
<1>3. Rising(s2c', "reply", 0, Answered')
  BY <1>1
<1>4. sreq'.id <= Latest'
  BY <1>1, Numbers DEF InOrder
<1>5. ~failed' => req'.id <= sreq'.id + 1
  BY <1>1 DEF InOrder
<1>6. got' <= sreq'.id
  BY <1>1
<1> QED BY <1>2, <1>3, <1>4, <1>5, <1>6 DEF InOrder

LEMMA CallsEndInOrder ==
  ASSUME Form, InOrder, StreamThrows \/ SendFails \/ RecvFails \/ RecvCut \/ Vanish
  PROVE  InOrder'
<1>1. /\ UNCHANGED <<c2s, req, sreq, spc>> /\ s2c' \in {s2c, <<>>} /\ cpc' # "body"
      /\ got' \in {0, got} /\ failed' \in {failed, TRUE}
  BY DEF StreamThrows, SendFails, RecvFails, RecvCut, Vanish, Return, SocketError, AfterCall,
         proxyVars
<1>2. got' \in Nat /\ got' <= sreq.id
  BY <1>1, Numbers DEF InOrder
<1>3. Rising(s2c', "reply", 0, Answered)
  <2>1. Rising(<<>>, "reply", 0, Answered)
    BY DEF Rising
  <2> QED BY <1>1, <2>1 DEF InOrder
<1> QED BY <1>1, <1>2, <1>3, ClientReadsInOrder

LEMMA RecvInOrder ==
  ASSUME Form, InOrder, RecvHead \/ RecvReply \/ RecvLob \/ RecvBad
  PROVE  InOrder'
<1>1. /\ UNCHANGED <<c2s, req, sreq, spc>> /\ cpc' # "body" /\ s2c # <<>>
      /\ failed' \in {failed, TRUE}
  BY DEF RecvHead, RecvReply, RecvLob, RecvBad, Return, SocketError, AfterCall, proxyVars
<1>2. /\ s2c \in Seq(Units) /\ 1 \in 1..Len(s2c) /\ Rising(s2c, "reply", 0, Answered)
      /\ Answered \in Int /\ 0 \in Int /\ "reply" \in {"request", "reply"}
  BY <1>1, Numbers DEF InOrder
<1>3. CASE RecvHead \/ RecvReply \/ RecvBad
  <2>1. s2c' \in {s2c, Tail(s2c)}
    BY <1>3 DEF RecvHead, RecvReply, RecvBad
  <2>2. Rising(Tail(s2c), "reply", 0, Answered)
    BY <1>1, <1>2, RisingTail
  <2>3. got' \in Nat /\ got' <= sreq.id
    <3>1. CASE RecvReply
      <4>1. s2c[1].unit = "reply" /\ got' = s2c[1].of.id
        BY <1>1, <3>1 DEF RecvReply, Return, Form, Halves
      <4>2. got' \in Nat /\ got' <= Answered
        BY <1>2, <4>1, IdOfPiece DEF Rising
      <4> QED BY <4>2, Numbers
    <3>2. CASE RecvHead \/ RecvBad
      <4>1. got' \in {0, got}
        BY <3>2 DEF RecvHead, RecvBad, SocketError
      <4>2. got \in Nat /\ sreq.id \in Nat /\ got <= sreq.id
        BY Numbers DEF InOrder
      <4> QED BY <4>1, <4>2
    <3> QED BY <1>3, <3>1, <3>2
  <2> QED BY <1>1, <1>2, <2>1, <2>2, <2>3, ClientReadsInOrder
<1>4. CASE RecvLob
  <2>1. s2c' = SubSeq(s2c, 2 + s2c[1].len, Len(s2c)) /\ got' = got /\ IsHead(s2c[1])
    BY <1>4 DEF RecvLob
  <2>2. 2 + s2c[1].len \in {2, 3}
    <3>1. s2c[1] \in Units
      BY <1>2, ElementOfSeq
    <3>2. s2c[1].len \in 0..1
      BY <2>1, <3>1, UnitFacts
    <3> QED BY <3>2
  <2>3. Rising(s2c', "reply", 0, Answered)
    BY <1>1, <1>2, <2>1, <2>2, RisingSuffix
  <2>4. got' \in Nat /\ got' <= sreq.id
    BY <2>1, Numbers DEF InOrder
  <2> QED BY <1>1, <2>3, <2>4, ClientReadsInOrder
<1> QED BY <1>3, <1>4

(* The client writes.                                                      *)
LEMMA CallInOrder ==
  ASSUME Inv, InOrder, NEW r \in Requests, Call(r)
  PROVE  InOrder'
<1>1. Form
  BY DEF Inv
<1>2. /\ cpc = "idle" /\ r.id = req.id + 1 /\ req' = r /\ cpc' = "body"
      /\ c2s' = c2s \o <<RequestHead>> /\ UNCHANGED <<s2c, got, failed, sreq, spc>>
  <2>1. c2s' = Append(c2s, RequestHead)
    BY DEF Call, RequestPackage, RequestHead
  <2>2. Append(c2s, RequestHead) = c2s \o <<RequestHead>>
    BY <1>1, Heads, AppendIsConcat DEF Form, TypeOK
  <2> QED BY <2>1, <2>2 DEF Call, proxyVars
<1>3. Latest' = Latest /\ Answered' = Answered
  <2>1. r.id - 1 = req.id
    BY <1>1, <1>2, Numbers
  <2>2. Latest = req.id /\ Latest' = r.id - 1
    BY <1>2 DEF Latest
  <2>3. Answered' = Answered
    BY <1>2 DEF Answered, Busy
  <2> QED BY <2>1, <2>2, <2>3
<1>4. <<RequestHead>> \in Seq(Units)
  BY Heads
<1>5. Rising(c2s', "request", sreq.id + 1, Latest)
  <2>1. /\ c2s \in Seq(Units) /\ sreq.id + 1 \in Int /\ Latest \in Int
        /\ "request" \in {"request", "reply"}
    BY <1>1, Numbers
  <2>2. \A i \in 1..Len(<<RequestHead>>) : <<RequestHead>>[i].unit # "request"
    BY OtherPackages
  <2>3. Rising(c2s, "request", sreq.id + 1, Latest)
    BY DEF InOrder
  <2>4. Rising(c2s \o <<RequestHead>>, "request", sreq.id + 1, Latest)
    BY <1>4, <2>1, <2>2, <2>3, RisingKept
  <2> QED BY <1>2, <2>4
<1>6. ~failed => got = req.id \/ sreq = req
  BY <1>2 DEF Inv, Paired, Resting, Stuck, Coming, Entering, Served, Replied, Waiting, Ahead
<1>7. ~failed' => req'.id <= sreq'.id + 1
  <2>1. ~failed => req.id <= sreq.id
    BY <1>1, <1>6, Numbers DEF InOrder
  <2>2. req.id \in Nat /\ sreq.id \in Nat
    BY <1>1, Numbers
  <2>3. ~failed => req.id + 1 <= sreq.id + 1
    BY <2>1, <2>2
  <2> QED BY <1>2, <2>3
<1>8. Rising(c2s', "request", sreq'.id + 1, Latest') /\ Rising(s2c', "reply", 0, Answered')
      /\ sreq'.id <= Latest' /\ got' <= sreq'.id
  BY <1>2, <1>3, <1>5 DEF InOrder
<1> QED BY <1>7, <1>8 DEF InOrder

LEMMA SendBodyInOrder ==
  ASSUME Form, InOrder, SendBody
  PROVE  InOrder'
<1> DEFINE b == Piece("request", req)
<1>1. /\ cpc = "body" /\ cpc' # "body" /\ UNCHANGED <<s2c, req, got, failed, sreq, spc>>
      /\ c2s' = Append(c2s, b)
  BY DEF SendBody, RequestPackage, proxyVars
<1>2. req \in Requests
  BY <1>1 DEF Form, Bodies
<1>3. <<b>> \in Seq(Units) /\ b \in Units
  BY <1>2, ClientPackages, Pieces
<1>4. c2s' = c2s \o <<b>>
  BY <1>1, <1>3, Numbers, AppendIsConcat
<1>5. Latest = req.id - 1 /\ Latest' = req.id /\ Answered' = Answered
  BY <1>1 DEF Latest, Answered, Busy
<1>6. Rising(<<b>>, "request", req.id, req.id)
  <2>1. req.id \in Int /\ req.id <= req.id /\ "request" \in {"request", "reply"}
    BY <1>2, Numbers
  <2> QED BY <1>2, <2>1, OnePiece
<1> HIDE DEF b
<1>7. Rising(c2s', "request", sreq.id + 1, req.id)
  <2>1. /\ Rising(c2s, "request", sreq.id + 1, Latest) /\ sreq.id + 1 <= req.id
        /\ Latest < req.id /\ req.id <= req.id
        /\ sreq.id + 1 \in Int /\ Latest \in Int /\ req.id \in Int /\ c2s \in Seq(Units)
        /\ "request" \in {"request", "reply"}
    BY <1>5, Numbers DEF InOrder
  <2>2. Rising(c2s \o <<b>>, "request", sreq.id + 1, req.id)
    <3> DEFINE t == <<b>>
    <3>1. t \in Seq(Units) /\ Rising(t, "request", req.id, req.id)
      BY <1>3, <1>6
    <3> HIDE DEF t
    <3>2. Rising(c2s \o t, "request", sreq.id + 1, req.id)
      BY <2>1, <3>1, RisingJoin
    <3> QED BY <3>2 DEF t
  <2> QED BY <1>4, <2>2
<1>8. sreq.id <= req.id
  BY <1>5, Numbers DEF InOrder
<1>9. Rising(c2s', "request", sreq'.id + 1, Latest') /\ Rising(s2c', "reply", 0, Answered')
      /\ sreq'.id <= Latest' /\ got' <= sreq'.id /\ (~failed' => req'.id <= sreq'.id + 1)
  BY <1>1, <1>5, <1>7, <1>8 DEF InOrder
<1> QED BY <1>9 DEF InOrder

LEMMA SendStreamInOrder ==
  ASSUME Form, InOrder, SendChunk \/ SendEnd
  PROVE  InOrder'
<1>1. /\ cpc = "upload" /\ cpc' # "body"
      /\ UNCHANGED <<s2c, req, got, failed, sreq, spc>>
  BY DEF SendChunk, SendEnd, proxyVars
<1>2. PICK t \in Seq(Units) : /\ c2s' = c2s \o t
                              /\ \A i \in 1..Len(t) : t[i].unit # "request"
  <2>1. CASE SendChunk
    <3>1. /\ req \in Requests /\ sent[1] \in 1..MaxStreams
          /\ sent[2] \in 0..MaxChunks /\ sent = <<sent[1], sent[2]>>
          /\ req.lens[sent[1]] \in 0..MaxChunks /\ sent[2] < req.lens[sent[1]]
          /\ sent' = [sent EXCEPT ![2] = @ + 1]
          /\ c2s' = c2s \o ChunkPackage(req, sent[1], sent'[2])
      BY <1>1, <2>1, StreamSent DEF SendChunk
    <3>2. sent'[2] \in 1..MaxChunks
      BY <3>1, BoundsAssumption
    <3> DEFINE p == ChunkPackage(req, sent[1], sent'[2])
    <3>3. p \in Seq(Units)
      BY <3>1, <3>2, ChunkPackages
    <3>4. \A i \in 1..Len(p) : p[i].unit # "request"
      BY OtherPackages
    <3> HIDE DEF p
    <3>5. c2s' = c2s \o p
      BY <3>1 DEF p
    <3> QED BY <3>3, <3>4, <3>5
  <2>2. CASE SendEnd
    <3>1. c2s' = c2s \o EndPackage
      BY <2>2 DEF SendEnd
    <3>2. req \in Requests
      BY <1>1 DEF Form, Bodies
    <3>3. EndPackage \in Seq(Units)
      BY <3>2, ClientPackages
    <3> QED BY <3>1, <3>3, OtherPackages
  <2> QED BY <2>1, <2>2
<1>3. Latest' = Latest /\ Answered' = Answered
  BY <1>1 DEF Latest, Answered, Busy
<1>4. Rising(c2s', "request", sreq.id + 1, Latest)
  BY <1>2, Numbers, RisingKept DEF InOrder
<1>5. Rising(c2s', "request", sreq'.id + 1, Latest') /\ Rising(s2c', "reply", 0, Answered')
      /\ sreq'.id <= Latest' /\ got' <= sreq'.id /\ (~failed' => req'.id <= sreq'.id + 1)
  BY <1>1, <1>3, <1>4 DEF InOrder
<1> QED BY <1>5 DEF InOrder

(* The proxy reads and writes, except for the body of a request.           *)
LEMMA ProxyInOrder ==
  ASSUME Form, InOrder, UNCHANGED <<cpc, req, got, failed, sreq>>,
         Rising(c2s', "request", sreq.id + 1, Latest), Rising(s2c', "reply", 0, Answered')
  PROVE  InOrder'
<1>1. Latest' = Latest
  BY DEF Latest
<1>2. Rising(c2s', "request", sreq'.id + 1, Latest') /\ Rising(s2c', "reply", 0, Answered')
      /\ sreq'.id <= Latest' /\ got' <= sreq'.id /\ (~failed' => req'.id <= sreq'.id + 1)
  BY <1>1 DEF InOrder
<1> QED BY <1>2 DEF InOrder

LEMMA ReadsInOrder ==
  ASSUME Form, InOrder,
         \/ ReadHead \/ ReadBad \/ ReadTimesOut \/ ReadEOF \/ WriteReplyFails \/ Dies
         \/ TaskRead \/ TaskEOF \/ TaskTimesOut \/ TaskGivesUp \/ TaskDone
         \/ TaskWriteLobFails
  PROVE  InOrder'
<1>1. /\ UNCHANGED <<cpc, req, got, failed, sreq, s2c>>
      /\ spc \in {"head", "body"} => spc' \in {"head", "body", "ended"}
      /\ Busy' => Busy
  BY DEF ReadHead, ReadBad, ReadTimesOut, ReadEOF, WriteReplyFails, Dies, GoOn, EndSession,
         TaskRead, TaskEOF, TaskTimesOut, TaskGivesUp, TaskDone, TaskWriteLobFails,
         WantsStream, clientVars, Busy
<1>2. Answered' \in Int /\ Answered <= Answered'
  BY <1>1, Numbers DEF Answered
<1>3. Rising(s2c', "reply", 0, Answered')
  BY <1>1, <1>2, Numbers, RisingWithin DEF InOrder
<1>4. Rising(c2s', "request", sreq.id + 1, Latest)
  <2>0. /\ c2s \in Seq(Units) /\ sreq.id + 1 \in Int /\ Latest \in Int
        /\ "request" \in {"request", "reply"}
    BY Numbers
  <2>1. Rising(c2s, "request", sreq.id + 1, Latest)
    BY DEF InOrder
  <2>2. CASE ReadHead \/ ReadBad
    <3>1. c2s # <<>> /\ c2s' = Tail(c2s)
      BY <2>2 DEF ReadHead, ReadBad
    <3>2. Rising(Tail(c2s), "request", sreq.id + 1, Latest)
      BY <2>1, <2>0, <3>1, RisingTail
    <3> QED BY <3>1, <3>2
  <2>3. CASE TaskRead
    <3>1. c2s # <<>> /\ c2s[1].len \in 0..1 /\ c2s' = SubSeq(c2s, 2 + c2s[1].len, Len(c2s))
      <4>1. spc # "ended" /\ ~Starved /\ IsHead(c2s[1])
        BY <2>3 DEF TaskRead, WantsStream
      <4>2. c2s' = SubSeq(c2s, 2 + c2s[1].len, Len(c2s))
        BY <2>3 DEF TaskRead
      <4> QED BY <4>1, <4>2, WholePackage
    <3>2. 2 + c2s[1].len \in {2, 3}
      BY <3>1
    <3> QED BY <2>1, <2>0, <3>1, <3>2, RisingSuffix
  <2>4. CASE ~(ReadHead \/ ReadBad \/ TaskRead)
    <3>1. c2s' = c2s
      BY <2>4 DEF ReadTimesOut, ReadEOF, WriteReplyFails, Dies, TaskEOF,
                  TaskTimesOut, TaskGivesUp, TaskDone, TaskWriteLobFails
    <3> QED BY <2>1, <3>1
  <2> QED BY <2>2, <2>3, <2>4
<1> QED BY <1>1, <1>3, <1>4, ProxyInOrder

LEMMA WritesInOrder ==
  ASSUME Form, InOrder, WriteHead \/ WriteReply \/ TaskWriteFull \/ TaskWriteEnd
  PROVE  InOrder'
<1>1. UNCHANGED <<cpc, req, got, failed, sreq, c2s>>
  BY DEF WriteHead, WriteReply, TaskWriteFull, TaskWriteEnd, clientVars
<1>2. Rising(s2c', "reply", 0, Answered')
  <2>1. Rising(s2c, "reply", 0, Answered)
    BY DEF InOrder
  <2>2. CASE WriteReply
    <3>1. spc = "write" /\ spc' \in {"head", "ended"} /\ s2c' = Append(s2c, Piece("reply", sreq))
      BY <2>2 DEF WriteReply, GoOn, EndSession
    <3>2. sreq \in Requests
      BY <3>1 DEF Form, Bodies, Working
    <3>3. Answered = sreq.id - 1 /\ Answered' = sreq.id
      BY <1>1, <3>1 DEF Answered, Busy
    <3> DEFINE t == <<Piece("reply", sreq)>>
    <3>4. t \in Seq(Units) /\ s2c' = s2c \o t
      BY <3>1, <3>2, ReplyPieces, Numbers, AppendIsConcat
    <3>5. 0 <= sreq.id /\ Answered < sreq.id /\ sreq.id \in Int /\ sreq.id <= sreq.id
          /\ Answered <= sreq.id /\ 0 \in Int /\ Answered \in Int /\ s2c \in Seq(Units)
          /\ "reply" \in {"request", "reply"}
      <4>1. sreq.id \in Nat /\ s2c \in Seq(Units)
        BY Numbers
      <4> QED BY <3>3, <4>1
    <3>6. Rising(t, "reply", sreq.id, sreq.id)
      BY <3>2, <3>5, OnePiece
    <3> HIDE DEF t
    <3>7. Rising(s2c \o t, "reply", 0, sreq.id)
      BY <2>1, <3>4, <3>5, <3>6, RisingJoin
    <3> QED BY <3>3, <3>4, <3>7
  <2>3. CASE WriteHead \/ TaskWriteFull \/ TaskWriteEnd
    <3>1. PICK t \in {FullPackage, LastPackage, NoPackage, <<ReplyHead>>} : s2c' = s2c \o t
      <4>1. Append(s2c, ReplyHead) = s2c \o <<ReplyHead>>
        BY ReplyPieces, Numbers, AppendIsConcat
      <4> QED BY <2>3, <4>1 DEF WriteHead, TaskWriteFull, TaskWriteEnd
    <3>2. t \in Seq(Units) /\ \A i \in 1..Len(t) : t[i].unit # "reply"
      BY LobPackages, ReplyPieces, OtherPackages
    <3>3. Answered' = Answered
      BY <1>1, <2>3 DEF WriteHead, TaskWriteFull, TaskWriteEnd, Answered, Busy
    <3> QED BY <2>1, <3>1, <3>2, <3>3, Numbers, RisingKept
  <2> QED BY <2>2, <2>3
<1>3. Rising(c2s', "request", sreq.id + 1, Latest)
  BY <1>1 DEF InOrder
<1> QED BY <1>1, <1>2, <1>3, ProxyInOrder

(* The request read is a later one, and the next one until a call fails.   *)
LEMMA RequestIsNext ==
  ASSUME Form, InOrder, spc = "body", c2s # <<>>
  PROVE  /\ c2s[1].of \in Requests /\ c2s[1].of.id \in 1..Latest
         /\ sreq.id < c2s[1].of.id
         /\ ~failed => c2s[1].of.id = sreq.id + 1
         /\ Rising(Tail(c2s), "request", c2s[1].of.id + 1, Latest)
<1>1. c2s[1].unit = "request" /\ 1 \in 1..Len(c2s) /\ c2s \in Seq(Units)
  BY Numbers DEF Form, Bodies
<1>2. c2s[1].of.id \in Nat /\ c2s[1].of \in Requests
  BY <1>1, IdOfPiece
<1>3. sreq.id + 1 <= c2s[1].of.id /\ c2s[1].of.id <= Latest
  BY <1>1 DEF InOrder, Rising
<1>4. Rising(Tail(c2s), "request", c2s[1].of.id + 1, Latest)
  BY <1>1, Numbers, RisingTail DEF InOrder
<1> QED BY <1>2, <1>3, <1>4, Numbers DEF InOrder

LEMMA ReadBodyInOrder ==
  ASSUME Form, InOrder, ReadBody \/ ReadBodyRefused
  PROVE  InOrder'
<1> DEFINE r == c2s[1].of
<1>1. /\ spc = "body" /\ c2s # <<>> /\ c2s' = Tail(c2s) /\ sreq' = r
      /\ UNCHANGED <<cpc, req, got, failed>>
  BY DEF ReadBody, ReadBodyRefused, clientVars
<1>2. /\ r \in Requests /\ r.id \in 1..Latest /\ sreq.id < r.id
      /\ Rising(Tail(c2s), "request", r.id + 1, Latest)
  BY <1>1, RequestIsNext
<1> HIDE DEF r
<1>3. Latest' = Latest
  BY <1>1 DEF Latest
<1>4. Answered = sreq.id /\ Rising(s2c, "reply", 0, sreq.id)
  BY <1>1 DEF InOrder, Answered, Busy
<1>5. Rising(s2c', "reply", 0, Answered')
  <2>1. s2c' = s2c /\ Answered' = r.id - 1
    BY <1>1 DEF ReadBody, ReadBodyRefused, Answered, Busy
  <2>2. sreq.id <= r.id - 1 /\ r.id - 1 \in Int
    BY <1>2, Numbers
  <2> QED BY <1>4, <2>1, <2>2, Numbers, RisingWithin
<1>6. Rising(c2s', "request", sreq'.id + 1, Latest') /\ sreq'.id <= Latest' /\ got' <= sreq'.id
      /\ (~failed' => req'.id <= sreq'.id + 1)
  BY <1>1, <1>2, <1>3, Numbers DEF InOrder
<1> QED BY <1>5, <1>6 DEF InOrder

LEMMA OrderStep == Inv /\ InOrder /\ [Next]_vars => InOrder'
<1> SUFFICES ASSUME Inv, InOrder, [Next]_vars PROVE InOrder'
  OBVIOUS
<1>1. Form
  BY DEF Inv
<1>2. CASE Client
  BY <1>1, <1>2, CallInOrder, SendBodyInOrder, SendStreamInOrder, CallsEndInOrder,
     RecvInOrder DEF Client
<1>3. CASE Fiber
  BY <1>1, <1>3, ReadsInOrder, ReadBodyInOrder, WritesInOrder DEF Fiber
<1>4. CASE Task
  BY <1>1, <1>4, ReadsInOrder, WritesInOrder DEF Task
<1>5. CASE UNCHANGED vars
  BY <1>5 DEF vars, clientVars, proxyVars, InOrder, Rising, Latest, Answered, Busy
<1> QED BY <1>2, <1>3, <1>4, <1>5 DEF Next

LEMMA SpecInOrder == Spec => [](Inv /\ InOrder)
<1>1. Init => Inv /\ InOrder
  BY InvInit, OrderInit
<1>2. Inv /\ InOrder /\ [Next]_vars => (Inv /\ InOrder)'
  BY InvStep, OrderStep
<1> QED BY <1>1, <1>2, PTL DEF Spec

-----------------------------------------------------------------------------
(* The refinement                                                          *)

RepliesOn(s) == {s[i].of.id : i \in {j \in 1..Len(s) : s[j].unit = "reply"}}

LEMMA RepliesHere == Replies = RepliesOn(s2c) /\ Replies' = RepliesOn(s2c')
BY DEF Replies, RepliesOn

LEMMA RepliesSuffix ==
  ASSUME NEW s \in Seq(Units), s # <<>>, NEW m \in {2, 3}
  PROVE  RepliesOn(SubSeq(s, m, Len(s))) \subseteq RepliesOn(s)
<1> DEFINE t == SubSeq(s, m, Len(s))
<1>1. CASE m > Len(s) + 1
  <2>1. t = <<>>
    BY <1>1, SubSeqEmpty
  <2> QED BY <2>1 DEF RepliesOn
<1>2. CASE m <= Len(s) + 1
  <2>1. /\ t \in Seq(Units) /\ Len(t) = Len(s) - m + 1
        /\ \A i \in 1..Len(t) : t[i] = s[i + m - 1]
    BY <1>2, Dropped
  <2> HIDE DEF t
  <2>2. \A i \in 1..Len(t) : i + m - 1 \in 1..Len(s) /\ t[i] = s[i + m - 1]
    BY <2>1
  <2>3. ASSUME NEW n \in RepliesOn(t)
        PROVE  n \in RepliesOn(s)
    <3>1. PICK i \in 1..Len(t) : t[i].unit = "reply" /\ n = t[i].of.id
      BY DEF RepliesOn
    <3> QED BY <2>2, <3>1 DEF RepliesOn
  <2> QED BY <2>3 DEF t
<1>3. Len(s) \in Nat
  OBVIOUS
<1> QED BY <1>1, <1>2, <1>3

LEMMA RepliesJoin ==
  ASSUME NEW s \in Seq(Units), NEW t \in Seq(Units)
  PROVE  RepliesOn(s \o t) = RepliesOn(s) \cup RepliesOn(t)
<1> DEFINE u == s \o t
<1>1. /\ u \in Seq(Units) /\ Len(u) = Len(s) + Len(t)
      /\ \A i \in 1..Len(s) : u[i] = s[i]
      /\ \A i \in 1..Len(t) : u[Len(s) + i] = t[i]
      /\ \A i \in 1..Len(u) : i > Len(s) => u[i] = t[i - Len(s)]
  BY Joined
<1>2. Len(s) \in Nat /\ Len(t) \in Nat
  OBVIOUS
<1> HIDE DEF u
<1>3. ASSUME NEW n \in RepliesOn(u)
      PROVE  n \in RepliesOn(s) \cup RepliesOn(t)
  <2>1. PICK i \in 1..Len(u) : u[i].unit = "reply" /\ n = u[i].of.id
    BY <1>3 DEF RepliesOn
  <2>2. CASE i <= Len(s)
    <3>1. i \in 1..Len(s) /\ u[i] = s[i]
      BY <1>1, <1>2, <2>2
    <3> QED BY <2>1, <3>1 DEF RepliesOn
  <2>3. CASE i > Len(s)
    <3>1. i - Len(s) \in 1..Len(t) /\ u[i] = t[i - Len(s)]
      BY <1>1, <1>2, <2>3
    <3> QED BY <2>1, <3>1 DEF RepliesOn
  <2> QED BY <1>2, <2>2, <2>3
<1>4. ASSUME NEW n \in RepliesOn(s)
      PROVE  n \in RepliesOn(u)
  <2>1. PICK i \in 1..Len(s) : s[i].unit = "reply" /\ n = s[i].of.id
    BY <1>4 DEF RepliesOn
  <2>2. i \in 1..Len(u) /\ u[i] = s[i]
    BY <1>1, <1>2
  <2> QED BY <2>1, <2>2 DEF RepliesOn
<1>5. ASSUME NEW n \in RepliesOn(t)
      PROVE  n \in RepliesOn(u)
  <2>1. PICK i \in 1..Len(t) : t[i].unit = "reply" /\ n = t[i].of.id
    BY <1>5 DEF RepliesOn
  <2>2. Len(s) + i \in 1..Len(u) /\ u[Len(s) + i] = t[i]
    BY <1>1, <1>2
  <2> QED BY <2>1, <2>2 DEF RepliesOn
<1> QED BY <1>3, <1>4, <1>5 DEF u

(* A reply read is on its way no more.                                     *)
LEMMA ReplyTaken ==
  ASSUME NEW s \in Seq(Units), s # <<>>, s[1].unit = "reply", NEW high \in Int,
         Rising(s, "reply", 0, high)
  PROVE  /\ s[1].of.id \in RepliesOn(s)
         /\ \A n \in RepliesOn(s) : s[1].of.id <= n
         /\ RepliesOn(Tail(s)) = RepliesOn(s) \ {s[1].of.id}
<1> DEFINE t == Tail(s)
<1>1. 1 \in 1..Len(s) /\ Len(s) \in Nat /\ 0 \in Int /\ "reply" \in {"request", "reply"}
      /\ 2 \in {2, 3}
  OBVIOUS
<1>2. s[1].of.id \in RepliesOn(s) /\ s[1].of.id \in Nat
  BY <1>1, IdOfPiece DEF RepliesOn
<1>3. t \in Seq(Units) /\ Len(t) = Len(s) - 1 /\ \A i \in 1..Len(t) : t[i] = s[i + 1]
  OBVIOUS
<1>4. RepliesOn(t) \subseteq RepliesOn(s)
  BY <1>1, TailIsSubSeq, RepliesSuffix
<1>5. Rising(t, "reply", s[1].of.id + 1, high)
  BY <1>1, RisingTail
<1> HIDE DEF t
<1>6. ASSUME s[1].of.id \in RepliesOn(t)
      PROVE  FALSE
  <2>1. PICK i \in 1..Len(t) : t[i].unit = "reply" /\ s[1].of.id = t[i].of.id
    BY <1>6 DEF RepliesOn
  <2>2. s[1].of.id + 1 <= t[i].of.id
    BY <1>5, <2>1 DEF Rising
  <2> QED BY <1>2, <2>1, <2>2
<1>7. ASSUME NEW n \in RepliesOn(s), n # s[1].of.id
      PROVE  n \in RepliesOn(t)
  <2>1. PICK i \in 1..Len(s) : s[i].unit = "reply" /\ n = s[i].of.id
    BY <1>7 DEF RepliesOn
  <2>2. i # 1
    BY <1>7, <2>1
  <2>3. i - 1 \in 1..Len(t) /\ (i - 1) + 1 = i
    BY <1>1, <1>3, <2>2
  <2>4. t[i - 1] = s[i]
    BY <1>3, <2>3
  <2> QED BY <2>1, <2>3, <2>4 DEF RepliesOn
<1>8. ASSUME NEW n \in RepliesOn(s)
      PROVE  s[1].of.id <= n
  <2>1. CASE n = s[1].of.id
    BY <1>2, <2>1
  <2>2. CASE n # s[1].of.id
    <3>1. n \in RepliesOn(t)
      BY <1>7, <2>2
    <3>2. PICK i \in 1..Len(t) : t[i].unit = "reply" /\ n = t[i].of.id
      BY <3>1 DEF RepliesOn
    <3>3. s[1].of.id + 1 <= n
      BY <1>5, <3>2 DEF Rising
    <3>4. n \in Nat
      BY <1>3, <3>2, IdOfPiece
    <3> QED BY <1>2, <3>3, <3>4
  <2> QED BY <2>1, <2>2
<1> QED BY <1>2, <1>4, <1>6, <1>7, <1>8 DEF t

LEMMA ReplyOn ==
  ASSUME NEW r \in Requests
  PROVE  RepliesOn(<<Piece("reply", r)>>) = {r.id}
<1>1. 1..Len(<<Piece("reply", r)>>) = {1}
  OBVIOUS
<1> QED BY <1>1 DEF RepliesOn, Piece

LEMMA InitRefines == Init => Calls!Init
<1> SUFFICES ASSUME Init PROVE Calls!Init
  OBVIOUS
<1>1. Replies = {}
  BY DEF Init, Replies
<1>2. spc # "ended"
  BY DEF Init
<1> QED BY <1>1, <1>2 DEF Init, Calls!Init, Caller, Busy, NoRequest

LEMMA CallerOf ==
  ASSUME Form
  PROVE  /\ Caller = "idle" <=> cpc = "idle"
         /\ Caller = "gone" <=> cpc = "gone"
         /\ Caller = "waits" <=> cpc \notin {"idle", "gone"}
BY DEF Caller

(* The steps of a call are one step of its caller, and so is its end.      *)
LEMMA CallRefines ==
  ASSUME Form, NEW r \in Requests, Call(r)
  PROVE  Calls!Call
<1>1. Caller = "idle" /\ Caller' = "waits"
  BY DEF Call, Caller
<1>2. req'.id = req.id + 1
  BY DEF Call
<1>3. UNCHANGED <<sreq, spc, s2c, got, failed>>
  BY DEF Call, proxyVars
<1> QED BY <1>1, <1>2, <1>3 DEF Calls!Call, Replies, Busy

LEMMA ErrorRefines ==
  ASSUME Form, StreamThrows \/ SendFails \/ RecvFails \/ RecvBad
  PROVE  Calls!Break
<1>1. /\ cpc \notin {"idle", "gone"} /\ cpc' \in {"idle", "gone"} /\ got' = 0 /\ failed' = TRUE
      /\ UNCHANGED <<req, sreq, spc>> /\ s2c' \in {s2c, Tail(s2c), <<>>}
  BY DEF StreamThrows, SendFails, RecvFails, RecvBad, SocketError, AfterCall, proxyVars
<1>2. Caller = "waits" /\ Caller' \in {"idle", "gone"}
  BY <1>1 DEF Caller
<1>3. Replies' \subseteq Replies
  <2>1. CASE s2c' = s2c
    BY <2>1, RepliesHere
  <2>2. CASE s2c' = <<>>
    BY <2>2 DEF Replies
  <2>3. CASE s2c # <<>> /\ s2c' = Tail(s2c)
    <3>1. s2c \in Seq(Units) /\ 2 \in {2, 3}
      BY Numbers
    <3>2. Tail(s2c) = SubSeq(s2c, 2, Len(s2c))
      BY <2>3, <3>1, TailIsSubSeq
    <3> QED BY <2>3, <3>1, <3>2, RepliesSuffix, RepliesHere
  <2>4. Tail(<<>>) = <<>>
    OBVIOUS
  <2> QED BY <1>1, <2>1, <2>2, <2>3, <2>4
<1>4. req'.id = req.id /\ sreq'.id = sreq.id /\ Busy' = Busy
  BY <1>1 DEF Busy
<1> QED BY <1>1, <1>2, <1>3, <1>4 DEF Calls!Break, Calls!Stop

LEMMA ReplyRefines ==
  ASSUME Inv, InOrder, RecvReply
  PROVE  \E c \in Replies : Calls!Return(c)
<1>1. Form
  BY DEF Inv
<1>2. cpc = "answer" /\ s2c # <<>> /\ s2c' = Tail(s2c) /\ got' = s2c[1].of.id
      /\ cpc' \in {"idle", "gone"} /\ UNCHANGED <<req, failed, sreq, spc>>
  BY DEF RecvReply, Return, AfterCall, proxyVars
<1>3. s2c \in Seq(Units) /\ s2c[1].unit = "reply" /\ Answered \in Int
      /\ Rising(s2c, "reply", 0, Answered)
  BY <1>1, <1>2, Numbers DEF Form, Halves, InOrder
<1>4. /\ s2c[1].of.id \in Replies /\ Replies' = Replies \ {s2c[1].of.id}
      /\ \A d \in Replies : s2c[1].of.id <= d
  BY <1>2, <1>3, ReplyTaken, RepliesHere
<1>5. ~failed => s2c[1].of.id = req.id
  <2> SUFFICES ASSUME ~failed PROVE s2c[1].of.id = req.id
    OBVIOUS
  <2>1. s2c = <<Piece("reply", req)>>
    BY <1>1, <1>2, ReplyRead DEF Inv
  <2>2. req \in Requests
    BY <1>1, <1>2 DEF Form, Bodies
  <2> QED BY <2>1, <2>2, PartsFacts
<1>6. Caller = "waits" /\ Caller' \in {"idle", "gone"}
  BY <1>2 DEF Caller
<1>7. req'.id = req.id /\ sreq'.id = sreq.id /\ Busy' = Busy
  BY <1>2 DEF Busy
<1> QED BY <1>2, <1>4, <1>5, <1>6, <1>7 DEF Calls!Return, Calls!Stop

(* A reply that is cut was begun: its head is read.                        *)
LEMMA CutRefines ==
  ASSUME Inv, RecvCut
  PROVE  Calls!ReturnNothing
<1>1. cpc = "answer" /\ spc = "ended" /\ s2c' = <<>> /\ got' = 0
      /\ cpc' \in {"idle", "gone"} /\ UNCHANGED <<req, failed, sreq, spc>>
  BY DEF RecvCut, Reset, Return, AfterCall, proxyVars
<1>2. ~failed => sreq.id = req.id
  BY <1>1, Reading DEF Inv, Ahead, Produced
<1>3. Replies' = {}
  BY <1>1 DEF Replies
<1>4. Caller = "waits" /\ Caller' \in {"idle", "gone"}
  BY <1>1 DEF Caller
<1>5. req'.id = req.id /\ sreq'.id = sreq.id /\ Busy' = Busy
  BY <1>1 DEF Busy
<1> QED BY <1>1, <1>2, <1>3, <1>4, <1>5 DEF Calls!ReturnNothing, Calls!Stop

LEMMA LobRefines ==
  ASSUME Form, RecvHead \/ RecvLob
  PROVE  Calls!Lose
<1>1. /\ cpc \in {"reply", "more", "last"} /\ s2c # <<>> /\ cpc' \in {"more", "last", "answer"}
      /\ UNCHANGED <<req, got, failed, sreq, spc>>
  BY DEF RecvHead, RecvLob, proxyVars
<1>2. s2c \in Seq(Units) /\ 1 \in 1..Len(s2c)
  BY <1>1, Numbers
<1>3. PICK m \in {2, 3} : s2c' = SubSeq(s2c, m, Len(s2c))
  <2>1. CASE RecvHead
    BY <1>1, <1>2, <2>1, TailIsSubSeq DEF RecvHead
  <2>2. CASE RecvLob
    <3>1. IsHead(s2c[1]) /\ s2c' = SubSeq(s2c, 2 + s2c[1].len, Len(s2c))
      BY <2>2 DEF RecvLob
    <3>2. s2c[1] \in Units
      BY <1>2, ElementOfSeq
    <3>3. s2c[1].len \in 0..1
      BY <3>1, <3>2, UnitFacts
    <3>4. 2 + s2c[1].len \in {2, 3}
      BY <3>3
    <3> QED BY <3>1, <3>4
  <2> QED BY <2>1, <2>2
<1>4. Replies' \subseteq Replies
  BY <1>1, <1>2, <1>3, RepliesSuffix, RepliesHere
<1>5. Caller = "waits" /\ Caller' = "waits" /\ Busy' = Busy
  BY <1>1 DEF Caller, Busy
<1> QED BY <1>1, <1>4, <1>5 DEF Calls!Lose

LEMMA VanishRefines ==
  ASSUME Vanish
  PROVE  Calls!Leave
<1>1. cpc' = "gone" /\ UNCHANGED <<req, got, failed, sreq, spc, s2c>>
  BY DEF Vanish, proxyVars
<1> QED BY <1>1 DEF Calls!Leave, Caller, Busy, Replies

(* A request is begun when its body is read.                               *)
LEMMA ReadBodyRefines ==
  ASSUME Inv, InOrder, ReadBody \/ ReadBodyRefused
  PROVE  \E c \in 1..req.id : Calls!Begin(c)
<1> DEFINE r == c2s[1].of
<1>0. Form
  BY DEF Inv
<1>1. /\ spc = "body" /\ spc' \in {"task", "reply"} /\ c2s # <<>> /\ sreq' = r
      /\ UNCHANGED <<cpc, req, got, failed, s2c>>
  BY DEF ReadBody, ReadBodyRefused, clientVars
<1>2. /\ r \in Requests /\ r.id \in 1..Latest /\ sreq.id < r.id
      /\ ~failed => r.id = sreq.id + 1
  BY <1>0, <1>1, RequestIsNext
<1>3. r.id \in 1..req.id
  BY <1>0, <1>2, Numbers
<1> HIDE DEF r
<1>4. /\ Busy = FALSE /\ Busy' = TRUE /\ Caller' = Caller /\ Replies' = Replies
      /\ sreq'.id = r.id /\ req'.id = req.id /\ spc # "ended" /\ spc' # "ended"
  BY <1>1 DEF Busy, Caller, Replies
<1>5. ~failed => Caller # "idle"
  <2>1. ~failed => cpc # "idle"
    BY <1>1 DEF Inv, Paired, Resting, Stuck, Coming, Entering, Served, Replied, Waiting, Ahead
  <2> QED BY <2>1 DEF Caller
<1>6. Calls!Begin(r.id)
  BY <1>1, <1>2, <1>4, <1>5 DEF Calls!Begin
<1> QED BY <1>3, <1>6

LEMMA WriteReplyRefines ==
  ASSUME Form, WriteReply \/ WriteReplyFails
  PROVE  Calls!End
<1>1. spc \in {"reply", "write"} /\ spc' \in {"head", "ended"}
      /\ UNCHANGED <<cpc, req, got, failed, sreq>>
  BY DEF WriteReply, WriteReplyFails, GoOn, EndSession, clientVars
<1>2. Busy /\ ~Busy' /\ Busy' = FALSE /\ Caller' = Caller
  BY <1>1 DEF Busy, Caller
<1>3. Replies' \in {Replies, Replies \cup {sreq.id}}
  <2>1. CASE WriteReply
    <3> DEFINE t == <<Piece("reply", sreq)>>
    <3>1. s2c' = Append(s2c, Piece("reply", sreq)) /\ sreq \in Requests
      BY <1>1, <2>1 DEF WriteReply, Form, Bodies, Working
    <3>2. s2c' = s2c \o t /\ t \in Seq(Units) /\ s2c \in Seq(Units)
      BY <3>1, ReplyPieces, Numbers, AppendIsConcat
    <3>3. RepliesOn(t) = {sreq.id}
      BY <3>1, ReplyOn
    <3> HIDE DEF t
    <3> QED BY <3>2, <3>3, RepliesJoin, RepliesHere
  <2>2. CASE WriteReplyFails
    BY <2>2 DEF WriteReplyFails, Replies
  <2> QED BY <2>1, <2>2
<1>4. spc # "ended" /\ (spc' = "ended" \/ spc' # "ended")
  BY <1>1
<1> QED BY <1>1, <1>2, <1>3, <1>4 DEF Calls!End

LEMMA FinishRefines ==
  ASSUME ReadBad \/ ReadEOF \/ Dies \/ (ReadTimesOut /\ spc' = "ended")
  PROVE  Calls!Finish
<1>1. /\ UNCHANGED <<req, got, failed, sreq, s2c, cpc>> /\ spc' = "ended"
  BY DEF ReadBad, ReadEOF, Dies, ReadTimesOut, EndSession, clientVars
<1>2. Busy' = FALSE /\ Caller' = Caller /\ Replies' = Replies
  BY <1>1 DEF Busy, Caller, Replies
<1> QED BY <1>1, <1>2 DEF Calls!Finish

(* Everything else is hidden.                                              *)
LEMMA ReadsStutter ==
  ASSUME \/ SendBody \/ SendChunk \/ SendEnd
         \/ ReadHead \/ (ReadTimesOut /\ spc' # "ended")
         \/ TaskRead \/ TaskEOF \/ TaskTimesOut \/ TaskGivesUp \/ TaskDone
         \/ TaskWriteLobFails
  PROVE  UNCHANGED Calls!vars
<1>1. /\ UNCHANGED <<req, got, failed, sreq, s2c>>
      /\ cpc' = cpc \/ (cpc \notin {"idle", "gone"} /\ cpc' \notin {"idle", "gone"})
  BY DEF SendBody, SendChunk, SendEnd, ReadHead, ReadTimesOut,
         TaskRead, TaskEOF, TaskTimesOut, TaskGivesUp, TaskDone, TaskWriteLobFails,
         clientVars, proxyVars
<1>2. Busy' = Busy /\ (spc' = "ended") = (spc = "ended")
  BY DEF SendBody, SendChunk, SendEnd, ReadHead, ReadTimesOut, GoOn, EndSession,
         TaskRead, TaskEOF, TaskTimesOut, TaskGivesUp, TaskDone, TaskWriteLobFails,
         WantsStream, proxyVars, Busy
<1>3. Caller' = Caller /\ Replies' = Replies
  BY <1>1 DEF Caller, Replies
<1> QED BY <1>1, <1>2, <1>3 DEF Calls!vars

LEMMA WritesStutter ==
  ASSUME Form, WriteHead \/ TaskWriteFull \/ TaskWriteEnd
  PROVE  UNCHANGED Calls!vars
<1>1. /\ spc \in {"task", "reply"} /\ spc' \in {"task", "reply", "write"}
      /\ UNCHANGED <<cpc, req, got, failed, sreq>>
  BY DEF WriteHead, TaskWriteFull, TaskWriteEnd, clientVars
<1>2. PICK t \in {FullPackage, LastPackage, NoPackage, <<ReplyHead>>} : s2c' = s2c \o t
  <2>1. Append(s2c, ReplyHead) = s2c \o <<ReplyHead>>
    BY ReplyPieces, Numbers, AppendIsConcat
  <2> QED BY <2>1 DEF WriteHead, TaskWriteFull, TaskWriteEnd
<1>3. t \in Seq(Units) /\ \A i \in 1..Len(t) : t[i].unit # "reply"
  BY LobPackages, ReplyPieces, OtherPackages
<1>4. RepliesOn(t) = {}
  BY <1>3 DEF RepliesOn
<1>5. Replies' = Replies
  <2>1. RepliesOn(s2c \o t) = RepliesOn(s2c) \cup RepliesOn(t)
    BY <1>3, Numbers, RepliesJoin
  <2> QED BY <1>2, <1>4, <2>1, RepliesHere
<1>6. Busy' = Busy /\ Caller' = Caller /\ (spc' = "ended") = (spc = "ended")
  BY <1>1 DEF Busy, Caller
<1> QED BY <1>1, <1>5, <1>6 DEF Calls!vars

LEMMA StepRefines == Inv /\ InOrder /\ [Next]_vars => [Calls!Next]_(Calls!vars)
<1> SUFFICES ASSUME Inv, InOrder, [Next]_vars PROVE [Calls!Next]_(Calls!vars)
  OBVIOUS
<1>1. Form
  BY DEF Inv
<1>2. CASE Client
  <2>1. CASE \E r \in Requests : Call(r)
    BY <1>1, <2>1, CallRefines DEF Calls!Next
  <2>2. CASE SendBody \/ SendChunk \/ SendEnd
    BY <2>2, ReadsStutter
  <2>3. CASE StreamThrows \/ SendFails \/ RecvFails \/ RecvBad
    BY <1>1, <2>3, ErrorRefines DEF Calls!Next
  <2>4. CASE RecvReply
    BY <2>4, ReplyRefines DEF Calls!Next
  <2>5. CASE RecvHead \/ RecvLob
    BY <1>1, <2>5, LobRefines DEF Calls!Next
  <2>6. CASE Vanish
    BY <2>6, VanishRefines DEF Calls!Next
  <2>7. CASE RecvCut
    BY <2>7, CutRefines DEF Calls!Next
  <2> QED BY <1>2, <2>1, <2>2, <2>3, <2>4, <2>5, <2>6, <2>7 DEF Client
<1>3. CASE Fiber
  <2>1. CASE ReadBody \/ ReadBodyRefused
    BY <2>1, ReadBodyRefines DEF Calls!Next
  <2>2. CASE WriteReply \/ WriteReplyFails
    BY <1>1, <2>2, WriteReplyRefines DEF Calls!Next
  <2>3. CASE ReadHead \/ (ReadTimesOut /\ spc' # "ended")
    BY <2>3, ReadsStutter
  <2>4. CASE ReadBad \/ ReadEOF \/ Dies \/ (ReadTimesOut /\ spc' = "ended")
    BY <2>4, FinishRefines DEF Calls!Next
  <2>5. CASE WriteHead
    BY <1>1, <2>5, WritesStutter
  <2> QED BY <1>3, <2>1, <2>2, <2>3, <2>4, <2>5 DEF Fiber
<1>4. CASE Task
  <2>1. CASE TaskWriteFull \/ TaskWriteEnd
    BY <1>1, <2>1, WritesStutter
  <2>2. CASE \/ TaskRead \/ TaskEOF \/ TaskTimesOut \/ TaskGivesUp \/ TaskDone
             \/ TaskWriteLobFails
    BY <2>2, ReadsStutter
  <2> QED BY <1>4, <2>1, <2>2 DEF Task
<1>5. CASE UNCHANGED vars
  BY <1>5 DEF vars, clientVars, proxyVars, Calls!vars, Caller, Busy, Replies
<1> QED BY <1>2, <1>3, <1>4, <1>5 DEF Next

(* S2R and onConnection keep what SerialCalls promises the caller of       *)
(* S2R's operations, on any wires: broken streams, timeouts, misread       *)
(* packages and calls made after an error.                                 *)
THEOREM CallsAreSerial == Spec => ImplementsCalls
BY SpecInOrder, InitRefines, StepRefines, PTL DEF Spec, Calls!Spec, ImplementsCalls

-----------------------------------------------------------------------------
(* Nobody waits in vain                                                    *)

(* A package of a large object that goes on is longer than it announces,   *)
(* the one that ends it has no body.                                       *)
Overlong(s) == \A i \in 1..Len(s) : IsHead(s[i]) /\ s[i].type = 1 =>
  /\ s[i].next => i + s[i].len + 1 <= Len(s) /\ s[i + s[i].len + 1] = Gzip
  /\ ~s[i].next => s[i].len = 0

EndsWithReply(s) == Len(s) >= 2 /\ IsMain(s[Len(s) - 1])

(* When the proxy has read all and reads on, the reply is on its way; when *)
(* its head is, so is the proxy at its body.                               *)
Attended ==
  /\ Overlong(s2c)
  /\ cpc = "more" => s2c # <<>> /\ s2c[1] = Gzip
  /\ spc = "write" => HeadLast(s2c) \/ (s2c = <<>> /\ cpc \in {"answer", "gone"})
  /\ cpc \in {"reply", "more", "last"} /\ spc \in {"head", "body"} /\ c2s = <<>>
       => EndsWithReply(s2c)

WaitsForSomeone ==
  cpc \in {"reply", "more", "last", "answer"} /\ c2s = <<>> /\ s2c = <<>>
    => Busy \/ spc = "ended"

LEMMA LastKept ==
  ASSUME NEW s \in Seq(Units), HeadLast(s), NEW m \in {2, 3}, m <= Len(s)
  PROVE  HeadLast(SubSeq(s, m, Len(s)))
<1> DEFINE t == SubSeq(s, m, Len(s))
<1>1. /\ t \in Seq(Units) /\ Len(t) = Len(s) - m + 1
      /\ \A i \in 1..Len(t) : t[i] = s[i + m - 1]
  BY Dropped
<1>2. Len(s) \in Nat /\ Len(t) \in Nat
  BY <1>1
<1> HIDE DEF t
<1>3. Len(t) \in 1..Len(t) /\ Len(t) + m - 1 = Len(s)
  BY <1>1, <1>2
<1>4. t[Len(t)] = s[Len(s)] /\ t # <<>>
  BY <1>1, <1>3
<1> QED BY <1>4 DEF HeadLast, t

LEMMA LastKeptByTail ==
  ASSUME NEW s \in Seq(Units), s # <<>>, HeadLast(s)
  PROVE  /\ Tail(s) = <<>> \/ HeadLast(Tail(s))
         /\ ~IsMain(s[1]) => HeadLast(Tail(s))
<1>1. Tail(s) = SubSeq(s, 2, Len(s)) /\ Len(s) \in Nat /\ 2 \in {2, 3}
  BY TailIsSubSeq
<1>2. CASE 2 <= Len(s)
  BY <1>1, <1>2, LastKept
<1>3. CASE ~(2 <= Len(s))
  <2>1. Len(s) # 0
    OBVIOUS
  <2>2. \A n \in Nat : n # 0 /\ ~(2 <= n) => n = 1
    OBVIOUS
  <2>3. Len(s) = 1
    BY <1>1, <1>3, <2>1, <2>2, Zenon
  <2>4. Tail(s) = <<>>
    BY <1>1, <1>3, SubSeqEmpty
  <2>5. IsMain(s[1])
    BY <2>3 DEF HeadLast
  <2> QED BY <2>4, <2>5
<1> QED BY <1>2, <1>3

LEMMA OverlongSuffix ==
  ASSUME NEW s \in Seq(Units), s # <<>>, Overlong(s), NEW m \in {2, 3}
  PROVE  Overlong(SubSeq(s, m, Len(s)))
<1> DEFINE t == SubSeq(s, m, Len(s))
<1>1. CASE m > Len(s) + 1
  <2>1. t = <<>>
    BY <1>1, SubSeqEmpty
  <2> QED BY <2>1 DEF Overlong
<1>2. CASE m <= Len(s) + 1
  <2>1. /\ t \in Seq(Units) /\ Len(t) = Len(s) - m + 1
        /\ \A i \in 1..Len(t) : t[i] = s[i + m - 1]
    BY <1>2, Dropped
  <2>2. Len(s) \in Nat /\ Len(t) \in Nat
    BY <2>1
  <2> HIDE DEF t
  <2>3. ASSUME NEW i \in 1..Len(t), IsHead(t[i]), t[i].type = 1
        PROVE  /\ t[i].next => i + t[i].len + 1 <= Len(t) /\ t[i + t[i].len + 1] = Gzip
               /\ ~t[i].next => t[i].len = 0
    <3>1. i + m - 1 \in 1..Len(s) /\ t[i] = s[i + m - 1]
      BY <2>1, <2>2
    <3>2. t[i].len \in 0..1
      <4>1. t[i] \in Units
        BY <2>1, ElementOfSeq
      <4> QED BY <2>3, <4>1, UnitFacts
    <3>3. ASSUME t[i].next
          PROVE  i + t[i].len + 1 <= Len(t) /\ t[i + t[i].len + 1] = Gzip
      <4> DEFINE n == t[i].len
                 k == i + n + 1
      <4>1. /\ (i + m - 1) + n + 1 <= Len(s)
            /\ s[(i + m - 1) + n + 1] = Gzip
        BY <2>3, <3>1, <3>3 DEF Overlong
      <4>2. n \in 0..1
        BY <3>2
      <4> HIDE DEF n
      <4>3. k \in Nat /\ 1 <= k /\ k + m - 1 = (i + m - 1) + n + 1
        BY <2>2, <4>2
      <4>4. k <= Len(t)
        BY <2>1, <2>2, <4>1, <4>2
      <4>5. k \in 1..Len(t)
        BY <2>2, <4>3, <4>4
      <4> HIDE DEF k
      <4>6. t[k] = s[k + m - 1]
        BY <2>1, <4>5
      <4>7. t[k] = Gzip
        BY <4>1, <4>3, <4>6
      <4> QED BY <4>4, <4>7 DEF k, n
    <3> QED BY <2>3, <3>1, <3>3 DEF Overlong
  <2> QED BY <2>3 DEF Overlong, t
<1>3. Len(s) \in Nat
  OBVIOUS
<1> QED BY <1>1, <1>2, <1>3

LEMMA OverlongJoin ==
  ASSUME NEW s \in Seq(Units), NEW t \in Seq(Units), Overlong(s), Overlong(t)
  PROVE  Overlong(s \o t)
<1> DEFINE u == s \o t
<1>1. /\ u \in Seq(Units) /\ Len(u) = Len(s) + Len(t)
      /\ \A i \in 1..Len(s) : u[i] = s[i]
      /\ \A i \in 1..Len(u) : i > Len(s) => u[i] = t[i - Len(s)]
  BY Joined
<1>2. Len(s) \in Nat /\ Len(t) \in Nat
  OBVIOUS
<1> HIDE DEF u
<1>3. ASSUME NEW i \in 1..Len(u), IsHead(u[i]), u[i].type = 1
      PROVE  /\ u[i].next => i + u[i].len + 1 <= Len(u) /\ u[i + u[i].len + 1] = Gzip
             /\ ~u[i].next => u[i].len = 0
  <2>1. u[i].len \in 0..1
    <3>1. u[i] \in Units
      BY <1>1, ElementOfSeq
    <3> QED BY <1>3, <3>1, UnitFacts
  <2>2. CASE i <= Len(s)
    <3>1. i \in 1..Len(s) /\ u[i] = s[i]
      BY <1>1, <1>2, <2>2
    <3>2. ASSUME u[i].next
          PROVE  i + u[i].len + 1 <= Len(u) /\ u[i + u[i].len + 1] = Gzip
      <4>1. i + u[i].len + 1 <= Len(s) /\ s[i + u[i].len + 1] = Gzip
        BY <1>3, <3>1, <3>2 DEF Overlong
      <4>2. i + u[i].len + 1 \in 1..Len(s) /\ i + u[i].len + 1 <= Len(u)
        BY <1>1, <1>2, <2>1, <4>1
      <4> QED BY <1>1, <4>1, <4>2
    <3> QED BY <1>3, <3>1, <3>2 DEF Overlong
  <2>3. CASE i > Len(s)
    <3> DEFINE j == i - Len(s)
    <3>1. j \in 1..Len(t) /\ u[i] = t[j]
      BY <1>1, <1>2, <2>3
    <3>2. ASSUME u[i].next
          PROVE  i + u[i].len + 1 <= Len(u) /\ u[i + u[i].len + 1] = Gzip
      <4>1. j + u[i].len + 1 <= Len(t) /\ t[j + u[i].len + 1] = Gzip
        BY <1>3, <3>1, <3>2 DEF Overlong
      <4>2. /\ i + u[i].len + 1 \in 1..Len(u) /\ i + u[i].len + 1 > Len(s)
            /\ (i + u[i].len + 1) - Len(s) = j + u[i].len + 1
        BY <1>1, <1>2, <2>1, <2>3, <4>1
      <4> QED BY <1>1, <4>1, <4>2
    <3>3. ~u[i].next => u[i].len = 0
      BY <1>3, <3>1 DEF Overlong
    <3> QED BY <3>2, <3>3
  <2> QED BY <1>2, <2>2, <2>3
<1> QED BY <1>3 DEF Overlong, u

LEMMA OverlongPackages ==
  /\ Overlong(FullPackage) /\ Overlong(LastPackage) /\ Overlong(NoPackage)
  /\ Overlong(<<ReplyHead>>) /\ \A r \in Requests : Overlong(<<Piece("reply", r)>>)
<1>1. ASSUME NEW h, IsHead(h), h.type = 1, h.next, h.len \in 0..1
      PROVE  Overlong(<<h, Gzip, Gzip>>)
  <2>1. ~IsHead(Gzip)
    BY Gzips
  <2> DEFINE p == <<h, Gzip, Gzip>>
  <2>2. Len(p) = 3 /\ p[1] = h /\ p[2] = Gzip /\ p[3] = Gzip
    OBVIOUS
  <2> HIDE DEF p
  <2>3. \A i \in 1..3 : i = 1 \/ i = 2 \/ i = 3
    OBVIOUS
  <2>4. 1 + h.len + 1 \in {2, 3}
    BY <1>1
  <2>5. 1 + h.len + 1 <= 3 /\ p[1 + h.len + 1] = Gzip
    BY <2>2, <2>4
  <2>6. Overlong(p)
    BY <1>1, <2>1, <2>2, <2>3, <2>5 DEF Overlong
  <2> QED BY <2>6 DEF p
<1>2. Overlong(<<ProxyHead(1, FALSE, 0)>>)
  BY DEF Overlong, ProxyHead, PkgHead
<1>3. /\ IsHead(ProxyHead(1, TRUE, 1)) /\ ProxyHead(1, TRUE, 1).type = 1
      /\ ProxyHead(1, TRUE, 1).next = TRUE /\ ProxyHead(1, TRUE, 1).len \in 0..1
      /\ IsHead(ProxyHead(1, TRUE, 0)) /\ ProxyHead(1, TRUE, 0).type = 1
      /\ ProxyHead(1, TRUE, 0).next = TRUE /\ ProxyHead(1, TRUE, 0).len \in 0..1
  BY DEF ProxyHead, PkgHead, IsHead
<1>4. Overlong(FullPackage) /\ Overlong(LastPackage)
  BY <1>1, <1>3 DEF FullPackage, LastPackage
<1>5. Overlong(<<ReplyHead>>)
  BY DEF Overlong, ReplyHead, ProxyHead, PkgHead
<1>6. ASSUME NEW r \in Requests
      PROVE  Overlong(<<Piece("reply", r)>>)
  <2>1. ~IsHead(Piece("reply", r))
    BY Pieces
  <2> QED BY <2>1 DEF Overlong
<1> QED BY <1>2, <1>4, <1>5, <1>6 DEF NoPackage

(* Reading a package of a large object does not take the reply with it.    *)
LEMMA RecvLobAttended ==
  ASSUME Form, Attended, RecvLob
  PROVE  Attended'
<1>1. /\ cpc \in {"reply", "more"} /\ s2c # <<>> /\ IsHead(s2c[1])
      /\ cpc = "reply" => s2c[1].type = 1
      /\ s2c' = SubSeq(s2c, 2 + s2c[1].len, Len(s2c))
      /\ cpc' = (IF s2c[1].next THEN "more" ELSE "last") /\ UNCHANGED <<c2s, spc>>
  BY DEF RecvLob, proxyVars
<1>2. s2c \in Seq(Units) /\ Len(s2c) \in Nat /\ 1 \in 1..Len(s2c) /\ Answers(s2c) /\ Overlong(s2c)
  BY <1>1, Numbers DEF Attended, Form
<1>3. cpc = "reply" /\ s2c[1].type = 1
  BY <1>1, Gzips DEF Attended
<1> DEFINE n == s2c[1].len
<1>4. n \in 0..1 /\ 2 + n \in {2, 3} /\ s2c[1].next \in BOOLEAN
  <2>1. s2c[1] \in Units
    BY <1>2, ElementOfSeq
  <2>2. s2c[1].len \in 0..1 /\ s2c[1].next \in BOOLEAN
    BY <1>1, <2>1, UnitFacts
  <2> QED BY <2>2
<1>5. /\ s2c[1].next => 2 + n <= Len(s2c) /\ s2c[2 + n] = Gzip
      /\ ~s2c[1].next => n = 0
  <2>1. /\ s2c[1].next => 1 + n + 1 <= Len(s2c) /\ s2c[1 + n + 1] = Gzip
        /\ ~s2c[1].next => n = 0
    BY <1>1, <1>2, <1>3 DEF Overlong
  <2>2. 1 + n + 1 = 2 + n
    BY <1>4
  <2> QED BY <2>1, <2>2
<1> HIDE DEF n
<1>6. 2 + n <= Len(s2c) + 1 /\ s2c' = SubSeq(s2c, 2 + n, Len(s2c))
  BY <1>1, <1>2, <1>4, <1>5 DEF n
<1>7. /\ s2c' \in Seq(Units) /\ Len(s2c') = Len(s2c) - (2 + n) + 1
      /\ \A i \in 1..Len(s2c') : s2c'[i] = s2c[i + (2 + n) - 1]
  BY <1>2, <1>4, <1>6, Dropped
<1>8. Overlong(s2c')
  BY <1>1, <1>2, <1>4, <1>6, OverlongSuffix
<1>9. ASSUME cpc' = "more"
      PROVE  s2c' # <<>> /\ s2c'[1] = Gzip
  <2>1. s2c[1].next
    BY <1>1, <1>9
  <2>2. 1 \in 1..Len(s2c') /\ 1 + (2 + n) - 1 = 2 + n
    BY <1>2, <1>4, <1>5, <1>7, <2>1
  <2> QED BY <1>5, <1>7, <2>1, <2>2
<1>10. ASSUME EndsWithReply(s2c)
       PROVE  EndsWithReply(s2c')
  <2>1. Len(s2c) - 1 \in 1..Len(s2c) /\ IsMain(s2c[Len(s2c) - 1])
    BY <1>2, <1>10 DEF EndsWithReply
  <2>2. s2c[(Len(s2c) - 1) + 1].unit = "reply"
    BY <1>2, <2>1 DEF Answers
  <2>3. s2c[Len(s2c)].unit = "reply"
    BY <1>2, <2>2
  <2>4. Gzip.unit # "reply" /\ ~IsMain(Gzip) /\ ~IsMain(s2c[1])
    BY <1>3 DEF Gzip, Piece, IsMain, IsHead
  <2>5. Len(s2c) - 1 # 1
    BY <2>1, <2>4
  <2>6. s2c[1].next => 2 + n # Len(s2c) /\ 2 + n # Len(s2c) - 1
    BY <1>5, <2>1, <2>3, <2>4
  <2>7. Len(s2c') >= 2
    BY <1>2, <1>4, <1>5, <1>7, <2>1, <2>5, <2>6
  <2>8. Len(s2c') - 1 \in 1..Len(s2c')
        /\ (Len(s2c') - 1) + (2 + n) - 1 = Len(s2c) - 1
    BY <1>2, <1>4, <1>7, <2>7
  <2>9. s2c'[Len(s2c') - 1] = s2c[Len(s2c) - 1]
    BY <1>7, <2>8
  <2> QED BY <2>1, <2>7, <2>9 DEF EndsWithReply
<1>14. ASSUME spc = "write"
       PROVE  HeadLast(s2c')
  <2>1. HeadLast(s2c)
    BY <1>1, <1>14 DEF Attended
  <2>2. IsMain(s2c[Len(s2c)]) /\ ~IsMain(Gzip) /\ ~IsMain(s2c[1])
    BY <1>3, <2>1 DEF HeadLast, Gzip, Piece, IsMain, IsHead
  <2>3. Len(s2c) # 1 /\ (s2c[1].next => 2 + n # Len(s2c))
    BY <1>5, <2>2
  <2>4. 2 + n <= Len(s2c)
    <3>1. CASE s2c[1].next
      BY <1>5, <3>1
    <3>2. CASE ~s2c[1].next
      <4>1. n = 0 /\ Len(s2c) \in Nat /\ 1 <= Len(s2c)
        BY <1>2, <1>5, <3>2
      <4>2. \A k \in Nat : 1 <= k /\ k # 1 => 2 <= k
        OBVIOUS
      <4>3. 2 <= Len(s2c)
        BY <2>3, <4>1, <4>2, Zenon
      <4> QED BY <4>1, <4>3
    <3> QED BY <3>1, <3>2
  <2> QED BY <1>2, <1>4, <1>6, <2>1, <2>4, LastKept
<1>15. (spc = "write" => HeadLast(s2c) \/ (s2c = <<>> /\ cpc \in {"answer", "gone"}))'
  BY <1>1, <1>14 DEF HeadLast
<1>11. cpc' \in {"reply", "more", "last"} /\ spc' \in {"head", "body"} /\ c2s' = <<>>
         => EndsWithReply(s2c')
  BY <1>1, <1>3, <1>10 DEF Attended
<1>12. Overlong(s2c)' /\ EndsWithReply(s2c)' = EndsWithReply(s2c')
  BY <1>8 DEF Overlong, EndsWithReply
<1>13. (cpc = "more" => s2c # <<>> /\ s2c[1] = Gzip)'
  BY <1>9 DEF Gzip
<1> QED BY <1>11, <1>12, <1>13, <1>15 DEF Attended

(* The proxy writes.                                                       *)
LEMMA WritesAttended ==
  ASSUME Form, Attended, WriteHead \/ WriteReply \/ TaskWriteFull \/ TaskWriteEnd
  PROVE  Attended'
<1>1. PICK t \in Seq(Units) :
        /\ s2c' = s2c \o t /\ Overlong(t) /\ t # <<>>
        /\ WriteHead \/ WriteReply => Len(t) = 1
        /\ WriteHead => IsMain(t[1])
  <2>0. s2c \in Seq(Units)
    BY Numbers
  <2>1. CASE WriteHead
    <3> DEFINE p == <<ReplyHead>>
    <3>1. s2c' = Append(s2c, ReplyHead) /\ ReplyHead \in Units
      BY <2>1, ReplyPieces DEF WriteHead
    <3>2. p \in Seq(Units) /\ Len(p) = 1 /\ p # <<>> /\ IsMain(p[1]) /\ Overlong(p)
          /\ s2c' = s2c \o p
      BY <2>0, <3>1, ReplyPieces, OverlongPackages, AppendIsConcat
    <3> HIDE DEF p
    <3> QED BY <3>2
  <2>2. CASE WriteReply
    <3> DEFINE p == <<Piece("reply", sreq)>>
    <3>1. s2c' = Append(s2c, Piece("reply", sreq)) /\ sreq \in Requests
      BY <2>2 DEF WriteReply, Form, Bodies, Working
    <3>2. p \in Seq(Units) /\ Len(p) = 1 /\ p # <<>> /\ Overlong(p) /\ s2c' = s2c \o p
      BY <2>0, <3>1, ReplyPieces, OverlongPackages, AppendIsConcat
    <3> HIDE DEF p
    <3>3. ~WriteHead
      BY <2>2 DEF WriteReply, WriteHead
    <3> QED BY <3>2, <3>3
  <2>3. CASE TaskWriteFull \/ TaskWriteEnd
    <3>1. PICK t \in {FullPackage, LastPackage, NoPackage} : s2c' = s2c \o t
      BY <2>3 DEF TaskWriteFull, TaskWriteEnd
    <3>2. t \in Seq(Units) /\ Overlong(t) /\ Len(t) \in {1, 3}
      BY LobPackages, OverlongPackages
    <3>3. t # <<>>
      <4>1. Len(t) \in {1, 3}
        BY <3>2, Zenon
      <4> QED BY <4>1
    <3>4. ~WriteReply /\ ~WriteHead
      BY <2>3 DEF WriteReply, WriteHead, TaskWriteFull, TaskWriteEnd
    <3> QED BY <3>1, <3>2, <3>3, <3>4
  <2> QED BY <2>1, <2>2, <2>3
<1>2. s2c \in Seq(Units) /\ Overlong(s2c) /\ Len(s2c) \in Nat
  BY Numbers DEF Attended
<1>3. Overlong(s2c')
  BY <1>1, <1>2, OverlongJoin
<1>4. /\ s2c' # <<>>
      /\ s2c # <<>> => s2c'[1] = s2c[1]
  BY <1>1, <1>2, Longer
<1>5. UNCHANGED cpc /\ (spc' \in {"head", "body"} => WriteReply) /\ (spc' = "write" => WriteHead)
  BY DEF WriteHead, WriteReply, GoOn, EndSession, TaskWriteFull, TaskWriteEnd, clientVars
<1>6. ASSUME WriteHead \/ WriteReply
      PROVE  /\ Len(s2c') = Len(s2c) + 1 /\ s2c'[Len(s2c) + 1] = t[1]
             /\ \A i \in 1..Len(s2c) : s2c'[i] = s2c[i]
  <2>1. /\ Len(s2c \o t) = Len(s2c) + Len(t)
        /\ \A i \in 1..Len(s2c) : (s2c \o t)[i] = s2c[i]
        /\ \A i \in 1..Len(t) : (s2c \o t)[Len(s2c) + i] = t[i]
    BY <1>1, <1>2, Joined
  <2>2. Len(t) = 1 /\ 1 \in 1..1
    BY <1>1, <1>6
  <2> QED BY <1>1, <2>1, <2>2
<1>7. WriteHead => HeadLast(s2c')
  BY <1>1, <1>4, <1>6 DEF HeadLast
<1>8. ASSUME WriteReply, cpc \in {"reply", "more", "last"}
      PROVE  EndsWithReply(s2c')
  <2>1. s2c # <<>> /\ IsMain(s2c[Len(s2c)])
    BY <1>8 DEF WriteReply, Attended, HeadLast
  <2>2. Len(s2c) \in 1..Len(s2c) /\ Len(s2c') >= 2 /\ Len(s2c') - 1 = Len(s2c)
    BY <1>2, <1>6, <1>8, <2>1
  <2> QED BY <1>6, <1>8, <2>1, <2>2 DEF EndsWithReply
<1>9. Overlong(s2c)' /\ (WriteHead => HeadLast(s2c)')
      /\ (WriteReply /\ cpc \in {"reply", "more", "last"} => EndsWithReply(s2c)')
  BY <1>3, <1>7, <1>8 DEF Overlong, HeadLast, EndsWithReply
<1>10. (cpc = "more" => s2c # <<>> /\ s2c[1] = Gzip)'
  BY <1>4, <1>5 DEF Attended, Gzip
<1> QED BY <1>5, <1>9, <1>10 DEF Attended

LEMMA AttendedStep == Form /\ Attended /\ [Next]_vars => Attended'
<1> SUFFICES ASSUME Form, Attended, [Next]_vars PROVE Attended'
  OBVIOUS
<1>1. Form'
  BY FormStep
<1>2. ASSUME Overlong(s2c'), cpc' # "more",
             spc' = "write" => HeadLast(s2c') \/ (s2c' = <<>> /\ cpc' \in {"answer", "gone"}),
             ~(cpc' \in {"reply", "last"} /\ spc' \in {"head", "body"} /\ c2s' = <<>>)
      PROVE  Attended'
  BY <1>2 DEF Attended, Overlong, HeadLast
<1>3. ASSUME UNCHANGED <<cpc, s2c>>, spc' # "write",
             \/ spc' \notin {"head", "body"}
             \/ c2s' = <<>> => cpc \notin {"reply", "more", "last"}
      PROVE  Attended'
  BY <1>3 DEF Attended, Overlong, Gzip
<1>4. Overlong(s2c) /\ s2c \in Seq(Units) /\ c2s \in Seq(Units)
  BY Numbers DEF Attended
<1>9. /\ Overlong(Tail(s2c)) \/ s2c = <<>>
      /\ HeadLast(s2c) => s2c # <<>>
  <2>1. s2c # <<>> => Tail(s2c) = SubSeq(s2c, 2, Len(s2c))
    BY <1>4, TailIsSubSeq
  <2> QED BY <1>4, <2>1, OverlongSuffix DEF HeadLast
<1>10. spc = "write" => HeadLast(s2c) \/ (s2c = <<>> /\ cpc \in {"answer", "gone"})
  BY DEF Attended
<1>5. CASE Client
  <2>1. CASE (\E r \in Requests : Call(r)) \/ StreamThrows \/ SendFails \/ Vanish
    <3>1. /\ s2c' = s2c /\ spc' = spc /\ cpc' \in {"body", "idle", "gone"}
          /\ cpc # "gone" /\ (cpc = "answer" => cpc' = "gone")
      BY <2>1 DEF Call, StreamThrows, SendFails, Vanish, SocketError, AfterCall, proxyVars
    <3> QED BY <1>2, <1>4, <1>10, <3>1
  <2>8. CASE RecvFails \/ RecvCut
    <3>1. s2c' = <<>> /\ cpc' \in {"idle", "gone"} /\ spc' = "ended"
      BY <2>8 DEF RecvFails, RecvCut, Reset, SocketError, Return, AfterCall, proxyVars
    <3>2. Overlong(<<>>)
      BY DEF Overlong
    <3> QED BY <1>2, <3>1, <3>2
  <2>2. CASE SendBody
    <3>1. /\ s2c' = s2c /\ spc' = spc /\ cpc = "body" /\ cpc' \in {"reply", "upload"}
          /\ c2s' = Append(c2s, RequestPackage(req)[2])
      BY <2>2 DEF SendBody, proxyVars
    <3>2. c2s' # <<>>
      BY <1>4, <3>1
    <3> QED BY <1>2, <1>4, <1>10, <3>1, <3>2
  <2>3. CASE SendChunk
    <3>1. s2c' = s2c /\ spc' = spc /\ cpc = "upload" /\ cpc' = "upload"
      BY <2>3 DEF SendChunk, proxyVars
    <3> QED BY <1>2, <1>4, <1>10, <3>1
  <2>4. CASE SendEnd
    <3>1. /\ s2c' = s2c /\ spc' = spc /\ cpc' \in {"reply", "upload"}
          /\ c2s' = c2s \o EndPackage /\ cpc = "upload"
      BY <2>4 DEF SendEnd, proxyVars
    <3>2. req \in Requests
      BY <3>1 DEF Form, Bodies
    <3> DEFINE e == EndPackage
    <3>3. e \in Seq(Units) /\ Len(e) = 1 /\ c2s' = c2s \o e
      BY <3>1, <3>2, ClientPackages
    <3> HIDE DEF e
    <3>4. e # <<>>
      <4>1. Len(e) = 1
        BY <3>3, Zenon
      <4> QED BY <4>1
    <3>5. c2s' # <<>>
      BY <1>4, <3>3, <3>4, Longer
    <3> QED BY <1>2, <1>4, <1>10, <3>1, <3>5
  <2>5. CASE RecvReply
    <3>1. /\ cpc = "answer" /\ s2c # <<>> /\ s2c' = Tail(s2c) /\ cpc' \in {"idle", "gone"}
          /\ spc' = spc
      BY <2>5 DEF RecvReply, Return, AfterCall, proxyVars
    <3>2. ~IsMain(s2c[1])
      BY <3>1 DEF Form, Halves, IsMain, IsHead
    <3>3. spc' = "write" => HeadLast(s2c')
      BY <1>4, <1>10, <3>1, <3>2, LastKeptByTail
    <3> QED BY <1>2, <1>9, <3>1, <3>3
  <2>9. CASE RecvHead
    <3>1. s2c # <<>> /\ s2c' = Tail(s2c) /\ cpc' = "answer" /\ spc' = spc
      BY <2>9 DEF RecvHead, proxyVars
    <3>2. spc' = "write" => HeadLast(s2c') \/ s2c' = <<>>
      BY <1>4, <1>10, <3>1, LastKeptByTail
    <3> QED BY <1>2, <1>9, <3>1, <3>2
  <2>6. CASE RecvLob
    BY <2>6, RecvLobAttended
  <2>7. CASE RecvBad
    <3>1. /\ s2c # <<>> /\ s2c' \in {s2c, Tail(s2c)} /\ cpc' \in {"idle", "gone"}
          /\ spc' = spc /\ ~IsMain(s2c[1])
      BY <2>7 DEF RecvBad, SocketError, AfterCall, IsMain, proxyVars
    <3>2. Overlong(s2c')
      BY <1>4, <1>9, <3>1
    <3>3. spc' = "write" => HeadLast(s2c')
      BY <1>4, <1>10, <3>1, LastKeptByTail
    <3> QED BY <1>2, <3>1, <3>2, <3>3
  <2> QED BY <1>5, <2>1, <2>2, <2>3, <2>4, <2>5, <2>6, <2>7, <2>8, <2>9 DEF Client
<1>6. CASE Fiber
  <2>1. CASE ReadHead
    <3>1. UNCHANGED <<cpc, s2c>> /\ spc' = "body"
      BY <2>1 DEF ReadHead, clientVars
    <3>2. c2s' = <<>> => cpc' \in {"body", "gone"}
      BY <1>1, <3>1 DEF Form, Bodies
    <3> QED BY <1>3, <3>1, <3>2
  <2>2. CASE ReadBad \/ ReadBody \/ ReadBodyRefused \/ ReadEOF \/ WriteReplyFails \/ Dies
    <3>1. UNCHANGED <<cpc, s2c>> /\ spc' \in {"ended", "task", "reply"}
      BY <2>2 DEF ReadBad, ReadBody, ReadBodyRefused, ReadEOF, WriteReplyFails, Dies, EndSession,
                  clientVars
    <3> QED BY <1>3, <3>1
  <2>3. CASE ReadTimesOut
    <3>1. /\ UNCHANGED <<cpc, s2c, c2s>> /\ spc \in {"head", "body"} /\ spc' \in {"head", "ended"}
      BY <2>3 DEF ReadTimesOut, GoOn, EndSession, clientVars
    <3> QED BY <3>1 DEF Attended, Overlong, EndsWithReply, Gzip
  <2>4. CASE WriteHead \/ WriteReply
    BY <2>4, WritesAttended
  <2> QED BY <1>6, <2>1, <2>2, <2>3, <2>4 DEF Fiber
<1>7. CASE Task
  <2>1. CASE TaskWriteFull \/ TaskWriteEnd
    BY <2>1, WritesAttended
  <2>2. CASE \/ TaskRead \/ TaskEOF \/ TaskTimesOut \/ TaskGivesUp \/ TaskDone
             \/ TaskWriteLobFails
    <3>1. UNCHANGED <<cpc, s2c>> /\ spc' \notin {"head", "body", "write"}
      BY <2>2 DEF TaskRead, TaskEOF, TaskTimesOut, TaskGivesUp, TaskDone, TaskWriteLobFails,
                  WantsStream, clientVars
    <3> QED BY <1>3, <3>1
  <2> QED BY <1>7, <2>1, <2>2 DEF Task
<1>8. CASE UNCHANGED vars
  BY <1>8 DEF vars, clientVars, proxyVars, Attended, Overlong, HeadLast, EndsWithReply,
              Gzip
<1> QED BY <1>5, <1>6, <1>7, <1>8 DEF Next

(* The safety half of CallsReturn, for sessions with any errors: a client  *)
(* that waits has a byte before it, or the proxy a byte to read or a       *)
(* request at work, or the session is over and its end is in sight.        *)
THEOREM NobodyWaitsInVain == Spec => []WaitsForSomeone
<1>1. Init => Inv /\ Attended
  BY InvInit DEF Init, Attended, Overlong
<1>2. Inv /\ Attended /\ [Next]_vars => (Inv /\ Attended)'
  BY InvStep, AttendedStep DEF Inv
<1>3. Inv /\ Attended => WaitsForSomeone
  <2> SUFFICES ASSUME Inv, Attended, cpc \in {"reply", "more", "last", "answer"}, c2s = <<>>,
                      s2c = <<>>
               PROVE  Busy \/ spc = "ended"
    BY DEF WaitsForSomeone
  <2>1. ~EndsWithReply(s2c)
    BY DEF EndsWithReply
  <2>2. spc \in {"head", "body", "task", "reply", "write", "hung", "ended"}
    BY DEF Inv, Form, TypeOK
  <2>3. cpc = "answer" => spc \in {"write", "ended"}
    BY DEF Inv, Form, Halves
  <2> QED BY <2>1, <2>2, <2>3 DEF Attended, Busy
<1> QED BY <1>1, <1>2, <1>3, PTL DEF Spec
=============================================================================
