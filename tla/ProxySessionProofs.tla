------------------------- MODULE ProxySessionProofs -------------------------
(* Proofs about ProxySession, for any number and length of requests and    *)
(* streams: the order of the packages alone pairs replies with requests.   *)
EXTENDS ProxySession, SequenceTheorems, TLAPS

RequestHead == PkgHead(0, FALSE, FALSE, 1)
ChunkHead   == PkgHead(1, TRUE, TRUE, 1)
EndHead     == PkgHead(1, FALSE, FALSE, 0)

Working == spc \in {"task", "reply", "write"}

(* What the client writes: a head is followed by its body, unless the body *)
(* of a request is still to be written.                                    *)
Aligned(s) == \A i \in 1..Len(s) :
  /\ IsHead(s[i]) => s[i] \in {RequestHead, ChunkHead, EndHead}
  /\ s[i] = RequestHead /\ i < Len(s) => s[i + 1].unit = "request"
  /\ s[i] = ChunkHead => i < Len(s)

Written ==
  spc # "ended" =>
    /\ Aligned(c2s)
    /\ c2s # <<>> /\ c2s[Len(c2s)] = RequestHead => cpc \in {"body", "gone"}

(* What the proxy writes: a reply's head is followed by its body, unless   *)
(* the body is still to be written, or never will be.                      *)
Answers(s) == \A i \in 1..Len(s) :
  IsMain(s[i]) /\ i < Len(s) => s[i + 1].unit = "reply"

HeadLast(s) == s # <<>> /\ IsMain(s[Len(s)])

Halves ==
  /\ HeadLast(s2c) => spc \in {"write", "ended"}
  /\ cpc = "answer" => IF s2c = <<>> THEN spc \in {"write", "ended"}
                       ELSE s2c[1].unit = "reply"

Bodies ==
  /\ spc = "body" => IF c2s = <<>> THEN cpc \in {"body", "gone"}
                     ELSE c2s[1].unit = "request"
  /\ Working => sreq \in Requests
  /\ cpc \notin {"idle", "gone"} => req \in Requests

(* Where the client is in its streams.                                     *)
Uploading ==
  cpc = "upload" =>
    /\ sent[1] \in 1..Len(req.lens)
    /\ sent[2] <= req.lens[sent[1]]

-----------------------------------------------------------------------------
(* Units and requests                                                      *)

LEMMA Heads ==
  /\ RequestHead \in Units /\ ChunkHead \in Units /\ EndHead \in Units
  /\ IsMain(RequestHead) /\ RequestHead.len = 1
  /\ IsHead(ChunkHead) /\ ~IsMain(ChunkHead) /\ ChunkHead.len = 1 /\ ChunkHead.next
  /\ IsHead(EndHead) /\ ~IsMain(EndHead) /\ EndHead.len = 0
  /\ RequestHead # ChunkHead /\ RequestHead # EndHead /\ ChunkHead # EndHead
BY DEF RequestHead, ChunkHead, EndHead, PkgHead, Units, IsHead, IsMain

LEMMA Pieces ==
  ASSUME NEW r \in Requests, NEW unit \in {"request", "reply"}
  PROVE  /\ Piece(unit, r) \in Units /\ ~IsHead(Piece(unit, r))
         /\ Piece(unit, r).unit = unit /\ Piece(unit, r).of = r
BY DEF Piece, Units, IsHead

LEMMA Chunks ==
  ASSUME NEW r \in Requests, NEW k \in 1..MaxStreams, NEW i \in 1..MaxChunks
  PROVE  Chunk(r, k, i) \in Units /\ ~IsHead(Chunk(r, k, i))
BY DEF Chunk, Piece, Units, IsHead

LEMMA Gzips == Gzip \in Units /\ ~IsHead(Gzip)
BY DEF Gzip, Piece, Units, IsHead

LEMMA UnitFacts ==
  ASSUME NEW u \in Units
  PROVE  /\ IsHead(u) => u.type \in 0..1 /\ u.next \in BOOLEAN /\ u.len \in 0..1
         /\ u.unit = "request" => u.of \in Requests /\ ~IsHead(u)
         /\ u.unit = "reply" => u.of \in Requests /\ ~IsHead(u)
BY DEF Units, IsHead, Piece, Chunk, Gzip

LEMMA LensFacts ==
  ASSUME NEW kind \in Kinds, NEW l \in Lens(kind)
  PROVE  /\ l \in Seq(0..MaxChunks) /\ Len(l) \in 0..MaxStreams
         /\ kind = "read" => l = <<>>
<1>1. <<>> \in Seq(0..MaxChunks) /\ Len(<<>>) \in 0..MaxStreams
  BY BoundsAssumption
<1>2. ASSUME NEW n \in Nat, l \in SeqOf(0..MaxChunks, n), n <= MaxStreams
      PROVE  l \in Seq(0..MaxChunks) /\ Len(l) \in 0..MaxStreams
  <2>1. PICK m \in 0..n : l \in [1..m -> 0..MaxChunks]
    BY <1>2 DEF SeqOf
  <2>2. l \in Seq(0..MaxChunks)
    <3>1. Seq(0..MaxChunks) = UNION {[1..k -> 0..MaxChunks] : k \in Nat}
      BY SeqDef, Zenon
    <3>2. m \in Nat
      BY <1>2
    <3> QED BY <2>1, <3>1, <3>2, Zenon
  <2>3. 1..Len(l) = 1..m /\ Len(l) \in Nat
    BY <2>1, <2>2
  <2>4. Len(l) = m
    BY <2>1, <2>3
  <2> QED BY <2>1, <2>2, <2>4, <1>2, BoundsAssumption
<1>3. CASE kind = "call"
  BY <1>2, <1>3, BoundsAssumption DEF Lens
<1>4. CASE kind = "write"
  BY <1>2, <1>4, BoundsAssumption DEF Lens
<1>5. CASE kind \notin {"call", "write"}
  BY <1>1, <1>5 DEF Lens
<1> QED BY <1>3, <1>4, <1>5

LEMMA RequestFacts ==
  ASSUME NEW r \in Requests
  PROVE  /\ r.id \in 0..MaxRequests /\ r.kind \in Kinds
         /\ r.lens \in Seq(0..MaxChunks) /\ Len(r.lens) \in 0..MaxStreams
         /\ r.kind = "read" => r.lens = <<>>
<1>1. PICK k \in Kinds : r \in [id : 0..MaxRequests, kind : {k}, lens : Lens(k)]
  BY DEF Requests
<1>2. r.id \in 0..MaxRequests /\ r.kind = k /\ r.lens \in Lens(k)
  BY <1>1
<1> QED BY <1>2, LensFacts

-----------------------------------------------------------------------------
(* The wires                                                               *)

LEMMA Dropped ==
  ASSUME NEW s \in Seq(Units), NEW m \in {2, 3}, m <= Len(s) + 1
  PROVE  /\ SubSeq(s, m, Len(s)) \in Seq(Units)
         /\ Len(SubSeq(s, m, Len(s))) = Len(s) - m + 1
         /\ \A i \in 1..Len(SubSeq(s, m, Len(s))) : SubSeq(s, m, Len(s))[i] = s[i + m - 1]
<1>1. \A i \in m..Len(s) : s[i] \in Units
  OBVIOUS
<1>2. m \in Int /\ Len(s) \in Int
  OBVIOUS
<1> DEFINE t == SubSeq(s, m, Len(s))
<1>3. /\ t \in Seq(Units)
      /\ Len(t) = IF m <= Len(s) THEN Len(s) - m + 1 ELSE 0
      /\ \A i \in 1..(Len(s) - m + 1) : t[i] = s[m + i - 1]
  BY <1>1, <1>2, SubSeqProperties
<1> HIDE DEF t
<1>4. Len(t) = Len(s) - m + 1
  BY <1>2, <1>3
<1>5. \A i \in 1..Len(t) : t[i] = s[i + m - 1]
  BY <1>3, <1>4
<1> QED BY <1>3, <1>4, <1>5 DEF t

LEMMA Joined ==
  ASSUME NEW s \in Seq(Units), NEW t \in Seq(Units)
  PROVE  /\ s \o t \in Seq(Units) /\ Len(s \o t) = Len(s) + Len(t)
         /\ \A i \in 1..Len(s) : (s \o t)[i] = s[i]
         /\ \A i \in 1..Len(t) : (s \o t)[Len(s) + i] = t[i]
         /\ \A i \in 1..Len(s \o t) : i > Len(s) => (s \o t)[i] = t[i - Len(s)]
<1> DEFINE u == s \o t
<1>1. /\ u \in Seq(Units) /\ Len(u) = Len(s) + Len(t)
      /\ \A i \in 1..(Len(s) + Len(t)) :
           u[i] = IF i <= Len(s) THEN s[i] ELSE t[i - Len(s)]
  BY ConcatProperties
<1>2. Len(s) \in Nat /\ Len(t) \in Nat
  OBVIOUS
<1> HIDE DEF u
<1>3. \A i \in 1..Len(s) : u[i] = s[i]
  BY <1>1, <1>2
<1>4. \A i \in 1..Len(t) : u[Len(s) + i] = t[i]
  <2> TAKE i \in 1..Len(t)
  <2>1. Len(s) + i \in 1..(Len(s) + Len(t)) /\ ~(Len(s) + i <= Len(s))
        /\ Len(s) + i - Len(s) = i
    BY <1>2
  <2> QED BY <1>1, <2>1
<1>5. \A i \in 1..Len(u) : i > Len(s) => u[i] = t[i - Len(s)]
  BY <1>1, <1>2
<1> QED BY <1>1, <1>3, <1>4, <1>5 DEF u

LEMMA AlignedSuffix ==
  ASSUME NEW s \in Seq(Units), NEW m \in {2, 3}, m <= Len(s) + 1, Aligned(s),
         NEW t, t = SubSeq(s, m, Len(s))
  PROVE  Aligned(t) /\ (t # <<>> => t[Len(t)] = s[Len(s)])
<1>1. /\ t \in Seq(Units) /\ Len(t) = Len(s) - m + 1
      /\ \A i \in 1..Len(t) : t[i] = s[i + m - 1]
  BY Dropped
<1>2. Len(s) \in Nat /\ Len(t) \in Nat /\ (t # <<>> => Len(t) > 0)
  BY <1>1
<1>3. t # <<>> => t[Len(t)] = s[Len(s)]
  BY <1>1, <1>2
<1>4. ASSUME NEW i \in 1..Len(t)
      PROVE  /\ IsHead(t[i]) => t[i] \in {RequestHead, ChunkHead, EndHead}
             /\ t[i] = RequestHead /\ i < Len(t) => t[i + 1].unit = "request"
             /\ t[i] = ChunkHead => i < Len(t)
  <2>1. t[i] = s[i + m - 1] /\ i + m - 1 \in 1..Len(s)
    BY <1>1, <1>2
  <2>2. i < Len(t) <=> i + m - 1 < Len(s)
    BY <1>1, <1>2
  <2>3. i < Len(t) => t[i + 1] = s[(i + m - 1) + 1]
    BY <1>1, <1>2
  <2> QED BY <2>1, <2>2, <2>3 DEF Aligned
<1> QED BY <1>3, <1>4 DEF Aligned

LEMMA AlignedJoined ==
  ASSUME NEW s \in Seq(Units), NEW t \in Seq(Units), Aligned(s), Aligned(t), t # <<>>,
         s # <<>> /\ s[Len(s)] = RequestHead => t[1].unit = "request"
  PROVE  Aligned(s \o t) /\ (s \o t)[Len(s \o t)] = t[Len(t)]
<1> DEFINE u == s \o t
<1>1. /\ u \in Seq(Units) /\ Len(u) = Len(s) + Len(t)
      /\ \A i \in 1..Len(s) : u[i] = s[i]
      /\ \A i \in 1..Len(t) : u[Len(s) + i] = t[i]
      /\ \A i \in 1..Len(u) : i > Len(s) => u[i] = t[i - Len(s)]
  BY Joined
<1>2. Len(s) \in Nat /\ Len(t) \in Nat /\ Len(t) > 0
  OBVIOUS
<1> HIDE DEF u
<1>3. u[Len(u)] = t[Len(t)]
  BY <1>1, <1>2
<1>4. ASSUME NEW i \in 1..Len(u)
      PROVE  /\ IsHead(u[i]) => u[i] \in {RequestHead, ChunkHead, EndHead}
             /\ u[i] = RequestHead /\ i < Len(u) => u[i + 1].unit = "request"
             /\ u[i] = ChunkHead => i < Len(u)
  <2>1. CASE i < Len(s)
    <3>1. i \in 1..Len(s) /\ i + 1 \in 1..Len(s) /\ i < Len(u)
      BY <1>1, <1>2, <2>1
    <3>2. u[i] = s[i] /\ u[i + 1] = s[i + 1]
      BY <1>1, <3>1, Zenon
    <3> QED BY <2>1, <3>1, <3>2 DEF Aligned
  <2>2. CASE i = Len(s)
    <3>1. u[i] = s[i] /\ u[i + 1] = t[1] /\ i < Len(u) /\ s # <<>> /\ i \in 1..Len(s)
      BY <1>1, <1>2, <2>2
    <3> QED BY <3>1, <2>2 DEF Aligned
  <2>3. CASE i > Len(s)
    <3> DEFINE j == i - Len(s)
    <3>1. j \in 1..Len(t) /\ u[i] = t[j] /\ (i < Len(u) <=> j < Len(t))
      BY <1>1, <1>2, <2>3
    <3>2. j < Len(t) => u[i + 1] = t[j + 1]
      BY <1>1, <1>2, <2>3
    <3> HIDE DEF j
    <3> QED BY <3>1, <3>2 DEF Aligned
  <2> QED BY <1>2, <2>1, <2>2, <2>3
<1> QED BY <1>3, <1>4 DEF Aligned, u

NoMain(s) == \A i \in 1..Len(s) : ~IsMain(s[i])

LEMMA SuffixForms ==
  ASSUME NEW s \in Seq(Units), NEW m \in {2, 3}, m <= Len(s) + 1,
         NEW t, t = SubSeq(s, m, Len(s))
  PROVE  /\ Answers(s) => Answers(t)
         /\ NoMain(s) => NoMain(t)
         /\ HeadLast(t) => HeadLast(s)
<1>1. /\ t \in Seq(Units) /\ Len(t) = Len(s) - m + 1
      /\ \A i \in 1..Len(t) : t[i] = s[i + m - 1]
  BY Dropped
<1>2. Len(s) \in Nat /\ Len(t) \in Nat
  BY <1>1
<1>3. ASSUME NEW i \in 1..Len(t)
      PROVE  /\ t[i] = s[i + m - 1] /\ i + m - 1 \in 1..Len(s)
             /\ i < Len(t) <=> i + m - 1 < Len(s)
             /\ i < Len(t) => t[i + 1] = s[(i + m - 1) + 1]
  BY <1>1, <1>2
<1>4. Answers(s) => Answers(t)
  BY <1>3 DEF Answers
<1>5. NoMain(s) => NoMain(t)
  BY <1>3 DEF NoMain
<1>6. HeadLast(t) => HeadLast(s)
  <2> SUFFICES ASSUME HeadLast(t) PROVE HeadLast(s)
    OBVIOUS
  <2>1. t # <<>> /\ IsMain(t[Len(t)])
    BY DEF HeadLast
  <2>2. Len(t) \in 1..Len(t) /\ Len(t) + m - 1 = Len(s)
    BY <1>1, <1>2, <2>1
  <2>3. t[Len(t)] = s[Len(s)] /\ Len(s) >= 1
    BY <1>1, <1>2, <2>2
  <2> QED BY <1>2, <2>1, <2>3 DEF HeadLast
<1> QED BY <1>4, <1>5, <1>6, Zenon

LEMMA JoinForms ==
  ASSUME NEW s \in Seq(Units), NEW t \in Seq(Units)
  PROVE  /\ /\ Answers(s) /\ Answers(t)
            /\ HeadLast(s) => t # <<>> /\ t[1].unit = "reply"
            => Answers(s \o t)
         /\ NoMain(s) /\ NoMain(t) => NoMain(s \o t)
         /\ t # <<>> /\ ~HeadLast(t) => ~HeadLast(s \o t)
<1> DEFINE u == s \o t
<1>1. /\ u \in Seq(Units) /\ Len(u) = Len(s) + Len(t)
      /\ \A i \in 1..Len(s) : u[i] = s[i]
      /\ \A i \in 1..Len(u) : i > Len(s) => u[i] = t[i - Len(s)]
  BY Joined
<1>2. Len(s) \in Nat /\ Len(t) \in Nat
  OBVIOUS
<1> HIDE DEF u
<1>3. ASSUME NoMain(s), NoMain(t), NEW i \in 1..Len(u)
      PROVE  ~IsMain(u[i])
  <2>1. CASE i <= Len(s)
    BY <1>1, <1>2, <1>3, <2>1 DEF NoMain
  <2>2. CASE i > Len(s)
    <3>1. i - Len(s) \in 1..Len(t)
      BY <1>1, <1>2, <2>2
    <3> QED BY <1>1, <1>3, <2>2, <3>1 DEF NoMain
  <2> QED BY <1>2, <2>1, <2>2
<1>4. ASSUME Answers(s), Answers(t), HeadLast(s) => t # <<>> /\ t[1].unit = "reply",
             NEW i \in 1..Len(u), IsMain(u[i]), i < Len(u)
      PROVE  u[i + 1].unit = "reply"
  <2>1. CASE i < Len(s)
    <3>1. s[i + 1].unit = "reply"
      BY <1>1, <1>2, <1>4, <2>1 DEF Answers
    <3>2. i + 1 \in 1..Len(s)
      BY <1>1, <1>2, <2>1
    <3> QED BY <1>1, <3>1, <3>2
  <2>3. CASE i = Len(s)
    <3>1. s # <<>> /\ IsMain(s[Len(s)])
      BY <1>1, <1>2, <1>4, <2>3
    <3>2. t[1].unit = "reply"
      BY <1>4, <3>1 DEF HeadLast
    <3>3. i + 1 \in 1..Len(u) /\ i + 1 > Len(s) /\ (i + 1) - Len(s) = 1
      BY <1>1, <1>2, <1>4, <2>3
    <3> QED BY <1>1, <3>2, <3>3
  <2>2. CASE i > Len(s)
    <3> DEFINE j == i - Len(s)
    <3>1. j \in 1..Len(t) /\ u[i] = t[j]
      BY <1>1, <1>2, <2>2
    <3>2. j < Len(t) /\ u[i + 1] = t[j + 1]
      BY <1>1, <1>2, <1>4, <2>2
    <3> HIDE DEF j
    <3> QED BY <1>1, <1>2, <1>4, <2>2, <3>1, <3>2 DEF Answers
  <2> QED BY <1>2, <2>1, <2>2, <2>3
<1>5. ASSUME t # <<>>, ~HeadLast(t)
      PROVE  ~HeadLast(u)
  <2>1. Len(t) >= 1 /\ ~IsMain(t[Len(t)])
    BY <1>2, <1>5 DEF HeadLast
  <2>2. Len(u) \in 1..Len(u) /\ Len(u) > Len(s) /\ Len(u) - Len(s) = Len(t)
    BY <1>1, <1>2, <2>1
  <2>3. u[Len(u)] = t[Len(t)]
    BY <1>1, <2>2
  <2> QED BY <2>1, <2>3 DEF HeadLast
<1>6. Answers(s) /\ Answers(t) /\ (HeadLast(s) => t # <<>> /\ t[1].unit = "reply") => Answers(u)
  BY <1>4 DEF Answers
<1> QED BY <1>3, <1>5, <1>6 DEF NoMain, u

(* The packages of both sides keep these forms.                            *)
LEMMA ClientPackages ==
  ASSUME NEW r \in Requests
  PROVE  /\ <<RequestHead>> \in Seq(Units) /\ Aligned(<<RequestHead>>)
         /\ <<Piece("request", r)>> \in Seq(Units)
         /\ Aligned(<<Piece("request", r)>>) /\ NoMain(<<Piece("request", r)>>)
         /\ EndPackage \in Seq(Units) /\ Aligned(EndPackage) /\ NoMain(EndPackage)
         /\ Len(EndPackage) = 1 /\ EndPackage[1] = EndHead
<1>1. Piece("request", r) \in Units /\ ~IsHead(Piece("request", r))
  BY Pieces
<1>2. EndPackage = <<EndHead>>
  BY DEF EndPackage, EndHead
<1>3. \A u \in Units : IsMain(u) => IsHead(u)
  BY DEF IsMain
<1>4. Piece("request", r) # RequestHead /\ Piece("request", r) # ChunkHead
  BY <1>1, Heads, <1>3
<1>5. Aligned(<<RequestHead>>) /\ Aligned(<<EndHead>>) /\ NoMain(<<EndHead>>)
  BY Heads DEF Aligned, NoMain
<1>6. Aligned(<<Piece("request", r)>>) /\ NoMain(<<Piece("request", r)>>)
  BY <1>1, <1>3, <1>4 DEF Aligned, NoMain
<1>7. <<RequestHead>> \in Seq(Units) /\ <<EndHead>> \in Seq(Units)
      /\ <<Piece("request", r)>> \in Seq(Units)
      /\ Len(<<EndHead>>) = 1 /\ <<EndHead>>[1] = EndHead
  BY <1>1, Heads
<1> QED BY <1>2, <1>5, <1>6, <1>7

LEMMA ChunkPackages ==
  ASSUME NEW r \in Requests, NEW k \in 1..MaxStreams, NEW i \in 1..MaxChunks
  PROVE  /\ ChunkPackage(r, k, i) \in Seq(Units) /\ Aligned(ChunkPackage(r, k, i))
         /\ NoMain(ChunkPackage(r, k, i)) /\ Len(ChunkPackage(r, k, i)) = 2
         /\ ChunkPackage(r, k, i)[1] = ChunkHead
         /\ ChunkPackage(r, k, i)[2] # RequestHead
<1> DEFINE c == Chunk(r, k, i)
<1>1. c \in Units /\ ~IsHead(c)
  BY Chunks
<1>2. ChunkPackage(r, k, i) = <<ChunkHead, c>>
  BY DEF ChunkPackage, ChunkHead
<1> HIDE DEF c
<1>3. c # RequestHead /\ c # ChunkHead /\ ~IsMain(c)
  BY <1>1, Heads DEF IsMain
<1>4. <<ChunkHead, c>> \in Seq(Units) /\ Len(<<ChunkHead, c>>) = 2
      /\ <<ChunkHead, c>>[1] = ChunkHead /\ <<ChunkHead, c>>[2] = c
  BY <1>1, Heads
<1> DEFINE p == <<ChunkHead, c>>
<1> HIDE DEF p
<1>5. Len(p) = 2 /\ p[1] = ChunkHead /\ p[2] = c
  BY <1>4 DEF p
<1>6. Aligned(p)
  <2>1. \A j \in 1..2 : j = 1 \/ j = 2
    OBVIOUS
  <2> QED BY <1>1, <1>3, <1>5, <2>1, Heads DEF Aligned
<1>7. NoMain(p)
  <2>1. \A j \in 1..2 : j = 1 \/ j = 2
    OBVIOUS
  <2> QED BY <1>3, <1>5, <2>1, Heads DEF NoMain
<1> QED BY <1>2, <1>3, <1>4, <1>6, <1>7 DEF p

LEMMA LongSuffix ==
  ASSUME NEW s \in Seq(Units), s # <<>>, NEW m \in {2, 3}
  PROVE  /\ SubSeq(s, m, Len(s)) \in Seq(Units)
         /\ Answers(s) => Answers(SubSeq(s, m, Len(s)))
         /\ NoMain(s) => NoMain(SubSeq(s, m, Len(s)))
         /\ HeadLast(SubSeq(s, m, Len(s))) => HeadLast(s)
<1>1. CASE m <= Len(s) + 1
  BY <1>1, Dropped, SuffixForms
<1>2. CASE m > Len(s) + 1
  <2>1. SubSeq(s, m, Len(s)) = <<>>
    BY <1>2, SubSeqEmpty
  <2>2. <<>> \in Seq(Units) /\ Answers(<<>>) /\ NoMain(<<>>) /\ ~HeadLast(<<>>)
    BY DEF Answers, NoMain, HeadLast
  <2> QED BY <2>1, <2>2, Zenon
<1> QED BY <1>1, <1>2

LEMMA ReplyPieces ==
  /\ ReplyHead \in Units /\ IsMain(ReplyHead)
  /\ <<ReplyHead>> \in Seq(Units) /\ Answers(<<ReplyHead>>) /\ Len(<<ReplyHead>>) = 1
  /\ Tail(<<ReplyHead>>) = <<>>
  /\ \A r \in Requests :
       LET b == Piece("reply", r) IN
         /\ b \in Units /\ ~IsMain(b) /\ b.unit = "reply" /\ b.of = r
         /\ <<b>> \in Seq(Units) /\ <<b>> # <<>> /\ <<b>>[1] = b
         /\ Answers(<<b>>) /\ ~HeadLast(<<b>>)
<1>1. ReplyHead \in Units /\ IsMain(ReplyHead)
  BY DEF ReplyHead, ProxyHead, PkgHead, Units, IsMain, IsHead
<1>2. ASSUME NEW u \in Units
      PROVE  /\ <<u>> \in Seq(Units) /\ Answers(<<u>>) /\ Len(<<u>>) = 1 /\ Tail(<<u>>) = <<>>
             /\ <<u>> # <<>> /\ <<u>>[1] = u /\ (HeadLast(<<u>>) => IsMain(u))
  BY DEF Answers, HeadLast
<1>3. ASSUME NEW r \in Requests
      PROVE  /\ Piece("reply", r) \in Units /\ ~IsMain(Piece("reply", r))
             /\ Piece("reply", r).unit = "reply" /\ Piece("reply", r).of = r
  BY Pieces DEF IsMain
<1> QED BY <1>1, <1>2, <1>3

LEMMA ReplyPackages ==
  ASSUME NEW r \in Requests
  PROVE  /\ ReplyPackage(r) \in Seq(Units) /\ Len(ReplyPackage(r)) = 2
         /\ ReplyPackage(r)[1] = ReplyHead
         /\ Tail(ReplyPackage(r)) = <<Piece("reply", r)>>
BY ReplyPieces DEF ReplyPackage

LEMMA LobPackages ==
  /\ FullPackage \in Seq(Units) /\ Answers(FullPackage) /\ ~HeadLast(FullPackage)
  /\ Len(FullPackage) = 3
  /\ IsHead(FullPackage[1]) /\ FullPackage[1].type = 1
  /\ FullPackage[1].next /\ FullPackage[1].len = 1 /\ FullPackage[3] = Gzip
  /\ LastPackage \in Seq(Units) /\ Answers(LastPackage) /\ ~HeadLast(LastPackage)
  /\ Len(LastPackage) = 3
  /\ IsHead(LastPackage[1]) /\ LastPackage[1].type = 1
  /\ LastPackage[1].next /\ LastPackage[1].len = 0 /\ LastPackage[2] = Gzip
  /\ NoPackage \in Seq(Units) /\ Answers(NoPackage) /\ ~HeadLast(NoPackage)
  /\ Len(NoPackage) = 1
  /\ IsHead(NoPackage[1]) /\ NoPackage[1].type = 1
  /\ ~NoPackage[1].next /\ NoPackage[1].len = 0
<1>1. ASSUME NEW h \in Units, IsHead(h), h.type = 1
      PROVE  /\ <<h, Gzip, Gzip>> \in Seq(Units) /\ Answers(<<h, Gzip, Gzip>>)
             /\ ~HeadLast(<<h, Gzip, Gzip>>) /\ ~HeadLast(<<h>>)
             /\ Len(<<h, Gzip, Gzip>>) = 3 /\ <<h, Gzip, Gzip>>[1] = h
             /\ <<h, Gzip, Gzip>>[2] = Gzip /\ <<h, Gzip, Gzip>>[3] = Gzip
             /\ <<h>> \in Seq(Units) /\ Answers(<<h>>) /\ Len(<<h>>) = 1 /\ <<h>>[1] = h
  <2>1. ~IsMain(h) /\ ~IsMain(Gzip) /\ Gzip \in Units
    BY <1>1, Gzips DEF IsMain
  <2>2. Answers(<<h>>) /\ <<h>> \in Seq(Units) /\ Len(<<h>>) = 1 /\ <<h>>[1] = h
        /\ ~HeadLast(<<h>>)
    BY <1>1, <2>1 DEF Answers, HeadLast
  <2> DEFINE p == <<h, Gzip, Gzip>>
  <2>3. p \in Seq(Units) /\ Len(p) = 3 /\ p[1] = h /\ p[2] = Gzip /\ p[3] = Gzip
    BY <1>1, <2>1
  <2> HIDE DEF p
  <2>4. Answers(p)
    <3>1. \A j \in 1..3 : j = 1 \/ j = 2 \/ j = 3
      OBVIOUS
    <3> QED BY <2>1, <2>3, <3>1 DEF Answers
  <2>5. ~HeadLast(p)
    BY <2>1, <2>3 DEF HeadLast
  <2> QED BY <2>2, <2>3, <2>4, <2>5 DEF p
<1>2. FullPackage = <<ProxyHead(1, TRUE, 1), Gzip, Gzip>>
  BY DEF FullPackage
<1>3. LastPackage = <<ProxyHead(1, TRUE, 0), Gzip, Gzip>>
  BY DEF LastPackage
<1>4. NoPackage = <<ProxyHead(1, FALSE, 0)>>
  BY DEF NoPackage
<1>5. /\ ProxyHead(1, TRUE, 1) \in Units /\ IsHead(ProxyHead(1, TRUE, 1))
      /\ ProxyHead(1, TRUE, 1).type = 1
      /\ ProxyHead(1, TRUE, 1).next = TRUE /\ ProxyHead(1, TRUE, 1).len = 1
  BY DEF ProxyHead, PkgHead, Units, IsHead
<1>6. /\ ProxyHead(1, TRUE, 0) \in Units /\ IsHead(ProxyHead(1, TRUE, 0))
      /\ ProxyHead(1, TRUE, 0).type = 1
      /\ ProxyHead(1, TRUE, 0).next = TRUE /\ ProxyHead(1, TRUE, 0).len = 0
  BY DEF ProxyHead, PkgHead, Units, IsHead
<1>7. /\ ProxyHead(1, FALSE, 0) \in Units /\ IsHead(ProxyHead(1, FALSE, 0))
      /\ ProxyHead(1, FALSE, 0).type = 1
      /\ ProxyHead(1, FALSE, 0).next = FALSE /\ ProxyHead(1, FALSE, 0).len = 0
  BY DEF ProxyHead, PkgHead, Units, IsHead
<1>8. /\ FullPackage \in Seq(Units) /\ Answers(FullPackage) /\ ~HeadLast(FullPackage)
      /\ Len(FullPackage) = 3
      /\ FullPackage[1] = ProxyHead(1, TRUE, 1) /\ FullPackage[3] = Gzip
  BY <1>1, <1>2, <1>5
<1>9. /\ LastPackage \in Seq(Units) /\ Answers(LastPackage) /\ ~HeadLast(LastPackage)
      /\ Len(LastPackage) = 3
      /\ LastPackage[1] = ProxyHead(1, TRUE, 0) /\ LastPackage[2] = Gzip
  BY <1>1, <1>3, <1>6
<1>10. /\ NoPackage \in Seq(Units) /\ Answers(NoPackage) /\ ~HeadLast(NoPackage)
       /\ Len(NoPackage) = 1
       /\ NoPackage[1] = ProxyHead(1, FALSE, 0)
  BY <1>1, <1>4, <1>7
<1> QED BY <1>5, <1>6, <1>7, <1>8, <1>9, <1>10

-----------------------------------------------------------------------------
(* What holds of the wires and the two sides on every session, also after  *)
(* a call has failed.                                                      *)

Form == TypeOK /\ Written /\ Answers(s2c) /\ Halves /\ Bodies /\ Uploading

LEMMA FormInit == Init => Form
<1> SUFFICES ASSUME Init PROVE Form
  OBVIOUS
<1>1. TypeOK
  <2>1. <<>> \in Seq(Units) /\ <<>> \in Seq(Seq(Units))
    OBVIOUS
  <2>2. <<1, 0>> \in (1..MaxStreams + 1) \X (0..MaxChunks) /\ 0 \in 0..MaxRequests
    BY BoundsAssumption
  <2> QED BY <2>1, <2>2 DEF Init, TypeOK
<1>2. Written /\ Answers(s2c) /\ Halves
  BY DEF Init, Written, Aligned, Answers, Halves, HeadLast
<1>3. Bodies /\ Uploading
  BY DEF Init, Bodies, Working, Uploading
<1> QED BY <1>1, <1>2, <1>3 DEF Form

LEMMA CallsEndForm ==
  ASSUME Form, StreamThrows \/ SendFails \/ RecvFails \/ RecvCut \/ Vanish
  PROVE  Form'
<1>1. c2s' = c2s /\ UNCHANGED <<proxyVars, req, sent>>
      /\ \/ s2c' = s2c
         \/ s2c' = <<>> /\ spc = "ended"
  BY DEF StreamThrows, SendFails, RecvFails, RecvCut, Reset, Vanish, SocketError, Return
<1>2. /\ cpc' \in {"idle", "gone"} /\ got' \in {0, got}
      /\ failed' \in BOOLEAN /\ cut' \in BOOLEAN
      /\ cpc' = "gone" \/ cpc = "upload" \/ spc = "ended"
  BY DEF StreamThrows, SendFails, RecvFails, RecvCut, Reset, Vanish, SocketError, Return,
         AfterCall, Form, TypeOK
<1>3. TypeOK'
  <2>1. 0 \in 0..MaxRequests /\ <<>> \in Seq(Units)
    BY BoundsAssumption
  <2> QED BY <1>1, <1>2, <2>1 DEF Form, TypeOK, proxyVars
<1>4. Written'
  BY <1>1, <1>2 DEF Form, Written, proxyVars
<1>5. Answers(s2c)' /\ Halves'
  BY <1>1, <1>2 DEF Form, Answers, Halves, HeadLast, proxyVars
<1>6. Bodies' /\ Uploading'
  BY <1>1, <1>2 DEF Form, Bodies, Working, Uploading, proxyVars
<1> QED BY <1>3, <1>4, <1>5, <1>6 DEF Form

LEMMA ProxyRestsForm ==
  ASSUME Form,
         \/ ReadTimesOut \/ ReadEOF \/ WriteReplyFails \/ Dies \/ TaskEOF \/ TaskTimesOut
         \/ TaskGivesUp \/ TaskDone \/ TaskWriteLobFails
  PROVE  Form'
<1>1. c2s' = c2s /\ s2c' = s2c /\ UNCHANGED <<clientVars, sreq, taken, lob>>
  BY DEF ReadTimesOut, ReadEOF, WriteReplyFails, Dies, TaskEOF, TaskTimesOut, TaskGivesUp,
         TaskDone, TaskWriteLobFails, WantsStream
<1>2. /\ spc' \in {"head", "reply", "hung", "ended"} /\ open' \in {open, FALSE}
      /\ spc # "ended" /\ (spc' = "reply" => spc = "task")
      /\ spc = "write" => spc' = "ended"
  BY DEF ReadTimesOut, ReadEOF, WriteReplyFails, Dies, TaskEOF, TaskTimesOut, TaskGivesUp,
         TaskDone, TaskWriteLobFails, WantsStream, EndSession, GoOn
<1>3. TypeOK'
  BY <1>1, <1>2 DEF Form, TypeOK, clientVars
<1>4. Written'
  BY <1>1, <1>2 DEF Form, Written, clientVars
<1>5. Answers(s2c)' /\ Halves'
  BY <1>1, <1>2 DEF Form, Answers, Halves, HeadLast, clientVars, proxyVars
<1>6. Bodies' /\ Uploading'
  BY <1>1, <1>2 DEF Form, Bodies, Working, Uploading, clientVars
<1> QED BY <1>3, <1>4, <1>5, <1>6 DEF Form

(* The client writes.                                                      *)
LEMMA Longer ==
  ASSUME NEW s \in Seq(Units), NEW t \in Seq(Units), t # <<>>, NEW u, u = s \o t
  PROVE  /\ u \in Seq(Units) /\ u # <<>>
         /\ s # <<>> => u[1] = s[1]
         /\ s = <<>> => u = t
<1>1. /\ u \in Seq(Units) /\ Len(u) = Len(s) + Len(t)
      /\ \A i \in 1..Len(s) : u[i] = s[i]
  BY Joined
<1>2. s = <<>> => u = t
  BY ConcatEmptySeq
<1> QED BY <1>1, <1>2

LEMMA CallForm ==
  ASSUME Form, NEW r \in Requests, Call(r)
  PROVE  Form'
<1>1. /\ cpc = "idle" /\ req' = r /\ cpc' = "body" /\ c2s' = c2s \o <<RequestHead>>
      /\ s2c' = s2c /\ UNCHANGED <<sent, got, failed, cut, proxyVars>>
  <2>1. c2s' = Append(c2s, RequestHead)
    BY DEF Call, RequestPackage, RequestHead
  <2>2. Append(c2s, RequestHead) = c2s \o <<RequestHead>>
    BY Heads, AppendIsConcat DEF Form, TypeOK
  <2> QED BY <2>1, <2>2 DEF Call
<1>2. c2s \in Seq(Units) /\ <<RequestHead>> \in Seq(Units) /\ Aligned(<<RequestHead>>)
      /\ <<RequestHead>> # <<>>
  BY ClientPackages DEF Form, TypeOK
<1>3. /\ c2s' \in Seq(Units) /\ c2s' # <<>>
      /\ c2s # <<>> => c2s'[1] = c2s[1]
  BY <1>1, <1>2, Longer
<1>4. ASSUME spc # "ended"
      PROVE  Aligned(c2s')
  <2>1. Aligned(c2s) /\ ~(c2s # <<>> /\ c2s[Len(c2s)] = RequestHead)
    BY <1>4, <1>1 DEF Form, Written
  <2>2. Aligned(c2s \o <<RequestHead>>)
    BY <1>2, <2>1, AlignedJoined
  <2> QED BY <1>1, <2>2
<1>5. TypeOK'
  BY <1>1, <1>3 DEF Form, TypeOK, proxyVars
<1>6. Written'
  BY <1>1, <1>4 DEF Written, proxyVars
<1>7. Answers(s2c)' /\ Halves'
  BY <1>1 DEF Form, Answers, Halves, HeadLast, clientVars, proxyVars
<1>8. Bodies'
  <2>1. spc = "body" => c2s # <<>> /\ c2s[1].unit = "request"
    BY <1>1 DEF Form, Bodies
  <2> QED BY <1>1, <1>3, <2>1 DEF Form, Bodies, Working, proxyVars
<1>9. Uploading'
  BY <1>1 DEF Uploading
<1> QED BY <1>5, <1>6, <1>7, <1>8, <1>9 DEF Form

LEMMA SendBodyForm ==
  ASSUME Form, SendBody
  PROVE  Form'
<1> DEFINE b == Piece("request", req)
<1>1. /\ cpc = "body" /\ c2s' = c2s \o <<b>> /\ req \in Requests /\ b \in Units
      /\ ~IsHead(b) /\ b.unit = "request"
  <2>1. cpc = "body" /\ c2s' = Append(c2s, b)
    BY DEF SendBody, RequestPackage
  <2>2. req \in Requests
    BY <2>1 DEF Form, Bodies
  <2>3. b \in Units /\ ~IsHead(b) /\ b.unit = "request"
    BY <2>2, Pieces
  <2>4. Append(c2s, b) = c2s \o <<b>>
    BY <2>3, AppendIsConcat DEF Form, TypeOK
  <2> QED BY <2>1, <2>2, <2>3, <2>4
<1>2. c2s \in Seq(Units) /\ <<b>> \in Seq(Units) /\ Aligned(<<b>>) /\ <<b>> # <<>>
      /\ <<b>>[1] = b /\ Len(<<b>>) = 1
  BY <1>1, ClientPackages DEF Form, TypeOK
<1> HIDE DEF b
<1>3. /\ c2s' \in Seq(Units) /\ c2s' # <<>>
      /\ c2s # <<>> => c2s'[1] = c2s[1]
      /\ c2s = <<>> => c2s' = <<b>>
  BY <1>1, <1>2, Longer
<1>4. ASSUME spc # "ended"
      PROVE  Aligned(c2s') /\ c2s'[Len(c2s')] # RequestHead
  <2>1. Aligned(c2s)
    BY <1>4 DEF Form, Written
  <2>2. Aligned(c2s \o <<b>>) /\ (c2s \o <<b>>)[Len(c2s \o <<b>>)] = b
    <3>1. (c2s # <<>> /\ c2s[Len(c2s)] = RequestHead) => <<b>>[1].unit = "request"
      BY <1>1, <1>2
    <3>2. Aligned(c2s \o <<b>>) /\ (c2s \o <<b>>)[Len(c2s \o <<b>>)] = <<b>>[Len(<<b>>)]
      BY <1>2, <2>1, <3>1, AlignedJoined
    <3> QED BY <1>2, <3>2
  <2>3. b # RequestHead
    BY <1>1, Heads DEF IsMain
  <2> QED BY <1>1, <2>2, <2>3
<1>5. /\ sent' = <<1, 0>> /\ cpc' = (IF req.lens = <<>> THEN "reply" ELSE "upload")
      /\ UNCHANGED <<s2c, req, got, failed, cut, proxyVars>>
  BY DEF SendBody
<1>6. TypeOK'
  <2>1. <<1, 0>> \in (1..MaxStreams + 1) \X (0..MaxChunks)
    BY BoundsAssumption
  <2> QED BY <1>3, <1>5, <2>1 DEF Form, TypeOK, proxyVars
<1>7. Written'
  BY <1>4, <1>5 DEF Written, proxyVars
<1>8. Answers(s2c)' /\ Halves'
  BY <1>5 DEF Form, Answers, Halves, HeadLast, clientVars, proxyVars
<1>9. Bodies'
  <2>1. spc = "body" => c2s'[1].unit = "request"
    <3>1. CASE c2s = <<>>
      BY <1>1, <1>2, <1>3, <3>1
    <3>2. CASE c2s # <<>>
      BY <1>3, <3>2 DEF Form, Bodies
    <3> QED BY <3>1, <3>2
  <2> QED BY <1>1, <1>3, <1>5, <2>1 DEF Form, Bodies, Working, proxyVars
<1>10. Uploading'
  <2>1. SUFFICES ASSUME cpc' = "upload"
                 PROVE  sent'[1] \in 1..Len(req'.lens) /\ sent'[2] <= req'.lens[sent'[1]]
    BY DEF Uploading
  <2>2. req.lens # <<>> /\ req.lens \in Seq(0..MaxChunks) /\ req' = req
        /\ sent'[1] = 1 /\ sent'[2] = 0
    BY <1>1, <1>5, <2>1, RequestFacts
  <2>3. Len(req.lens) \in Nat \ {0}
    BY <2>2, EmptySeq
  <2>4. 1 \in 1..Len(req.lens)
    BY <2>3
  <2>5. req.lens[1] \in 0..MaxChunks
    BY <2>2, <2>4, ElementOfSeq
  <2>6. 0 <= req.lens[1]
    BY <2>5
  <2> QED BY <2>2, <2>4, <2>6
<1> QED BY <1>6, <1>7, <1>8, <1>9, <1>10 DEF Form

(* In an upload the stream the client is at exists.                        *)
LEMMA StreamSent ==
  ASSUME Form, cpc = "upload"
  PROVE  /\ req \in Requests /\ sent[1] \in 1..MaxStreams /\ sent[1] \in 1..Len(req.lens)
         /\ req.lens[sent[1]] \in 0..MaxChunks /\ sent[2] \in 0..MaxChunks
         /\ sent = <<sent[1], sent[2]>>
         /\ \A k \in 1..Len(req.lens) : req.lens[k] \in 0..MaxChunks
         /\ Len(req.lens) \in 0..MaxStreams
<1>1. req \in Requests /\ sent[1] \in 1..Len(req.lens)
  BY DEF Form, Bodies, Uploading
<1>2. req.lens \in Seq(0..MaxChunks) /\ Len(req.lens) \in 0..MaxStreams
  BY <1>1, RequestFacts
<1>3. sent[1] \in 1..MaxStreams
  BY <1>1, <1>2, BoundsAssumption
<1>4. \A k \in 1..Len(req.lens) : req.lens[k] \in 0..MaxChunks
  BY <1>2, ElementOfSeq
<1>5. sent[2] \in 0..MaxChunks /\ sent = <<sent[1], sent[2]>>
  BY DEF Form, TypeOK
<1> QED BY <1>1, <1>2, <1>3, <1>4, <1>5

LEMMA SendChunkForm ==
  ASSUME Form, SendChunk
  PROVE  Form'
<1> DEFINE t == ChunkPackage(req, sent[1], sent[2] + 1)
<1>1. cpc = "upload" /\ sent[2] < req.lens[sent[1]]
      /\ sent' = [sent EXCEPT ![2] = @ + 1] /\ c2s' = c2s \o ChunkPackage(req, sent[1], sent'[2])
      /\ UNCHANGED <<s2c, cpc, req, got, failed, cut, proxyVars>>
  BY DEF SendChunk
<1>2. /\ req \in Requests /\ sent[1] \in 1..MaxStreams /\ sent[1] \in 1..Len(req.lens)
      /\ req.lens[sent[1]] \in 0..MaxChunks /\ sent[2] \in 0..MaxChunks
      /\ sent = <<sent[1], sent[2]>>
  BY <1>1, StreamSent
<1>3. sent' = <<sent[1], sent[2] + 1>> /\ sent'[1] = sent[1] /\ sent'[2] = sent[2] + 1
  BY <1>1, <1>2
<1>4. sent[2] + 1 \in 1..MaxChunks /\ sent[2] + 1 <= req.lens[sent[1]]
  BY <1>1, <1>2, BoundsAssumption
<1>5. c2s \in Seq(Units) /\ c2s' = c2s \o t
  BY <1>1, <1>3 DEF Form, TypeOK
<1>6. t \in Seq(Units) /\ Aligned(t) /\ Len(t) = 2 /\ t[2] # RequestHead /\ t # <<>>
  BY <1>2, <1>4, ChunkPackages
<1> HIDE DEF t
<1>7. /\ c2s' \in Seq(Units) /\ c2s' # <<>>
      /\ c2s # <<>> => c2s'[1] = c2s[1]
  BY <1>5, <1>6, Longer
<1>8. ASSUME spc # "ended"
      PROVE  Aligned(c2s') /\ c2s'[Len(c2s')] # RequestHead
  <2>1. Aligned(c2s) /\ ~(c2s # <<>> /\ c2s[Len(c2s)] = RequestHead)
    BY <1>8, <1>1 DEF Form, Written
  <2>2. Aligned(c2s \o t) /\ (c2s \o t)[Len(c2s \o t)] = t[Len(t)]
    BY <1>5, <1>6, <2>1, AlignedJoined
  <2> QED BY <1>5, <1>6, <2>2
<1>9. TypeOK'
  <2>1. <<sent[1], sent[2] + 1>> \in (1..MaxStreams + 1) \X (0..MaxChunks)
    BY <1>2, <1>4, BoundsAssumption
  <2> QED BY <1>1, <1>3, <1>7, <2>1 DEF Form, TypeOK, proxyVars
<1>10. Written'
  BY <1>1, <1>8 DEF Written, proxyVars
<1>11. Answers(s2c)' /\ Halves'
  BY <1>1 DEF Form, Answers, Halves, HeadLast, clientVars, proxyVars
<1>12. Bodies'
  <2>1. spc = "body" => c2s # <<>> /\ c2s[1].unit = "request"
    BY <1>1 DEF Form, Bodies
  <2> QED BY <1>1, <1>7, <2>1 DEF Form, Bodies, Working, proxyVars
<1>13. Uploading'
  BY <1>1, <1>2, <1>3, <1>4 DEF Uploading
<1> QED BY <1>9, <1>10, <1>11, <1>12, <1>13 DEF Form

LEMMA SendEndForm ==
  ASSUME Form, SendEnd
  PROVE  Form'
<1>1. cpc = "upload" /\ sent[2] = req.lens[sent[1]] /\ c2s' = c2s \o EndPackage
      /\ sent' = <<sent[1] + 1, 0>>
      /\ cpc' = (IF sent[1] = Len(req.lens) THEN "reply" ELSE "upload")
      /\ UNCHANGED <<s2c, req, got, failed, cut, proxyVars>>
  BY DEF SendEnd
<1>2. /\ req \in Requests /\ sent[1] \in 1..MaxStreams /\ sent[1] \in 1..Len(req.lens)
      /\ \A k \in 1..Len(req.lens) : req.lens[k] \in 0..MaxChunks
      /\ Len(req.lens) \in 0..MaxStreams
  BY <1>1, StreamSent
<1>3. c2s \in Seq(Units) /\ EndPackage \in Seq(Units) /\ Aligned(EndPackage)
      /\ EndPackage # <<>> /\ EndPackage[Len(EndPackage)] # RequestHead
  <2>1. Len(EndPackage) = 1 /\ EndPackage[1] = EndHead /\ EndPackage \in Seq(Units)
        /\ Aligned(EndPackage)
    BY <1>2, ClientPackages
  <2>2. EndPackage # <<>> /\ EndPackage[Len(EndPackage)] = EndHead
    BY <2>1
  <2>3. EndHead # RequestHead
    BY Heads
  <2>4. c2s \in Seq(Units)
    BY DEF Form, TypeOK
  <2> QED BY <2>1, <2>2, <2>3, <2>4, Zenon
<1>4. /\ c2s' \in Seq(Units) /\ c2s' # <<>>
      /\ c2s # <<>> => c2s'[1] = c2s[1]
  BY <1>1, <1>3, Longer
<1>5. ASSUME spc # "ended"
      PROVE  Aligned(c2s') /\ c2s'[Len(c2s')] # RequestHead
  <2>1. Aligned(c2s) /\ ~(c2s # <<>> /\ c2s[Len(c2s)] = RequestHead)
    BY <1>5, <1>1 DEF Form, Written
  <2>2. /\ Aligned(c2s \o EndPackage)
        /\ (c2s \o EndPackage)[Len(c2s \o EndPackage)] = EndPackage[Len(EndPackage)]
    BY <1>3, <2>1, AlignedJoined
  <2> QED BY <1>1, <1>3, <2>2
<1>6. TypeOK'
  <2>1. <<sent[1] + 1, 0>> \in (1..MaxStreams + 1) \X (0..MaxChunks)
    BY <1>2, BoundsAssumption
  <2> QED BY <1>1, <1>4, <2>1 DEF Form, TypeOK, proxyVars
<1>7. Written'
  BY <1>1, <1>5 DEF Written, proxyVars
<1>8. Answers(s2c)' /\ Halves'
  BY <1>1 DEF Form, Answers, Halves, HeadLast, clientVars, proxyVars
<1>9. Bodies'
  <2>1. spc = "body" => c2s # <<>> /\ c2s[1].unit = "request"
    BY <1>1 DEF Form, Bodies
  <2> QED BY <1>1, <1>2, <1>4, <2>1 DEF Form, Bodies, Working, proxyVars
<1>10. Uploading'
  <2>1. SUFFICES ASSUME cpc' = "upload"
                 PROVE  sent'[1] \in 1..Len(req'.lens) /\ sent'[2] <= req'.lens[sent'[1]]
    BY DEF Uploading
  <2>2. sent[1] + 1 \in 1..Len(req.lens)
    BY <1>1, <1>2, <2>1
  <2>3. req.lens[sent[1] + 1] \in 0..MaxChunks
    BY <1>2, <2>2
  <2>4. 0 <= req.lens[sent[1] + 1]
    BY <2>3
  <2>5. sent'[1] = sent[1] + 1 /\ sent'[2] = 0 /\ req' = req
    BY <1>1
  <2> QED BY <2>2, <2>4, <2>5
<1> QED BY <1>6, <1>7, <1>8, <1>9, <1>10 DEF Form

(* The proxy reads.                                                        *)
LEMMA ReadFrom ==
  ASSUME Form, spc # "ended", c2s # <<>>, NEW m \in {2, 3}, m <= Len(c2s) + 1,
         NEW t, t = SubSeq(c2s, m, Len(c2s))
  PROVE  /\ t \in Seq(Units) /\ Aligned(t)
         /\ t # <<>> /\ t[Len(t)] = RequestHead => cpc \in {"body", "gone"}
<1>1. c2s \in Seq(Units) /\ Aligned(c2s)
  BY DEF Form, TypeOK, Written
<1>2. t \in Seq(Units)
  BY <1>1, Dropped
<1>3. Aligned(t) /\ (t # <<>> => t[Len(t)] = c2s[Len(c2s)])
  BY <1>1, AlignedSuffix
<1> QED BY <1>2, <1>3 DEF Form, Written

LEMMA ReadTail ==
  ASSUME Form, spc # "ended", c2s # <<>>
  PROVE  /\ Tail(c2s) = SubSeq(c2s, 2, Len(c2s))
         /\ Tail(c2s) \in Seq(Units) /\ Aligned(Tail(c2s))
         /\ Tail(c2s) # <<>> /\ Tail(c2s)[Len(Tail(c2s))] = RequestHead => cpc \in {"body", "gone"}
         /\ Tail(c2s) # <<>> => Len(c2s) > 1 /\ Tail(c2s)[1] = c2s[2]
         /\ Tail(c2s) = <<>> => Len(c2s) = 1
<1>1. c2s \in Seq(Units)
  BY DEF Form, TypeOK
<1>2. Tail(c2s) = SubSeq(c2s, 2, Len(c2s))
  BY <1>1, TailIsSubSeq
<1>3. 2 <= Len(c2s) + 1
  BY <1>1
<1>4. /\ Tail(c2s) \in Seq(Units) /\ Aligned(Tail(c2s))
      /\ Tail(c2s) # <<>> /\ Tail(c2s)[Len(Tail(c2s))] = RequestHead => cpc \in {"body", "gone"}
  BY <1>2, <1>3, ReadFrom
<1>5. /\ Tail(c2s) # <<>> => Len(c2s) > 1 /\ Tail(c2s)[1] = c2s[2]
      /\ Tail(c2s) = <<>> => Len(c2s) = 1
  <2>1. /\ Len(Tail(c2s)) = Len(c2s) - 1
        /\ \A i \in 1..Len(Tail(c2s)) : Tail(c2s)[i] = c2s[i + 1]
    BY <1>1, HeadTailProperties
  <2> DEFINE t == Tail(c2s)
  <2>2. t \in Seq(Units) /\ Len(t) = Len(c2s) - 1 /\ \A i \in 1..Len(t) : t[i] = c2s[i + 1]
    BY <1>4, <2>1
  <2> HIDE DEF t
  <2>3. Len(c2s) \in Nat /\ Len(t) \in Nat /\ (t = <<>> <=> Len(t) = 0)
    BY <1>1, <2>2
  <2>4. t # <<>> => 1 \in 1..Len(t) /\ Len(c2s) > 1
    BY <2>2, <2>3
  <2>5. t = <<>> => Len(c2s) = 1
    BY <2>2, <2>3
  <2>6. 1 + 1 = 2
    OBVIOUS
  <2>7. t # <<>> => t[1] = c2s[2]
    BY <2>2, <2>4, <2>6
  <2> QED BY <2>4, <2>5, <2>7 DEF t
<1> QED BY <1>2, <1>4, <1>5

LEMMA ReadHeadForm ==
  ASSUME Form, ReadHead
  PROVE  Form'
<1>1. spc = "head" /\ c2s # <<>> /\ IsMain(c2s[1]) /\ c2s' = Tail(c2s) /\ spc' = "body"
      /\ UNCHANGED <<s2c, open, sreq, taken, lob, clientVars>>
  BY DEF ReadHead
<1>2. /\ c2s' \in Seq(Units) /\ Aligned(c2s')
      /\ c2s' # <<>> /\ c2s'[Len(c2s')] = RequestHead => cpc \in {"body", "gone"}
      /\ c2s' # <<>> => Len(c2s) > 1 /\ c2s'[1] = c2s[2]
      /\ c2s' = <<>> => Len(c2s) = 1
  BY <1>1, ReadTail
<1>3. TypeOK'
  BY <1>1, <1>2 DEF Form, TypeOK, clientVars
<1>4. Written'
  BY <1>1, <1>2 DEF Written, clientVars
<1>5. Answers(s2c)' /\ Halves'
  BY <1>1 DEF Form, Answers, Halves, HeadLast, clientVars, proxyVars
<1>6. Bodies'
  <2>1. c2s \in Seq(Units) /\ Aligned(c2s) /\ 1 \in 1..Len(c2s)
    BY <1>1 DEF Form, TypeOK, Written
  <2>2. c2s[1] \in {RequestHead, ChunkHead, EndHead}
    BY <1>1, <2>1 DEF Aligned, IsMain
  <2>3. c2s[1] = RequestHead
    BY <1>1, <2>2, Heads
  <2>4. c2s' # <<>> => c2s'[1].unit = "request"
    <3>1. Len(c2s) > 1 => c2s[1 + 1].unit = "request"
      BY <2>1, <2>3 DEF Aligned
    <3> QED BY <1>2, <3>1
  <2>5. c2s' = <<>> => cpc \in {"body", "gone"}
    BY <1>1, <1>2, <2>3 DEF Form, Written
  <2>6. cpc' = cpc /\ req' = req
    BY <1>1 DEF clientVars
  <2> QED BY <1>1, <2>4, <2>5, <2>6 DEF Form, Bodies, Working
<1>7. Uploading'
  BY <1>1 DEF Form, Uploading, clientVars
<1> QED BY <1>3, <1>4, <1>5, <1>6, <1>7 DEF Form

LEMMA ReadBadForm ==
  ASSUME Form, ReadBad
  PROVE  Form'
<1>1. spc = "head" /\ c2s # <<>> /\ c2s' = Tail(c2s) /\ spc' = "ended" /\ open' = FALSE
      /\ UNCHANGED <<s2c, sreq, taken, lob, clientVars>>
  BY DEF ReadBad, EndSession
<1>2. c2s' \in Seq(Units)
  BY <1>1, ReadTail
<1>3. TypeOK'
  BY <1>1, <1>2 DEF Form, TypeOK, clientVars
<1>4. Answers(s2c)' /\ Halves'
  BY <1>1 DEF Form, Answers, Halves, HeadLast, clientVars, proxyVars
<1>5. Written' /\ Bodies' /\ Uploading'
  BY <1>1 DEF Form, Written, Bodies, Working, Uploading, clientVars
<1> QED BY <1>3, <1>4, <1>5 DEF Form

(* What is read where a body is due is a request.                          *)
LEMMA RequestRead ==
  ASSUME Form, spc = "body", c2s # <<>>
  PROVE  c2s[1].of \in Requests
<1>1. c2s \in Seq(Units) /\ 1 \in 1..Len(c2s) /\ c2s[1].unit = "request"
  BY DEF Form, TypeOK, Bodies
<1>2. c2s[1] \in Units
  BY <1>1, ElementOfSeq
<1> QED BY <1>1, <1>2, UnitFacts

LEMMA ReadBodyForm ==
  ASSUME Form, ReadBody \/ ReadBodyRefused
  PROVE  Form'
<1>1. spc = "body" /\ c2s # <<>> /\ c2s' = Tail(c2s) /\ sreq' = c2s[1].of
      /\ open' \in {(open \/ sreq'.kind = "open"), FALSE} /\ spc' \in {"task", "reply"}
      /\ taken' \in {<<>>, taken} /\ lob' \in {<<>>, lob} /\ UNCHANGED <<s2c, clientVars>>
  BY DEF ReadBody, ReadBodyRefused, EndSession
<1>2. /\ c2s' \in Seq(Units) /\ Aligned(c2s')
      /\ c2s' # <<>> /\ c2s'[Len(c2s')] = RequestHead => cpc \in {"body", "gone"}
  BY <1>1, ReadTail
<1>3. sreq' \in Requests
  BY <1>1, RequestRead
<1>4. TypeOK'
  <2>1. <<>> \in Seq(Units) /\ <<>> \in Seq(Seq(Units))
    OBVIOUS
  <2>2. open' \in BOOLEAN
    BY <1>1, Zenon
  <2> QED BY <1>1, <1>2, <1>3, <2>1, <2>2 DEF Form, TypeOK, clientVars
<1>5. Written'
  BY <1>1, <1>2 DEF Written, clientVars
<1>6. Answers(s2c)' /\ Halves'
  BY <1>1 DEF Form, Answers, Halves, HeadLast, clientVars, proxyVars
<1>7. Bodies' /\ Uploading'
  BY <1>1, <1>3 DEF Form, Bodies, Working, Uploading, clientVars
<1> QED BY <1>4, <1>5, <1>6, <1>7 DEF Form

(* An executor that reads finds the body with its head.                    *)
LEMMA WholePackage ==
  ASSUME Form, spc # "ended", ~Starved, IsHead(c2s[1])
  PROVE  c2s # <<>> /\ c2s[1].len \in 0..1 /\ 1 + c2s[1].len <= Len(c2s)
<1>1. c2s # <<>> /\ c2s # <<RequestHead>>
  BY DEF Starved, RequestPackage, RequestHead
<1>2. c2s \in Seq(Units) /\ Aligned(c2s) /\ 1 \in 1..Len(c2s) /\ Len(c2s) \in Nat
  BY <1>1 DEF Form, TypeOK, Written
<1>3. /\ c2s[1] \in {RequestHead, ChunkHead, EndHead}
      /\ c2s[1] = ChunkHead => 1 < Len(c2s)
  BY <1>2 DEF Aligned
<1>4. ASSUME c2s[1] = RequestHead, Len(c2s) = 1
      PROVE  FALSE
  <2>1. <<RequestHead>> \in Seq(Units) /\ Len(<<RequestHead>>) = 1
        /\ <<RequestHead>>[1] = RequestHead
    BY Heads
  <2> DEFINE t == <<RequestHead>>
  <2>2. t \in Seq(Units) /\ Len(t) = Len(c2s) /\ t[1] = c2s[1]
    BY <1>4, <2>1
  <2> HIDE DEF t
  <2>3. \A i \in 1..Len(c2s) : c2s[i] = t[i]
    BY <1>4, <2>2
  <2>4. c2s = t
    BY <1>2, <2>2, <2>3, SeqEqual
  <2> QED BY <1>1, <2>4 DEF t
<1>5. CASE c2s[1] = RequestHead
  <2>1. Len(c2s) # 1
    BY <1>4, <1>5
  <2>2. c2s[1].len = 1
    BY <1>5, Heads
  <2>3. Len(c2s) \in Nat /\ 1 <= Len(c2s)
    BY <1>2
  <2>4. \A n \in Nat : 1 <= n /\ n # 1 => 2 <= n
    OBVIOUS
  <2>5. 2 <= Len(c2s)
    BY <2>1, <2>3, <2>4, Zenon
  <2>6. c2s[1].len \in 0..1 /\ 1 + c2s[1].len = 2
    BY <2>2
  <2> QED BY <1>1, <2>5, <2>6, Zenon
<1>6. CASE c2s[1] = ChunkHead
  <2>1. c2s[1].len = 1
    BY <1>6, Heads
  <2> QED BY <1>1, <1>2, <1>3, <1>6, <2>1
<1>7. CASE c2s[1] = EndHead
  <2>1. c2s[1].len = 0
    BY <1>7, Heads
  <2> QED BY <1>1, <1>2, <2>1
<1> QED BY <1>3, <1>5, <1>6, <1>7

LEMMA TaskReadForm ==
  ASSUME Form, TaskRead
  PROVE  Form'
<1> DEFINE len  == c2s[1].len
           data == lob \o SubSeq(c2s, 2, 1 + len)
<1>1. spc = "task" /\ ~Starved /\ IsHead(c2s[1]) /\ c2s' = SubSeq(c2s, 2 + len, Len(c2s))
      /\ UNCHANGED <<s2c, spc, open, sreq, clientVars>>
  BY DEF TaskRead, WantsStream
<1>2. \/ lob' = data /\ taken' = taken
      \/ lob' = <<>> /\ taken' = Append(taken, data)
  BY DEF TaskRead
<1>3. c2s # <<>> /\ len \in 0..1 /\ 1 + len <= Len(c2s)
  BY <1>1, WholePackage
<1> HIDE DEF len
<1>4. c2s \in Seq(Units) /\ lob \in Seq(Units) /\ taken \in Seq(Seq(Units))
  BY DEF Form, TypeOK
<1>5. data \in Seq(Units)
  <2>1. \A i \in 2..(1 + len) : c2s[i] \in Units
    BY <1>3, <1>4
  <2>2. SubSeq(c2s, 2, 1 + len) \in Seq(Units)
    <3>1. 2 \in Int /\ 1 + len \in Int
      BY <1>3
    <3> QED BY <2>1, <3>1, SubSeqProperties
  <2> QED BY <1>4, <2>2, ConcatProperties
<1> HIDE DEF data
<1>6. lob' \in Seq(Units) /\ taken' \in Seq(Seq(Units))
  <2>1. Append(taken, data) \in Seq(Seq(Units)) /\ <<>> \in Seq(Units)
    BY <1>4, <1>5, AppendProperties
  <2> QED BY <1>2, <1>4, <1>5, <2>1
<1>7. /\ c2s' \in Seq(Units) /\ Aligned(c2s')
      /\ c2s' # <<>> /\ c2s'[Len(c2s')] = RequestHead => cpc \in {"body", "gone"}
  <2>1. 2 + len \in {2, 3} /\ 2 + len <= Len(c2s) + 1
    BY <1>3, <1>4
  <2> QED BY <1>1, <1>3, <2>1, ReadFrom
<1>8. TypeOK'
  BY <1>1, <1>6, <1>7 DEF Form, TypeOK, clientVars
<1>9. Written'
  BY <1>1, <1>7 DEF Written, clientVars
<1>10. Answers(s2c)' /\ Halves'
  BY <1>1 DEF Form, Answers, Halves, HeadLast, clientVars, proxyVars
<1>11. Bodies' /\ Uploading'
  BY <1>1 DEF Form, Bodies, Working, Uploading, clientVars
<1> QED BY <1>8, <1>9, <1>10, <1>11 DEF Form

(* The client reads.                                                       *)
LEMMA RecvHeadForm ==
  ASSUME Form, RecvHead
  PROVE  Form'
<1>1. s2c # <<>> /\ IsMain(s2c[1]) /\ s2c' = Tail(s2c) /\ cpc \in {"reply", "last"}
      /\ cpc' = "answer" /\ UNCHANGED <<c2s, req, sent, got, failed, cut, proxyVars>>
  BY DEF RecvHead
<1>2. s2c \in Seq(Units) /\ Answers(s2c) /\ 2 \in {2, 3}
  BY DEF Form, TypeOK
<1>3. s2c' \in Seq(Units) /\ Answers(s2c') /\ (HeadLast(s2c') => HeadLast(s2c))
  <2>1. s2c' = SubSeq(s2c, 2, Len(s2c))
    BY <1>1, <1>2, TailIsSubSeq
  <2> DEFINE r == SubSeq(s2c, 2, Len(s2c))
  <2>2. r \in Seq(Units) /\ Answers(r) /\ (HeadLast(r) => HeadLast(s2c))
    BY <1>1, <1>2, LongSuffix
  <2> HIDE DEF r
  <2> QED BY <2>1, <2>2 DEF r
<1>4. IF s2c' = <<>> THEN HeadLast(s2c) ELSE s2c'[1].unit = "reply"
  <2>1. 1 \in 1..Len(s2c) /\ Len(s2c') = Len(s2c) - 1 /\ Len(s2c) \in Nat
        /\ \A i \in 1..Len(s2c') : s2c'[i] = s2c[i + 1]
    BY <1>1, <1>2, HeadTailProperties
  <2>2. CASE s2c' = <<>>
    <3>1. Len(s2c) = 1
      BY <2>1, <2>2
    <3> QED BY <1>1, <2>2, <3>1 DEF HeadLast
  <2>3. CASE s2c' # <<>>
    <3>1. 1 < Len(s2c) /\ 1 \in 1..Len(s2c') /\ s2c'[1] = s2c[1 + 1]
      BY <1>3, <2>1, <2>3
    <3> QED BY <1>1, <1>2, <2>1, <2>3, <3>1 DEF Answers
  <2> QED BY <2>2, <2>3
<1>5. TypeOK'
  BY <1>1, <1>3 DEF Form, TypeOK, proxyVars
<1>6. Written'
  BY <1>1 DEF Form, Written, proxyVars
<1>7. Answers(s2c)' /\ Halves'
  <2>1. HeadLast(s2c)' = HeadLast(s2c')
    BY DEF HeadLast
  <2> QED BY <1>1, <1>3, <1>4, <2>1 DEF Form, Answers, Halves, proxyVars
<1>8. Bodies' /\ Uploading'
  BY <1>1 DEF Form, Bodies, Working, Uploading, proxyVars
<1> QED BY <1>5, <1>6, <1>7, <1>8 DEF Form

LEMMA RecvReplyForm ==
  ASSUME Form, RecvReply
  PROVE  Form'
<1>1. cpc = "answer" /\ s2c # <<>> /\ s2c' = Tail(s2c) /\ got' = s2c[1].of.id
      /\ cpc' = AfterCall /\ UNCHANGED <<c2s, req, sent, failed, cut, proxyVars>>
  BY DEF RecvReply, Return
<1>2. s2c \in Seq(Units) /\ Answers(s2c) /\ 2 \in {2, 3}
  BY DEF Form, TypeOK
<1>3. s2c' \in Seq(Units) /\ Answers(s2c') /\ (HeadLast(s2c') => HeadLast(s2c))
  <2>1. s2c' = SubSeq(s2c, 2, Len(s2c))
    BY <1>1, <1>2, TailIsSubSeq
  <2> DEFINE r == SubSeq(s2c, 2, Len(s2c))
  <2>2. r \in Seq(Units) /\ Answers(r) /\ (HeadLast(r) => HeadLast(s2c))
    BY <1>1, <1>2, LongSuffix
  <2> HIDE DEF r
  <2> QED BY <2>1, <2>2 DEF r
<1>4. got' \in 0..MaxRequests
  <2>1. 1 \in 1..Len(s2c) /\ s2c[1].unit = "reply"
    BY <1>1, <1>2 DEF Form, Halves
  <2>2. s2c[1] \in Units
    BY <1>2, <2>1, ElementOfSeq
  <2>3. s2c[1].of \in Requests
    BY <2>1, <2>2, UnitFacts
  <2> QED BY <1>1, <2>3, RequestFacts
<1>5. cpc' \in {"idle", "gone"}
  BY <1>1 DEF AfterCall
<1>6. TypeOK'
  BY <1>1, <1>3, <1>4, <1>5 DEF Form, TypeOK, proxyVars
<1>7. Written'
  BY <1>1 DEF Form, Written, proxyVars
<1>8. Answers(s2c)' /\ Halves'
  <2>1. HeadLast(s2c)' = HeadLast(s2c')
    BY DEF HeadLast
  <2> QED BY <1>1, <1>3, <1>5, <2>1 DEF Form, Answers, Halves, proxyVars
<1>9. Bodies' /\ Uploading'
  BY <1>1, <1>5 DEF Form, Bodies, Working, Uploading, proxyVars
<1> QED BY <1>6, <1>7, <1>8, <1>9 DEF Form

LEMMA RecvLobForm ==
  ASSUME Form, RecvLob
  PROVE  Form'
<1>1. cpc \in {"reply", "more"} /\ s2c # <<>> /\ IsHead(s2c[1])
      /\ s2c' = SubSeq(s2c, 2 + s2c[1].len, Len(s2c)) /\ cpc' \in {"more", "last"}
      /\ UNCHANGED <<c2s, req, sent, got, failed, cut, proxyVars>>
  BY DEF RecvLob
<1>2. s2c \in Seq(Units) /\ Answers(s2c) /\ 1 \in 1..Len(s2c)
  BY <1>1 DEF Form, TypeOK
<1>3. 2 + s2c[1].len \in {2, 3}
  <2>1. s2c[1] \in Units
    BY <1>2, ElementOfSeq
  <2>2. s2c[1].len \in 0..1
    BY <1>1, <2>1, UnitFacts
  <2> QED BY <2>2
<1>4. s2c' \in Seq(Units) /\ Answers(s2c') /\ (HeadLast(s2c') => HeadLast(s2c))
  BY <1>1, <1>2, <1>3, LongSuffix
<1>5. TypeOK'
  BY <1>1, <1>4 DEF Form, TypeOK, proxyVars
<1>6. Written'
  BY <1>1 DEF Form, Written, proxyVars
<1>7. Answers(s2c)' /\ Halves'
  <2>1. HeadLast(s2c)' = HeadLast(s2c')
    BY DEF HeadLast
  <2> QED BY <1>1, <1>4, <2>1 DEF Form, Answers, Halves, proxyVars
<1>8. Bodies' /\ Uploading'
  BY <1>1 DEF Form, Bodies, Working, Uploading, proxyVars
<1> QED BY <1>5, <1>6, <1>7, <1>8 DEF Form

LEMMA RecvBadForm ==
  ASSUME Form, RecvBad
  PROVE  Form'
<1>1. cpc \in {"reply", "more", "last"} /\ s2c # <<>> /\ s2c' \in {s2c, Tail(s2c)}
      /\ UNCHANGED <<c2s, req, sent, proxyVars>>
      /\ cpc' \in {"idle", "gone"} /\ got' = 0 /\ failed' = TRUE
  BY DEF RecvBad, SocketError, AfterCall
<1>2. cut' \in BOOLEAN
  BY DEF RecvBad, SocketError, Form, TypeOK
<1>3. s2c \in Seq(Units) /\ Answers(s2c)
  BY DEF Form, TypeOK
<1>4. s2c' \in Seq(Units) /\ Answers(s2c') /\ (HeadLast(s2c') => HeadLast(s2c))
  <2> DEFINE r == SubSeq(s2c, 2, Len(s2c))
  <2>1. Tail(s2c) = r /\ 2 \in {2, 3}
    BY <1>1, <1>3, TailIsSubSeq
  <2>2. r \in Seq(Units) /\ Answers(r) /\ (HeadLast(r) => HeadLast(s2c))
    BY <1>1, <1>3, <2>1, LongSuffix
  <2> HIDE DEF r
  <2> QED BY <1>1, <1>3, <2>1, <2>2
<1>5. TypeOK'
  <2>1. 0 \in 0..MaxRequests
    BY BoundsAssumption
  <2> QED BY <1>1, <1>2, <1>4, <2>1 DEF Form, TypeOK, proxyVars
<1>6. Written'
  BY <1>1 DEF Form, Written, proxyVars
<1>7. Answers(s2c)' /\ Halves'
  <2>1. HeadLast(s2c)' = HeadLast(s2c')
    BY DEF HeadLast
  <2> QED BY <1>1, <1>4, <2>1 DEF Form, Answers, Halves, proxyVars
<1>8. Bodies' /\ Uploading'
  BY <1>1 DEF Form, Bodies, Working, Uploading, proxyVars
<1> QED BY <1>5, <1>6, <1>7, <1>8 DEF Form

(* The proxy writes.                                                       *)
LEMMA AnswersForm ==
  ASSUME Form, NEW t \in Seq(Units), t # <<>>, Answers(t), s2c' = s2c \o t,
         HeadLast(s2c) => t[1].unit = "reply"
  PROVE  /\ s2c' \in Seq(Units) /\ s2c' # <<>> /\ Answers(s2c')
         /\ ~HeadLast(t) => ~HeadLast(s2c')
         /\ s2c # <<>> => s2c'[1] = s2c[1]
         /\ s2c = <<>> => s2c' = t
<1>1. s2c \in Seq(Units) /\ Answers(s2c)
  BY DEF Form, TypeOK
<1>2. Answers(s2c') /\ (~HeadLast(t) => ~HeadLast(s2c'))
  BY <1>1, JoinForms
<1>3. /\ s2c' \in Seq(Units) /\ s2c' # <<>>
      /\ s2c # <<>> => s2c'[1] = s2c[1]
      /\ s2c = <<>> => s2c' = t
  BY <1>1, Longer
<1> QED BY <1>2, <1>3

LEMMA ProxyWritesForm ==
  ASSUME Form, WriteHead \/ WriteReply \/ TaskWriteFull \/ TaskWriteEnd
  PROVE  Form'
<1>1. /\ spc \in {"reply", "write", "task"} /\ spc' \in {"head", "task", "reply", "write", "ended"}
      /\ UNCHANGED <<c2s, sreq, taken, clientVars>> /\ open' \in {open, FALSE}
      /\ lob' \in {lob, Append(lob, Gzip)}
      /\ spc' \in {"task", "reply", "write"} => spc \in {"task", "reply"}
  BY DEF WriteHead, WriteReply, TaskWriteFull, TaskWriteEnd, GoOn, EndSession
<1>2. s2c \in Seq(Units) /\ (spc # "write" => ~HeadLast(s2c))
  BY <1>1 DEF Form, TypeOK, Halves
<1>3. /\ s2c' \in Seq(Units) /\ s2c' # <<>> /\ Answers(s2c')
      /\ HeadLast(s2c') => spc' = "write"
      /\ s2c # <<>> => s2c'[1] = s2c[1]
      /\ s2c = <<>> => spc # "write" \/ s2c'[1].unit = "reply"
  <2>1. CASE WriteHead
    <3>1. s2c' = s2c \o <<ReplyHead>> /\ <<ReplyHead>> \in Seq(Units) /\ <<ReplyHead>> # <<>>
          /\ Answers(<<ReplyHead>>) /\ spc' = "write" /\ spc = "reply"
      BY <1>2, <2>1, ReplyPieces, AppendIsConcat DEF WriteHead
    <3> DEFINE e == <<ReplyHead>>
    <3>2. s2c' = s2c \o e /\ e \in Seq(Units) /\ e # <<>> /\ Answers(e)
      BY <3>1
    <3> HIDE DEF e
    <3> QED BY <1>2, <3>1, <3>2, AnswersForm
  <2>2. CASE WriteReply
    <3> DEFINE b == Piece("reply", sreq)
               e == <<b>>
    <3>1. sreq \in Requests /\ s2c' = Append(s2c, b)
      BY <2>2 DEF WriteReply, Form, Bodies, Working
    <3>2. /\ b \in Units /\ b.unit = "reply"
          /\ e \in Seq(Units) /\ e # <<>> /\ e[1] = b /\ Answers(e) /\ ~HeadLast(e)
      BY <3>1, ReplyPieces
    <3> HIDE DEF b
    <3>3. s2c' = s2c \o e
      BY <1>2, <3>1, <3>2, AppendIsConcat
    <3> HIDE DEF e
    <3> QED BY <3>2, <3>3, AnswersForm
  <2>3. CASE TaskWriteFull \/ TaskWriteEnd
    <3>1. PICK e \in {FullPackage, LastPackage, NoPackage} : s2c' = s2c \o e
      BY <2>3 DEF TaskWriteFull, TaskWriteEnd
    <3>2. e \in Seq(Units) /\ Answers(e) /\ ~HeadLast(e) /\ Len(e) \in {1, 3}
      BY LobPackages
    <3>3. e # <<>>
      BY <3>2, EmptySeq
    <3>4. spc = "task"
      BY <2>3 DEF TaskWriteFull, TaskWriteEnd
    <3> QED BY <1>2, <3>1, <3>2, <3>3, <3>4, AnswersForm
  <2> QED BY <2>1, <2>2, <2>3
<1>4. lob' \in Seq(Units)
  <2>1. lob \in Seq(Units)
    BY DEF Form, TypeOK
  <2>2. Append(lob, Gzip) \in Seq(Units)
    BY <2>1, Gzips, AppendProperties
  <2> QED BY <1>1, <2>1, <2>2
<1>5. TypeOK'
  BY <1>1, <1>3, <1>4 DEF Form, TypeOK, clientVars
<1>6. Written'
  BY <1>1 DEF Form, Written, clientVars
<1>7. Answers(s2c)' /\ Halves'
  <2>1. HeadLast(s2c)' = HeadLast(s2c') /\ Answers(s2c)' = Answers(s2c')
    BY DEF HeadLast, Answers
  <2>2. cpc' = "answer" => s2c' # <<>> /\ s2c'[1].unit = "reply"
    BY <1>1, <1>3 DEF Form, Halves, clientVars
  <2> QED BY <1>3, <2>1, <2>2 DEF Halves
<1>8. Bodies' /\ Uploading'
  BY <1>1 DEF Form, Bodies, Working, Uploading, clientVars
<1> QED BY <1>5, <1>6, <1>7, <1>8 DEF Form

LEMMA FormStep == Form /\ [Next]_vars => Form'
<1> SUFFICES ASSUME Form, [Next]_vars PROVE Form'
  OBVIOUS
<1>1. CASE Client
  BY <1>1, CallForm, SendBodyForm, SendChunkForm, SendEndForm, CallsEndForm, RecvHeadForm,
     RecvReplyForm, RecvLobForm, RecvBadForm DEF Client
<1>2. CASE Fiber
  BY <1>2, ReadHeadForm, ReadBadForm, ReadBodyForm, ProxyRestsForm,
     ProxyWritesForm DEF Fiber
<1>3. CASE Task
  BY <1>3, TaskReadForm, ProxyRestsForm, ProxyWritesForm DEF Task
<1>4. CASE UNCHANGED vars
  BY <1>4 DEF vars, clientVars, proxyVars, Form, TypeOK, Written, Answers, Halves,
              HeadLast, Bodies, Working, Uploading
<1> QED BY <1>1, <1>2, <1>3, <1>4 DEF Next

-----------------------------------------------------------------------------
(* Client and proxy, as long as no call has failed.                        *)

(* The head of the client's request is the only one, and its body follows  *)
(* as soon as it is written.                                               *)
OneHead ==
  \E p \in 1..Len(c2s) :
    /\ \A i \in 1..Len(c2s) : IsMain(c2s[i]) => i = p
    /\ IF cpc = "body" THEN p = Len(c2s)
       ELSE p < Len(c2s) /\ c2s[p + 1] = Piece("request", req)

(* The client waits, and the proxy has written nothing.                    *)
Waiting == cpc \in {"body", "upload", "reply"} /\ s2c = <<>>

(* The packages of a large object the client has not read: those that end  *)
(* it and the answer, or one with a body that is longer than announced.    *)
Rest(s, answer) ==
  /\ s # <<>> /\ IsHead(s[1]) /\ s[1].type = 1 /\ s[1].len \in 0..1
  /\ s[1].next \in BOOLEAN
  /\ ~s[1].next => s = NoPackage \o answer
  /\ s[1].next => s[1].len + 2 <= Len(s) /\ s[s[1].len + 2] = Gzip

(* What is on the way to the client, when it has the answer ahead.         *)
Ahead(answer) ==
  \/ cpc \in {"upload", "reply", "last"} /\ s2c = answer
  \/ cpc = "reply" /\ req.kind = "read" /\ Rest(s2c, answer)
  \/ cpc = "more" /\ req.kind = "read" /\ s2c # <<>> /\ s2c[1] = Gzip
  \/ cpc = "answer" /\ answer # <<>> /\ s2c = Tail(answer)

(* Between two calls.                                                      *)
Resting ==
  /\ cpc = "idle" /\ s2c = <<>> /\ NoMain(c2s)
  /\ spc \in {"head", "ended", "hung"}
  /\ got = req.id \/ (got = 0 /\ spc = "ended" /\ sreq = req)

(* The proxy will not answer.                                              *)
Stuck == Waiting /\ spc \in {"ended", "hung"}

(* The proxy reads heads: the request comes, or its head was lost.         *)
Coming == Waiting /\ spc = "head" /\ (NoMain(c2s) \/ OneHead)

(* It has read the head of the request.                                    *)
Entering ==
  /\ Waiting /\ spc = "body" /\ NoMain(c2s)
  /\ IF cpc = "body" THEN c2s = <<>>
     ELSE c2s # <<>> /\ c2s[1] = Piece("request", req)

(* The plugin is at it, and has written at most packages that go on.       *)
Served ==
  /\ Ahead(<<>>) /\ spc \in {"task", "reply"} /\ NoMain(c2s) /\ sreq = req
  /\ spc = "task" =>
       cpc # "last" /\ (s2c # <<>> => s2c[1] = Gzip \/ (IsHead(s2c[1]) /\ s2c[1].next))

(* The reply is written, or its head is, or nothing more will be.          *)
Parts == {<<>>, <<ReplyHead>>, ReplyPackage(req)}
Produced(answer) ==
  /\ answer # <<>> => sreq = req
  /\ \/ answer = <<ReplyHead>> /\ spc = "write"
     \/ answer = ReplyPackage(req) /\ spc = "head"
     \/ spc = "ended"
Replied == NoMain(c2s) /\ \E answer \in Parts : Ahead(answer) /\ Produced(answer)

Paired == Resting \/ Stuck \/ Coming \/ Entering \/ Served \/ Replied

Inv == Form /\ (~failed /\ cpc # "gone" => Paired)

LEMMA PairedInit == Init => Paired
BY DEF Init, Paired, Resting, NoMain, NoRequest

LEMMA CallPaired ==
  ASSUME Form, Paired, NEW r \in Requests, Call(r)
  PROVE  Paired'
<1>1. /\ cpc = "idle" /\ cpc' = "body" /\ c2s' = c2s \o <<RequestHead>>
      /\ s2c' = s2c /\ spc' = spc
  <2>1. c2s' = Append(c2s, RequestHead)
    BY DEF Call, RequestPackage, RequestHead
  <2>2. Append(c2s, RequestHead) = c2s \o <<RequestHead>>
    BY Heads, AppendIsConcat DEF Form, TypeOK
  <2> QED BY <2>1, <2>2 DEF Call, proxyVars
<1>2. Resting
  BY <1>1 DEF Paired, Stuck, Coming, Entering, Served, Replied, Waiting, Ahead
<1>3. Waiting'
  BY <1>1, <1>2 DEF Waiting, Resting
<1>4. CASE spc \in {"ended", "hung"}
  BY <1>1, <1>3, <1>4 DEF Paired, Stuck
<1>5. CASE spc = "head"
  <2> DEFINE t == <<RequestHead>>
             p == Len(c2s) + 1
  <2>1. c2s \in Seq(Units) /\ t \in Seq(Units) /\ Len(t) = 1
    BY Heads DEF Form, TypeOK
  <2> HIDE DEF t
  <2>2. /\ Len(c2s') = Len(c2s) + 1 /\ Len(c2s) \in Nat
        /\ \A i \in 1..Len(c2s) : c2s'[i] = c2s[i]
    BY <1>1, <2>1, Joined DEF t
  <2>3. \A i \in 1..Len(c2s) : ~IsMain(c2s'[i])
    BY <1>2, <2>2 DEF Resting, NoMain
  <2>4. p \in 1..Len(c2s') /\ p = Len(c2s') /\ \A i \in 1..Len(c2s') : IsMain(c2s'[i]) => i = p
    BY <2>2, <2>3
  <2> HIDE DEF p
  <2>5. OneHead'
    BY <1>1, <2>4 DEF OneHead
  <2> QED BY <1>1, <1>3, <1>5, <2>5 DEF Paired, Coming
<1> QED BY <1>2, <1>4, <1>5 DEF Resting

(* The client appends a package without a request's head.                  *)
LEMMA HeadStays ==
  ASSUME Form, OneHead, cpc # "body", NEW t \in Seq(Units), NoMain(t), t # <<>>,
         c2s' = c2s \o t, req' = req, cpc' # "body"
  PROVE  OneHead'
<1>1. PICK p \in 1..Len(c2s) :
        /\ \A i \in 1..Len(c2s) : IsMain(c2s[i]) => i = p
        /\ p < Len(c2s) /\ c2s[p + 1] = Piece("request", req)
  BY DEF OneHead
<1>2. c2s \in Seq(Units)
  BY DEF Form, TypeOK
<1>3. /\ Len(c2s') = Len(c2s) + Len(t) /\ Len(c2s) \in Nat /\ Len(t) \in Nat
      /\ \A i \in 1..Len(c2s) : c2s'[i] = c2s[i]
      /\ \A i \in 1..Len(c2s') : i > Len(c2s) => c2s'[i] = t[i - Len(c2s)]
  BY <1>2, Joined
<1>4. p \in 1..Len(c2s') /\ p < Len(c2s') /\ p + 1 \in 1..Len(c2s)
  BY <1>1, <1>3
<1>5. c2s'[p + 1] = Piece("request", req')
  BY <1>1, <1>3, <1>4
<1>6. ASSUME NEW i \in 1..Len(c2s'), IsMain(c2s'[i])
      PROVE  i = p
  <2>1. CASE i <= Len(c2s)
    <3>1. i \in 1..Len(c2s)
      BY <1>3, <2>1
    <3> QED BY <1>1, <1>3, <1>6, <3>1
  <2>2. CASE i > Len(c2s)
    <3>1. i - Len(c2s) \in 1..Len(t)
      BY <1>3, <2>2
    <3> QED BY <1>3, <1>6, <2>2, <3>1 DEF NoMain
  <2> QED BY <1>3, <2>1, <2>2
<1> QED BY <1>4, <1>5, <1>6 DEF OneHead

LEMMA SendBodyPaired ==
  ASSUME Form, Paired, SendBody
  PROVE  Paired'
<1> DEFINE b == Piece("request", req)
<1>1. /\ cpc = "body" /\ cpc' \in {"reply", "upload"} /\ c2s' = c2s \o <<b>>
      /\ s2c' = s2c /\ spc' = spc /\ req' = req /\ req \in Requests
  <2>1. c2s' = Append(c2s, b) /\ cpc = "body"
    BY DEF SendBody, RequestPackage
  <2>2. req \in Requests
    BY <2>1 DEF Form, Bodies
  <2>3. b \in Units
    BY <2>2, Pieces
  <2>4. Append(c2s, b) = c2s \o <<b>>
    BY <2>3, AppendIsConcat DEF Form, TypeOK
  <2> QED BY <2>1, <2>2, <2>4 DEF SendBody, proxyVars
<1>2. c2s \in Seq(Units) /\ <<b>> \in Seq(Units) /\ NoMain(<<b>>) /\ <<b>> # <<>>
      /\ <<b>>[1] = b /\ Len(<<b>>) = 1
  BY <1>1, ClientPackages DEF Form, TypeOK
<1> DEFINE t == <<b>>
<1>3. t \in Seq(Units) /\ NoMain(t) /\ t # <<>> /\ t[1] = b /\ Len(t) = 1 /\ c2s' = c2s \o t
  BY <1>1, <1>2
<1> HIDE DEF t
<1>4. Stuck \/ Coming \/ Entering
  BY <1>1 DEF Paired, Resting, Served, Replied, Ahead
<1>5. Waiting'
  BY <1>1, <1>4 DEF Stuck, Coming, Entering, Waiting
<1>6. CASE Stuck
  BY <1>1, <1>5, <1>6 DEF Paired, Stuck
<1>7. NoMain(c2s) => NoMain(c2s')
  BY <1>2, <1>3, JoinForms
<1>8. CASE Coming /\ NoMain(c2s)
  <2>1. NoMain(c2s)'
    BY <1>7, <1>8 DEF NoMain
  <2> QED BY <1>1, <1>5, <1>8, <2>1 DEF Paired, Coming
<1>9. CASE Coming /\ OneHead
  <2>1. PICK p \in 1..Len(c2s) :
          p = Len(c2s) /\ \A i \in 1..Len(c2s) : IsMain(c2s[i]) => i = p
    BY <1>1, <1>9 DEF OneHead
  <2>2. /\ Len(c2s') = Len(c2s) + 1 /\ Len(c2s) \in Nat
        /\ \A i \in 1..Len(c2s) : c2s'[i] = c2s[i]
        /\ \A i \in 1..Len(t) : c2s'[Len(c2s) + i] = t[i]
    <3>1. /\ Len(c2s') = Len(c2s) + Len(t)
          /\ \A i \in 1..Len(c2s) : c2s'[i] = c2s[i]
          /\ \A i \in 1..Len(t) : c2s'[Len(c2s) + i] = t[i]
      BY <1>2, <1>3, Joined, Zenon
    <3> QED BY <1>2, <1>3, <3>1
  <2>3. c2s'[p + 1] = b /\ ~IsMain(b)
    BY <1>3, <2>1, <2>2 DEF NoMain
  <2>4. p \in 1..Len(c2s') /\ p < Len(c2s') /\ c2s'[p + 1] = Piece("request", req')
    BY <1>1, <2>1, <2>2, <2>3
  <2>5. \A i \in 1..Len(c2s') : IsMain(c2s'[i]) => i = p
    <3> TAKE i \in 1..Len(c2s')
    <3>1. i \in 1..Len(c2s) \/ i = p + 1
      BY <2>1, <2>2
    <3> QED BY <2>1, <2>2, <2>3, <3>1
  <2>6. OneHead'
    BY <1>1, <2>4, <2>5 DEF OneHead
  <2> QED BY <1>1, <1>5, <1>9, <2>6 DEF Paired, Coming
<1>10. CASE Entering
  <2>1. c2s = <<>> /\ NoMain(c2s) /\ spc = "body"
    BY <1>1, <1>10 DEF Entering
  <2>2. c2s' = t
    BY <1>2, <1>3, <2>1, Longer
  <2>3. NoMain(c2s)' /\ c2s' # <<>> /\ c2s'[1] = Piece("request", req')
    BY <1>1, <1>3, <2>2 DEF NoMain
  <2> QED BY <1>1, <1>5, <2>1, <2>3 DEF Paired, Entering
<1> QED BY <1>4, <1>6, <1>8, <1>9, <1>10 DEF Coming

(* A package of a stream.                                                  *)
LEMMA SendStreamPaired ==
  ASSUME Form, Paired, SendChunk \/ SendEnd
  PROVE  Paired'
<1>1. /\ cpc = "upload" /\ cpc' \in {"upload", "reply"}
      /\ s2c' = s2c /\ spc' = spc /\ req' = req /\ sreq' = sreq
  BY DEF SendChunk, SendEnd, proxyVars
<1>2. c2s \in Seq(Units)
  BY DEF Form, TypeOK
<1>3. PICK t \in Seq(Units) : NoMain(t) /\ t # <<>> /\ c2s' = c2s \o t
  <2>1. /\ req \in Requests /\ sent[1] \in 1..MaxStreams
        /\ req.lens[sent[1]] \in 0..MaxChunks /\ sent[2] \in 0..MaxChunks
        /\ sent = <<sent[1], sent[2]>>
    BY <1>1, StreamSent
  <2>2. CASE SendChunk
    <3>1. sent[2] < req.lens[sent[1]] /\ sent' = [sent EXCEPT ![2] = @ + 1]
          /\ c2s' = c2s \o ChunkPackage(req, sent[1], sent'[2])
      BY <2>2 DEF SendChunk
    <3>2. sent'[2] = sent[2] + 1
      BY <2>1, <3>1
    <3>3. sent'[2] \in 1..MaxChunks
      BY <2>1, <3>1, <3>2, BoundsAssumption
    <3>4. /\ ChunkPackage(req, sent[1], sent'[2]) \in Seq(Units)
          /\ NoMain(ChunkPackage(req, sent[1], sent'[2]))
          /\ Len(ChunkPackage(req, sent[1], sent'[2])) = 2
      BY <2>1, <3>3, ChunkPackages
    <3>5. ChunkPackage(req, sent[1], sent'[2]) # <<>>
      BY <3>4
    <3> QED BY <3>1, <3>4, <3>5
  <2>3. CASE SendEnd
    <3>1. c2s' = c2s \o EndPackage
      BY <2>3 DEF SendEnd
    <3>2. EndPackage \in Seq(Units) /\ NoMain(EndPackage) /\ Len(EndPackage) = 1
      BY <2>1, ClientPackages
    <3>3. EndPackage # <<>>
      BY <3>2
    <3> QED BY <3>1, <3>2, <3>3
  <2> QED BY <2>2, <2>3
<1>4. NoMain(c2s) => NoMain(c2s)'
  <2>1. NoMain(c2s) => NoMain(c2s')
    BY <1>2, <1>3, JoinForms
  <2> QED BY <2>1 DEF NoMain
<1>5. OneHead => OneHead'
  BY <1>1, <1>3, HeadStays
<1>6. c2s # <<>> => c2s' # <<>> /\ c2s'[1] = c2s[1]
  BY <1>2, <1>3, Longer
<1>7. Waiting => Waiting'
  BY <1>1 DEF Waiting
<1>8. CASE Stuck
  BY <1>1, <1>7, <1>8 DEF Paired, Stuck
<1>9. CASE Coming
  BY <1>1, <1>4, <1>5, <1>7, <1>9 DEF Paired, Coming
<1>10. CASE Entering
  BY <1>1, <1>4, <1>6, <1>7, <1>10 DEF Paired, Entering
<1>11. CASE Served
  <2>1. s2c = <<>>
    BY <1>1, <1>11 DEF Served, Ahead
  <2> QED BY <1>1, <1>4, <1>11, <2>1 DEF Paired, Served, Ahead
<1>12. CASE Replied
  <2>1. PICK answer \in Parts : s2c = answer /\ Produced(answer)
    BY <1>1, <1>12 DEF Replied, Ahead
  <2>2. answer \in Parts' /\ Produced(answer)' /\ Ahead(answer)'
    BY <1>1, <2>1 DEF Parts, ReplyPackage, Produced, Ahead
  <2> QED BY <1>4, <1>12, <2>2 DEF Paired, Replied
<1> QED BY <1>1, <1>8, <1>9, <1>10, <1>11, <1>12 DEF Paired, Resting

(* The client reads.                                                       *)
LEMMA PartsFacts ==
  ASSUME req \in Requests
  PROVE  /\ Parts \subseteq Seq(Units) /\ ReplyPackage(req) # <<>>
         /\ \A answer \in Parts : answer # <<>> => answer[1] = ReplyHead /\ IsMain(answer[1])
         /\ Tail(<<ReplyHead>>) = <<>>
         /\ Tail(ReplyPackage(req)) = <<Piece("reply", req)>>
         /\ <<Piece("reply", req)>>[1].of = req /\ Tail(<<Piece("reply", req)>>) = <<>>
<1> DEFINE p == ReplyPackage(req)
           h == <<ReplyHead>>
           b == Piece("reply", req)
           e == <<b>>
<1>1. p \in Seq(Units) /\ Len(p) = 2 /\ p[1] = ReplyHead /\ Tail(p) = e
  BY ReplyPackages
<1>2. h \in Seq(Units) /\ h[1] = ReplyHead /\ IsMain(ReplyHead) /\ Tail(h) = <<>>
  BY ReplyPieces
<1>3. b.of = req
  BY Pieces
<1>4. Parts = {<<>>, h, p}
  BY DEF Parts
<1> HIDE DEF p, h, b
<1>5. e[1] = b /\ Tail(e) = <<>>
  OBVIOUS
<1> HIDE DEF e
<1>6. p # <<>>
  <2>1. Len(p) = 2
    BY <1>1
  <2> QED BY <2>1
<1>7. <<>> \in Seq(Units)
  OBVIOUS
<1>8. Parts \subseteq Seq(Units)
  BY <1>1, <1>2, <1>4, <1>7
<1>9. \A answer \in Parts : answer # <<>> => answer[1] = ReplyHead /\ IsMain(answer[1])
  BY <1>1, <1>2, <1>4
<1>10. e[1].of = req
  BY <1>3, <1>5
<1> QED BY <1>1, <1>2, <1>5, <1>6, <1>8, <1>9, <1>10 DEF p, h, b, e

(* A waiting client has an answer before it, or none is on its way.        *)
LEMMA Reading ==
  ASSUME Paired, cpc \in {"reply", "more", "last", "answer"}, s2c # <<>> \/ cpc = "answer"
  PROVE  /\ NoMain(c2s)
         /\ \E answer \in Parts :
              /\ Ahead(answer)
              /\ Produced(answer) \/ (Served /\ answer = <<>>)
BY DEF Paired, Resting, Stuck, Coming, Entering, Waiting, Served, Replied, Parts

LEMMA RecvHeadPaired ==
  ASSUME Form, Paired, RecvHead
  PROVE  Paired'
<1>1. cpc \in {"reply", "last"} /\ s2c # <<>> /\ IsMain(s2c[1])
      /\ s2c' = Tail(s2c) /\ cpc' = "answer" /\ UNCHANGED <<c2s, req, spc, sreq>>
  BY DEF RecvHead, proxyVars
<1>2. s2c[1].type # 1
  BY <1>1 DEF IsMain
<1>3. PICK answer \in Parts : /\ Ahead(answer)
                              /\ Produced(answer) \/ (Served /\ answer = <<>>)
  BY <1>1, Reading
<1>4. s2c = answer
  <2>1. Ahead(answer)
    BY <1>3
  <2>2. ~Rest(s2c, answer)
    BY <1>2 DEF Rest
  <2> QED BY <1>1, <2>1, <2>2 DEF Ahead
<1>5. Produced(answer)
  BY <1>1, <1>3, <1>4
<1>6. Ahead(answer)'
  BY <1>1, <1>4 DEF Ahead
<1>7. answer \in Parts' /\ Produced(answer)'
  BY <1>1, <1>3, <1>5 DEF Parts, Produced, ReplyPackage
<1>8. NoMain(c2s)'
  <2>1. NoMain(c2s)
    BY <1>1, Reading
  <2> QED BY <1>1, <2>1 DEF NoMain
<1> QED BY <1>6, <1>7, <1>8 DEF Paired, Replied

LEMMA ReplyRead ==
  ASSUME Form, Paired, RecvReply
  PROVE  s2c = <<Piece("reply", req)>> /\ NoMain(c2s) /\ spc \in {"head", "ended"}
<1>1. cpc = "answer" /\ s2c # <<>>
  BY DEF RecvReply
<1>2. req \in Requests
  BY <1>1 DEF Form, Bodies
<1>3. PICK answer \in Parts : Ahead(answer) /\ NoMain(c2s)
                             /\ (Produced(answer) \/ (Served /\ answer = <<>>))
  BY <1>1, Reading
<1>4. answer # <<>> /\ s2c = Tail(answer) /\ Produced(answer)
  BY <1>1, <1>3 DEF Ahead
<1>5. answer # <<ReplyHead>>
  BY <1>1, <1>2, <1>4, PartsFacts
<1>6. answer = ReplyPackage(req)
  BY <1>3, <1>4, <1>5 DEF Parts
<1> QED BY <1>2, <1>3, <1>4, <1>5, <1>6, PartsFacts DEF Produced

LEMMA RecvReplyPaired ==
  ASSUME Form, Paired, RecvReply, cpc' # "gone"
  PROVE  Paired'
<1>1. cpc = "answer" /\ s2c' = Tail(s2c) /\ got' = s2c[1].of.id
      /\ cpc' = "idle" /\ UNCHANGED <<c2s, req, spc>>
  BY DEF RecvReply, Return, AfterCall, proxyVars
<1>2. req \in Requests
  BY <1>1 DEF Form, Bodies
<1>3. s2c = <<Piece("reply", req)>> /\ NoMain(c2s) /\ spc \in {"head", "ended"}
  BY ReplyRead
<1>4. s2c' = <<>> /\ got' = req'.id
  BY <1>1, <1>2, <1>3, PartsFacts
<1> QED BY <1>1, <1>3, <1>4 DEF Paired, Resting, NoMain

(* The body of the reply is lost.                                          *)
LEMMA RecvCutPaired ==
  ASSUME Form, Paired, RecvCut, cpc' # "gone"
  PROVE  Paired'
<1>1. cpc = "answer" /\ spc = "ended" /\ s2c' = <<>> /\ got' = 0 /\ cpc' = "idle"
      /\ UNCHANGED <<c2s, spc, req, sreq>>
  BY DEF RecvCut, Reset, Return, AfterCall, proxyVars
<1>2. NoMain(c2s) /\ sreq = req
  BY <1>1, Reading DEF Ahead, Produced
<1> QED BY <1>1, <1>2 DEF Paired, Resting, NoMain

LEMMA RecvLobPaired ==
  ASSUME Form, Paired, RecvLob
  PROVE  Paired'
<1> DEFINE m == 2 + s2c[1].len
<1>1. cpc \in {"reply", "more"} /\ s2c # <<>> /\ IsHead(s2c[1])
      /\ s2c' = SubSeq(s2c, m, Len(s2c)) /\ cpc' = (IF s2c[1].next THEN "more" ELSE "last")
      /\ (cpc = "reply" => s2c[1].type = 1 /\ req.kind = "read")
      /\ UNCHANGED <<c2s, req, spc, sreq>>
  BY DEF RecvLob, proxyVars
<1>2. s2c \in Seq(Units) /\ req \in Requests
  BY <1>1 DEF Form, TypeOK, Bodies
<1>3. s2c[1] # Gzip
  BY <1>1, Gzips
<1>4. PICK answer \in Parts : /\ Ahead(answer) /\ NoMain(c2s)
                              /\ Produced(answer) \/ (Served /\ answer = <<>>)
  BY <1>1, Reading
<1>5. cpc = "reply" /\ req.kind = "read" /\ Rest(s2c, answer)
  <2>1. cpc = "reply" /\ (s2c = answer \/ (req.kind = "read" /\ Rest(s2c, answer)))
    <3>1. Ahead(answer)
      BY <1>4
    <3>2. cpc # "more"
      BY <1>1, <1>3, <3>1 DEF Ahead
    <3> QED BY <1>1, <3>1, <3>2 DEF Ahead
  <2>2. s2c # answer
    <3>1. ~IsMain(s2c[1])
      BY <1>1, <2>1 DEF IsMain
    <3> QED BY <1>1, <1>2, <3>1, PartsFacts
  <2> QED BY <2>1, <2>2
<1>6. answer \in Seq(Units)
  BY <1>2, PartsFacts
<1>7. /\ answer \in Parts' /\ NoMain(c2s)'
      /\ Produced(answer) => Produced(answer)'
  <2>1. answer \in Parts /\ NoMain(c2s)
    BY <1>4
  <2>2. answer \in Parts'
    BY <1>1, <2>1 DEF Parts, ReplyPackage
  <2>3. NoMain(c2s)'
    BY <1>1, <2>1 DEF NoMain
  <2>4. Produced(answer) => Produced(answer)'
    BY <1>1 DEF Produced, ReplyPackage
  <2> QED BY <2>2, <2>3, <2>4
<1>8. CASE s2c[1].next
  <2>1. m <= Len(s2c) /\ s2c[m] = Gzip /\ m \in {2, 3}
    BY <1>5, <1>8 DEF Rest
  <2> HIDE DEF m
  <2>2. Len(s2c) \in Nat /\ m <= Len(s2c) + 1
    BY <1>2, <2>1
  <2>3. s2c' \in Seq(Units) /\ Len(s2c') = Len(s2c) - m + 1
        /\ \A i \in 1..Len(s2c') : s2c'[i] = s2c[i + m - 1]
    BY <1>1, <1>2, <2>1, <2>2, Dropped
  <2>4. 1 \in 1..Len(s2c') /\ 1 + m - 1 = m
    BY <2>1, <2>2, <2>3
  <2>5. s2c' # <<>> /\ s2c'[1] = Gzip
    BY <2>1, <2>3, <2>4
  <2>6. cpc' = "more" /\ req'.kind = "read"
    BY <1>1, <1>5, <1>8
  <2>7. Ahead(answer)' /\ Ahead(<<>>)'
    BY <2>5, <2>6 DEF Ahead, Gzip
  <2>8. CASE Served
    <3>1. Served'
      BY <1>1, <1>7, <2>5, <2>6, <2>7, <2>8 DEF Served, Gzip
    <3> QED BY <3>1 DEF Paired
  <2>9. CASE Produced(answer)
    BY <1>7, <2>7, <2>9 DEF Paired, Replied
  <2> QED BY <1>4, <2>8, <2>9
<1>9. CASE ~s2c[1].next
  <2>1. s2c = NoPackage \o answer
    BY <1>5, <1>9 DEF Rest
  <2>2. NoPackage \in Seq(Units) /\ Len(NoPackage) = 1 /\ NoPackage[1].len = 0
    BY LobPackages
  <2>3. /\ Len(s2c) = 1 + Len(answer) /\ s2c[1] = NoPackage[1]
        /\ \A i \in 1..Len(answer) : s2c[1 + i] = answer[i]
    <3>1. /\ Len(s2c) = Len(NoPackage) + Len(answer)
          /\ \A i \in 1..Len(NoPackage) : s2c[i] = NoPackage[i]
          /\ \A i \in 1..Len(answer) : s2c[Len(NoPackage) + i] = answer[i]
      BY <1>6, <2>1, <2>2, Joined
    <3> QED BY <2>2, <3>1
  <2>4. m = 2
    BY <2>2, <2>3
  <2> HIDE DEF m
  <2>5. s2c' \in Seq(Units) /\ Len(s2c') = Len(s2c) - 1
        /\ \A i \in 1..Len(s2c') : s2c'[i] = s2c[i + 1]
    <3>1. 2 <= Len(s2c) + 1 /\ 2 \in {2, 3} /\ Len(s2c) - 2 + 1 = Len(s2c) - 1
          /\ \A i \in Nat : i + 2 - 1 = i + 1
      BY <1>6, <2>3
    <3>2. s2c' \in Seq(Units) /\ Len(s2c') = Len(s2c) - 2 + 1
          /\ \A i \in 1..Len(s2c') : s2c'[i] = s2c[i + 2 - 1]
      BY <1>1, <1>2, <2>4, <3>1, Dropped
    <3> QED BY <3>1, <3>2
  <2>6. Len(s2c') = Len(answer) /\ \A i \in 1..Len(s2c') : s2c'[i] = answer[i]
    BY <1>6, <2>3, <2>5
  <2>7. s2c' = answer
    BY <1>6, <2>5, <2>6, SeqEqual
  <2>8. cpc' = "last"
    BY <1>1, <1>9
  <2>9. Ahead(answer)'
    BY <2>7, <2>8 DEF Ahead
  <2>10. CASE Served /\ answer = <<>>
    <3>1. spc # "task"
      BY <1>1, <1>3, <1>9, <2>10 DEF Served
    <3>2. Served'
      BY <1>1, <1>7, <2>9, <2>10, <3>1 DEF Served
    <3> QED BY <3>2 DEF Paired
  <2>11. CASE Produced(answer)
    BY <1>7, <2>9, <2>11 DEF Paired, Replied
  <2> QED BY <1>4, <2>10, <2>11
<1> QED BY <1>8, <1>9

(* The proxy reads.                                                        *)
LEMMA NoMainTail ==
  ASSUME Form, c2s # <<>>, NoMain(c2s), c2s' = Tail(c2s)
  PROVE  NoMain(c2s)'
<1>1. c2s \in Seq(Units) /\ 2 \in {2, 3}
  BY DEF Form, TypeOK
<1>2. c2s' = SubSeq(c2s, 2, Len(c2s))
  BY <1>1, TailIsSubSeq
<1>3. NoMain(c2s')
  BY <1>1, <1>2, LongSuffix
<1> QED BY <1>3 DEF NoMain

(* What the proxy writes comes after what the client has ahead.            *)
LEMMA AheadGrows ==
  ASSUME Form, NEW a \in Seq(Units), Ahead(a), NEW t \in Seq(Units), t # <<>>,
         s2c' = s2c \o t, UNCHANGED <<cpc, req>>, NEW b, b = a \o t
  PROVE  Ahead(b)'
<1>1. s2c \in Seq(Units)
  BY DEF Form, TypeOK
<1>2. s2c' # <<>> /\ (s2c # <<>> => s2c'[1] = s2c[1])
  BY <1>1, Longer, Zenon
<1>3. CASE cpc \in {"upload", "reply", "last"} /\ s2c = a
  BY <1>3 DEF Ahead
<1>4. CASE cpc = "reply" /\ req.kind = "read" /\ Rest(s2c, a)
  <2>1. /\ s2c # <<>> /\ IsHead(s2c[1]) /\ s2c[1].type = 1 /\ s2c[1].len \in 0..1
        /\ s2c[1].next \in BOOLEAN /\ s2c'[1] = s2c[1]
    BY <1>2, <1>4 DEF Rest
  <2>2. ASSUME ~s2c[1].next
        PROVE  s2c' = NoPackage \o b
    <3>1. NoPackage \in Seq(Units)
      BY LobPackages
    <3>2. s2c = NoPackage \o a
      BY <1>4, <2>2 DEF Rest
    <3>3. (NoPackage \o a) \o t = NoPackage \o (a \o t)
      BY <3>1, ConcatAssociative
    <3> QED BY <3>2, <3>3
  <2>3. ASSUME s2c[1].next
        PROVE  s2c[1].len + 2 <= Len(s2c') /\ s2c'[s2c[1].len + 2] = Gzip
    <3>1. s2c[1].len + 2 <= Len(s2c) /\ s2c[s2c[1].len + 2] = Gzip
      BY <1>4, <2>3 DEF Rest
    <3>2. /\ Len(s2c') = Len(s2c) + Len(t) /\ \A i \in 1..Len(s2c) : s2c'[i] = s2c[i]
      BY <1>1, Joined, Zenon
    <3>3. Len(s2c) \in Nat /\ Len(t) \in Nat
      BY <1>1
    <3>4. s2c[1].len + 2 \in 1..Len(s2c) /\ s2c[1].len + 2 <= Len(s2c')
      <4> DEFINE n == s2c[1].len
      <4>1. n \in 0..1 /\ n + 2 <= Len(s2c) /\ Len(s2c') = Len(s2c) + Len(t)
        BY <2>1, <3>1, <3>2
      <4> HIDE DEF n
      <4>2. n + 2 \in 1..Len(s2c) /\ n + 2 <= Len(s2c')
        BY <3>3, <4>1
      <4> QED BY <4>2 DEF n
    <3> QED BY <3>1, <3>2, <3>4
  <2>4. Rest(s2c', b)
    BY <1>2, <2>1, <2>2, <2>3 DEF Rest
  <2>5. Rest(s2c, b)'
    BY <2>4 DEF Rest
  <2> QED BY <1>4, <2>5 DEF Ahead
<1>5. CASE cpc = "more" /\ req.kind = "read" /\ s2c # <<>> /\ s2c[1] = Gzip
  BY <1>2, <1>5 DEF Ahead
<1>6. CASE cpc = "answer" /\ a # <<>> /\ s2c = Tail(a)
  <2>1. /\ b \in Seq(Units) /\ Len(b) = Len(a) + Len(t)
        /\ \A i \in 1..Len(a) : b[i] = a[i]
        /\ \A i \in 1..Len(b) : i > Len(a) => b[i] = t[i - Len(a)]
    BY Joined
  <2>2. Len(a) \in Nat \ {0} /\ Len(t) \in Nat \ {0}
    BY <1>6, EmptySeq
  <2>3. b # <<>>
    BY <2>1, <2>2, EmptySeq
  <2>4. /\ Tail(b) \in Seq(Units) /\ Len(Tail(b)) = Len(b) - 1
        /\ \A i \in 1..Len(Tail(b)) : Tail(b)[i] = b[i + 1]
    BY <2>1, <2>3, HeadTailProperties
  <2>5. /\ Len(s2c) = Len(a) - 1 /\ \A i \in 1..Len(s2c) : s2c[i] = a[i + 1]
    BY <1>6, HeadTailProperties
  <2>6. /\ s2c' \in Seq(Units) /\ Len(s2c') = Len(s2c) + Len(t)
        /\ \A i \in 1..Len(s2c) : s2c'[i] = s2c[i]
        /\ \A i \in 1..Len(s2c') : i > Len(s2c) => s2c'[i] = t[i - Len(s2c)]
    BY <1>1, Joined
  <2>7. Len(s2c') = Len(Tail(b))
    BY <2>1, <2>2, <2>4, <2>5, <2>6
  <2>8. ASSUME NEW i \in 1..Len(s2c')
        PROVE  s2c'[i] = Tail(b)[i]
    <3>1. Tail(b)[i] = b[i + 1]
      BY <2>4, <2>7, <2>8
    <3>2. CASE i <= Len(s2c)
      <4>1. i \in 1..Len(s2c) /\ i + 1 \in 1..Len(a)
        BY <2>2, <2>5, <3>2
      <4> QED BY <2>1, <2>5, <2>6, <3>1, <4>1
    <3>3. CASE i > Len(s2c)
      <4>1. i + 1 \in 1..Len(b) /\ i + 1 > Len(a) /\ (i + 1) - Len(a) = i - Len(s2c)
        BY <2>1, <2>2, <2>5, <2>6, <3>3
      <4> QED BY <2>1, <2>6, <3>1, <3>3, <4>1
    <3>4. i <= Len(s2c) \/ i > Len(s2c)
      BY <2>2, <2>5
    <3> QED BY <3>2, <3>3, <3>4, Zenon
  <2>9. s2c' = Tail(b)
    <3> DEFINE u == Tail(b)
    <3>1. u \in Seq(Units) /\ Len(s2c') = Len(u) /\ \A i \in 1..Len(s2c') : s2c'[i] = u[i]
      BY <2>4, <2>7, <2>8
    <3> HIDE DEF u
    <3>2. s2c' = u
      BY <2>6, <3>1, SeqEqual
    <3> QED BY <3>2 DEF u
  <2> QED BY <1>6, <2>3, <2>9 DEF Ahead
<1> QED BY <1>3, <1>4, <1>5, <1>6 DEF Ahead

LEMMA ReadHeadPaired ==
  ASSUME Form, Paired, ReadHead
  PROVE  Paired'
<1>1. spc = "head" /\ c2s # <<>> /\ IsMain(c2s[1]) /\ c2s' = Tail(c2s) /\ spc' = "body"
      /\ UNCHANGED <<s2c, cpc, req>>
  BY DEF ReadHead, clientVars
<1>2. c2s \in Seq(Units) /\ 1 \in 1..Len(c2s) /\ Len(c2s) \in Nat
  BY <1>1 DEF Form, TypeOK
<1>3. ~NoMain(c2s)
  BY <1>1, <1>2 DEF NoMain
<1>4. Coming /\ OneHead
  BY <1>1, <1>3 DEF Paired, Resting, Stuck, Coming, Entering, Served, Replied
<1>5. PICK p \in 1..Len(c2s) :
        /\ \A i \in 1..Len(c2s) : IsMain(c2s[i]) => i = p
        /\ IF cpc = "body" THEN p = Len(c2s)
           ELSE p < Len(c2s) /\ c2s[p + 1] = Piece("request", req)
  BY <1>4 DEF OneHead
<1>6. p = 1
  BY <1>1, <1>2, <1>5
<1>7. /\ c2s' \in Seq(Units)
      /\ c2s' # <<>> => Len(c2s) > 1 /\ c2s'[1] = c2s[2]
      /\ c2s' = <<>> => Len(c2s) = 1
  BY <1>1, ReadTail
<1>8. Len(c2s') = Len(c2s) - 1 /\ \A i \in 1..Len(c2s') : c2s'[i] = c2s[i + 1]
  BY <1>1, <1>2, HeadTailProperties
<1>9. NoMain(c2s)'
  <2>1. ASSUME NEW i \in 1..Len(c2s')
        PROVE  ~IsMain(c2s'[i])
    <3>1. i + 1 \in 1..Len(c2s) /\ i + 1 # 1
      BY <1>2, <1>7, <1>8
    <3> QED BY <1>5, <1>6, <1>8, <3>1
  <2> QED BY <2>1 DEF NoMain
<1>10. CASE cpc = "body"
  <2>1. c2s' = <<>>
    <3>1. Len(c2s) = 1
      BY <1>5, <1>6, <1>10
    <3>2. ~(Len(c2s) > 1)
      BY <3>1
    <3> QED BY <1>7, <3>2, Zenon
  <2> QED BY <1>1, <1>4, <1>9, <1>10, <2>1 DEF Paired, Entering, Coming, Waiting
<1>11. CASE cpc # "body"
  <2>1. 1 < Len(c2s) /\ c2s[1 + 1] = Piece("request", req)
    BY <1>5, <1>6, <1>11
  <2>2. c2s' # <<>> /\ c2s'[1] = Piece("request", req')
    BY <1>1, <1>2, <1>7, <2>1
  <2> QED BY <1>1, <1>4, <1>9, <1>11, <2>2 DEF Paired, Entering, Coming, Waiting
<1> QED BY <1>10, <1>11

LEMMA ReadBadPaired ==
  ASSUME Form, Paired, ReadBad
  PROVE  Paired'
<1>1. spc = "head" /\ c2s # <<>> /\ c2s' = Tail(c2s) /\ spc' = "ended"
      /\ UNCHANGED <<s2c, cpc, req, got, sreq>>
  BY DEF ReadBad, EndSession, clientVars
<1>2. NoMain(c2s) => NoMain(c2s)'
  BY <1>1, NoMainTail
<1>3. CASE Resting
  BY <1>1, <1>2, <1>3 DEF Paired, Resting
<1>4. CASE Coming
  BY <1>1, <1>4 DEF Paired, Coming, Stuck, Waiting
<1>5. CASE Replied
  <2>1. PICK answer \in Parts : Ahead(answer) /\ Produced(answer)
    BY <1>5 DEF Replied
  <2>2. answer \in Parts' /\ Ahead(answer)' /\ Produced(answer)'
    BY <1>1, <2>1 DEF Parts, ReplyPackage, Ahead, Rest, Produced
  <2>3. NoMain(c2s)'
    BY <1>2, <1>5 DEF Replied
  <2> QED BY <2>2, <2>3 DEF Paired, Replied
<1> QED BY <1>1, <1>3, <1>4, <1>5 DEF Paired, Stuck, Entering, Served

LEMMA ReadBodyPaired ==
  ASSUME Form, Paired, ReadBody \/ ReadBodyRefused
  PROVE  Paired'
<1>1. spc = "body" /\ c2s # <<>> /\ c2s' = Tail(c2s) /\ sreq' = c2s[1].of
      /\ s2c' = s2c /\ spc' \in {"task", "reply"} /\ UNCHANGED <<cpc, req>>
  BY DEF ReadBody, ReadBodyRefused, clientVars
<1>2. Entering
  BY <1>1 DEF Paired, Resting, Stuck, Coming, Served, Replied, Produced
<1>3. cpc \in {"upload", "reply"} /\ c2s[1] = Piece("request", req) /\ s2c = <<>>
  BY <1>1, <1>2 DEF Entering, Waiting
<1>4. req \in Requests
  BY <1>3 DEF Form, Bodies
<1>5. sreq' = req
  BY <1>1, <1>3, <1>4, Pieces
<1>6. NoMain(c2s)'
  BY <1>1, <1>2, NoMainTail DEF Entering
<1>7. Served'
  BY <1>1, <1>3, <1>5, <1>6 DEF Served, Ahead
<1> QED BY <1>7 DEF Paired

LEMMA ReadTimesOutPaired ==
  ASSUME Form, Paired, ReadTimesOut
  PROVE  Paired'
<1>1. /\ spc \in {"head", "body"} /\ c2s = <<>> /\ spc' \in {"head", "ended"}
      /\ UNCHANGED <<c2s, s2c, cpc, req, got, sreq>>
  BY DEF ReadTimesOut, GoOn, EndSession, clientVars
<1>2. NoMain(c2s)'
  BY <1>1 DEF NoMain
<1>3. CASE Resting
  BY <1>1, <1>2, <1>3 DEF Paired, Resting
<1>4. CASE Coming \/ Entering
  BY <1>1, <1>2, <1>4 DEF Paired, Coming, Entering, Stuck, Waiting
<1>5. CASE Replied
  <2>1. PICK answer \in Parts : Ahead(answer) /\ Produced(answer)
    BY <1>5 DEF Replied
  <2>2. Produced(answer)'
    BY <1>1, <2>1 DEF Produced, ReplyPackage
  <2>3. answer \in Parts' /\ Ahead(answer)'
    BY <1>1, <2>1 DEF Parts, ReplyPackage, Ahead, Rest
  <2> QED BY <1>2, <2>2, <2>3 DEF Paired, Replied
<1> QED BY <1>1, <1>3, <1>4, <1>5 DEF Paired, Stuck, Served

(* The client may lose its reply, but gets no other one.                   *)
LEMMA DiesPaired ==
  ASSUME Form, Paired, Dies
  PROVE  Paired'
<1>1. spc' = "ended" /\ UNCHANGED <<c2s, s2c, cpc, req, got, sreq>>
  BY DEF Dies, EndSession, clientVars
<1>2. CASE Resting
  BY <1>1, <1>2 DEF Paired, Resting, NoMain
<1>3. CASE Stuck \/ Coming \/ Entering
  BY <1>1, <1>3 DEF Paired, Stuck, Coming, Entering, Waiting
<1>4. CASE Served \/ Replied
  <2>1. NoMain(c2s) /\ \E answer \in Parts : Ahead(answer) /\ (answer # <<>> => sreq = req)
    BY <1>4 DEF Served, Replied, Produced, Parts
  <2>2. PICK answer \in Parts : Ahead(answer) /\ (answer # <<>> => sreq = req)
    BY <2>1
  <2>3. answer \in Parts' /\ Ahead(answer)' /\ Produced(answer)' /\ NoMain(c2s)'
    BY <1>1, <2>1, <2>2 DEF Parts, ReplyPackage, Ahead, Rest, Produced, NoMain
  <2> QED BY <2>3 DEF Paired, Replied
<1> QED BY <1>2, <1>3, <1>4 DEF Paired

(* The proxy writes the reply.                                             *)
LEMMA WriteHeadPaired ==
  ASSUME Form, Paired, WriteHead
  PROVE  Paired'
<1> DEFINE t == <<ReplyHead>>
<1>1. spc = "reply" /\ spc' = "write" /\ s2c' = Append(s2c, ReplyHead)
      /\ UNCHANGED <<c2s, cpc, req, sreq>>
  BY DEF WriteHead, clientVars
<1>2. Served
  BY <1>1 DEF Paired, Resting, Stuck, Coming, Entering, Replied, Produced
<1>3. t \in Seq(Units) /\ t # <<>> /\ ReplyHead \in Units /\ <<>> \in Seq(Units)
      /\ <<>> \o t = t
  BY ReplyPieces, ConcatEmptySeq
<1>4. s2c' = s2c \o t
  BY <1>1, <1>3, AppendIsConcat DEF Form, TypeOK
<1>5. t \in Parts' /\ Produced(t)' /\ NoMain(c2s)'
  BY <1>1, <1>2 DEF Parts, Produced, Served, NoMain
<1>6. Ahead(<<>>)
  BY <1>2 DEF Served
<1> HIDE DEF t
<1>7. Ahead(t)'
  BY <1>1, <1>3, <1>4, <1>6, AheadGrows
<1> QED BY <1>5, <1>7 DEF Paired, Replied

LEMMA WriteReplyPaired ==
  ASSUME Form, Paired, WriteReply
  PROVE  Paired'
<1> DEFINE h == <<ReplyHead>>
           b == Piece("reply", req)
           t == <<b>>
<1>1. spc = "write" /\ spc' \in {"head", "ended"} /\ s2c' = Append(s2c, Piece("reply", sreq))
      /\ UNCHANGED <<c2s, cpc, req, sreq>>
  BY DEF WriteReply, GoOn, EndSession, clientVars
<1>2. Replied
  BY <1>1 DEF Paired, Resting, Stuck, Coming, Entering, Served
<1>3. Ahead(h) /\ sreq = req /\ NoMain(c2s)
  <2>1. PICK answer \in Parts : Ahead(answer) /\ Produced(answer) /\ NoMain(c2s)
    BY <1>2 DEF Replied
  <2>2. answer = h /\ h # <<>>
    BY <1>1, <2>1 DEF Produced
  <2> QED BY <2>1, <2>2 DEF Produced
<1>4. req \in Requests
  BY <1>1, <1>3 DEF Form, Bodies, Working
<1>5. b \in Units /\ t \in Seq(Units) /\ t # <<>> /\ h \in Seq(Units)
  BY <1>4, ReplyPieces
<1>6. s2c' = s2c \o t
  BY <1>1, <1>3, <1>5, AppendIsConcat DEF Form, TypeOK
<1>7. ReplyPackage(req) = h \o t /\ ReplyPackage(req)' = ReplyPackage(req)
  BY <1>1 DEF ReplyPackage
<1> HIDE DEF h, t, b
<1>8. PICK p : p = ReplyPackage(req)
  OBVIOUS
<1>9. Ahead(p)'
  BY <1>1, <1>3, <1>5, <1>6, <1>7, <1>8, AheadGrows
<1>10. p \in Parts' /\ Produced(p)' /\ NoMain(c2s)'
  BY <1>1, <1>3, <1>7, <1>8 DEF Parts, Produced, NoMain
<1> QED BY <1>9, <1>10 DEF Paired, Replied

-----------------------------------------------------------------------------
(* The executor                                                            *)

LEMMA AtTask ==
  ASSUME Paired, spc = "task"
  PROVE  Served
BY DEF Paired, Resting, Stuck, Coming, Entering, Replied, Produced

LEMMA TaskReadPaired ==
  ASSUME Form, Paired, TaskRead
  PROVE  Paired'
<1>1. spc = "task" /\ ~Starved /\ IsHead(c2s[1])
      /\ c2s' = SubSeq(c2s, 2 + c2s[1].len, Len(c2s))
      /\ UNCHANGED <<s2c, spc, sreq, cpc, req>>
  BY DEF TaskRead, WantsStream, clientVars
<1>2. Served
  BY <1>1, AtTask
<1>3. NoMain(c2s)'
  <2>1. c2s # <<>> /\ c2s[1].len \in 0..1
    BY <1>1, WholePackage
  <2>2. 2 + c2s[1].len \in {2, 3} /\ c2s \in Seq(Units)
    BY <2>1 DEF Form, TypeOK
  <2>3. NoMain(c2s')
    BY <1>1, <1>2, <2>1, <2>2, LongSuffix DEF Served
  <2> QED BY <2>3 DEF NoMain
<1>4. Ahead(<<>>)'
  BY <1>1, <1>2 DEF Served, Ahead, Rest
<1>5. Served'
  BY <1>1, <1>2, <1>3, <1>4 DEF Served
<1> QED BY <1>5 DEF Paired

(* Only requests without a large object to read have streams.              *)
LEMMA TaskTimesOutPaired ==
  ASSUME Form, Paired, TaskTimesOut
  PROVE  Paired'
<1>1. spc = "task" /\ spc' = "hung" /\ Len(taken) < Len(sreq.lens)
      /\ UNCHANGED <<c2s, s2c, cpc, req>>
  BY DEF TaskTimesOut, WantsStream, clientVars
<1>2. Served
  BY <1>1, AtTask
<1>3. req.kind # "read"
  <2>1. sreq \in Requests /\ sreq = req
    BY <1>1, <1>2 DEF Form, Bodies, Working, Served
  <2>2. Len(taken) \in Nat
    BY DEF Form, TypeOK
  <2>3. sreq.lens # <<>>
    BY <1>1, <2>2
  <2> QED BY <2>1, <2>3, RequestFacts
<1>4. Waiting
  BY <1>1, <1>2, <1>3 DEF Served, Ahead, Waiting
<1> QED BY <1>1, <1>4 DEF Paired, Stuck, Waiting

LEMMA TaskEndsPaired ==
  ASSUME Form, Paired, TaskGivesUp \/ TaskDone
  PROVE  Paired'
<1>1. spc = "task" /\ spc' = "reply" /\ UNCHANGED <<c2s, s2c, cpc, req, sreq>>
  BY DEF TaskGivesUp, TaskDone, WantsStream, clientVars
<1>2. Served
  BY <1>1, AtTask
<1>3. Ahead(<<>>)' /\ NoMain(c2s)'
  BY <1>1, <1>2 DEF Served, Ahead, Rest, NoMain
<1>4. Served'
  BY <1>1, <1>2, <1>3 DEF Served
<1> QED BY <1>4 DEF Paired

(* A package with a body of a large object: of two pieces, where its head  *)
(* announces at most one.                                                  *)
BodyPackage(t) ==
  /\ t \in Seq(Units) /\ Len(t) = 3 /\ IsHead(t[1]) /\ t[1].type = 1
  /\ t[1].next = TRUE /\ t[1].len \in 0..1 /\ t[t[1].len + 2] = Gzip

LEMMA BodyPackages == BodyPackage(FullPackage) /\ BodyPackage(LastPackage)
<1>1. 1 + 2 = 3 /\ 0 + 2 = 2 /\ 1 \in 0..1 /\ 0 \in 0..1
  OBVIOUS
<1>2. FullPackage[1].next = TRUE /\ LastPackage[1].next = TRUE
  BY DEF FullPackage, LastPackage, ProxyHead, PkgHead
<1>3. FullPackage[FullPackage[1].len + 2] = Gzip /\ LastPackage[LastPackage[1].len + 2] = Gzip
  BY <1>1, LobPackages
<1> QED BY <1>1, <1>2, <1>3, LobPackages DEF BodyPackage

(* Before it has finished a large object the client reads it from its      *)
(* start, or is out of step already.                                       *)
LEMMA ReadingLob ==
  ASSUME Form, Served, spc = "task", sreq.kind = "read"
  PROVE  /\ req.kind = "read" /\ cpc \in {"reply", "more"}
         /\ cpc = "reply" => s2c = <<>> \/ (Rest(s2c, <<>>) /\ s2c[1].next = TRUE)
         /\ cpc = "more" => s2c # <<>> /\ s2c[1] = Gzip
<1>1. req.kind = "read" /\ req \in Requests
  BY DEF Served, Form, Bodies, Working
<1>2. cpc # "upload"
  <2>1. ASSUME cpc = "upload"
        PROVE  FALSE
    <3>1. sent[1] \in 1..Len(req.lens)
      BY <2>1 DEF Form, Uploading
    <3>2. req.lens = <<>>
      BY <1>1, RequestFacts
    <3> QED BY <3>1, <3>2
  <2> QED BY <2>1
<1>3. cpc \in {"reply", "more"}
  BY <1>2 DEF Served, Ahead
<1>4. cpc = "more" => s2c # <<>> /\ s2c[1] = Gzip
  BY DEF Served, Ahead
<1>5. ASSUME cpc = "reply", s2c # <<>>
      PROVE  Rest(s2c, <<>>) /\ s2c[1].next = TRUE
  <2>1. Rest(s2c, <<>>)
    BY <1>5 DEF Served, Ahead
  <2>2. s2c[1] # Gzip
    BY <2>1, Gzips DEF Rest
  <2> QED BY <1>5, <2>1, <2>2 DEF Served, Rest
<1> QED BY <1>1, <1>3, <1>4, <1>5

LEMMA RestGrows ==
  ASSUME Form, Rest(s2c, <<>>), s2c[1].next = TRUE, NEW t \in Seq(Units), t # <<>>,
         s2c' = s2c \o t
  PROVE  Rest(s2c', <<>>) /\ s2c'[1].next = TRUE
<1>1. s2c \in Seq(Units)
  BY DEF Form, TypeOK
<1>2. s2c' # <<>> /\ (s2c # <<>> => s2c'[1] = s2c[1])
  BY <1>1, Longer, Zenon
<1>3. /\ Len(s2c') = Len(s2c) + Len(t) /\ \A i \in 1..Len(s2c) : s2c'[i] = s2c[i]
  BY <1>1, Joined, Zenon
<1>4. Len(s2c) \in Nat /\ Len(t) \in Nat
  BY <1>1
<1>5. /\ s2c # <<>> /\ IsHead(s2c[1]) /\ s2c[1].type = 1 /\ s2c[1].len \in 0..1
      /\ s2c[1].len + 2 <= Len(s2c) /\ s2c[s2c[1].len + 2] = Gzip /\ s2c'[1] = s2c[1]
  BY <1>2 DEF Rest
<1>6. s2c[1].len + 2 \in 1..Len(s2c) /\ s2c[1].len + 2 <= Len(s2c')
  BY <1>3, <1>4, <1>5
<1>7. s2c'[s2c[1].len + 2] = Gzip
  BY <1>3, <1>5, <1>6
<1> QED BY <1>2, <1>5, <1>6, <1>7 DEF Rest

LEMMA WriteBodyPaired ==
  ASSUME Form, Served, spc = "task", sreq.kind = "read", NEW t, BodyPackage(t),
         s2c' = s2c \o t, UNCHANGED <<c2s, cpc, req, sreq>>, spc' \in {"task", "reply"}
  PROVE  Served'
<1>1. /\ req.kind = "read" /\ cpc \in {"reply", "more"}
      /\ cpc = "reply" => s2c = <<>> \/ (Rest(s2c, <<>>) /\ s2c[1].next = TRUE)
      /\ cpc = "more" => s2c # <<>> /\ s2c[1] = Gzip
  BY ReadingLob
<1>2. s2c \in Seq(Units) /\ t \in Seq(Units) /\ Len(t) = 3 /\ t # <<>>
  <2>1. t \in Seq(Units) /\ Len(t) = 3
    BY DEF BodyPackage
  <2>2. t # <<>>
    <3>1. Len(t) # Len(<<>>)
      BY <2>1
    <3> QED BY <3>1, Zenon
  <2>3. s2c \in Seq(Units)
    BY DEF Form, TypeOK
  <2> QED BY <2>1, <2>2, <2>3, Zenon
<1>3. /\ s2c' # <<>>
      /\ s2c # <<>> => s2c'[1] = s2c[1]
      /\ s2c = <<>> => s2c' = t
  <2>1. s2c \in Seq(Units) /\ t \in Seq(Units) /\ t # <<>>
    BY <1>2, Zenon
  <2>2. s2c \o t # <<>> /\ (s2c # <<>> => (s2c \o t)[1] = s2c[1])
        /\ (s2c = <<>> => s2c \o t = t)
    BY <2>1, Longer, Zenon
  <2> QED BY <2>2, Zenon
<1>5. ASSUME s2c = <<>>
      PROVE  Rest(s2c', <<>>) /\ s2c'[1].next = TRUE
  <2>1. s2c' = t
    BY <1>3, <1>5
  <2>2. t[1].len + 2 <= Len(t)
    BY DEF BodyPackage
  <2>3. Rest(t, <<>>) /\ t[1].next = TRUE
    BY <1>2, <2>2 DEF BodyPackage, Rest
  <2> QED BY <2>1, <2>3
<1>6. ASSUME Rest(s2c, <<>>), s2c[1].next = TRUE
      PROVE  Rest(s2c', <<>>) /\ s2c'[1].next = TRUE
  BY <1>2, <1>6, RestGrows, Zenon
<1>7. CASE cpc = "reply"
  <2>1. Rest(s2c', <<>>) /\ s2c'[1].next = TRUE
    BY <1>1, <1>5, <1>6, <1>7
  <2>2. Rest(s2c, <<>>)'
    BY <2>1 DEF Rest
  <2>3. Ahead(<<>>)'
    BY <1>1, <1>7, <2>2 DEF Ahead
  <2>4. IsHead(s2c'[1])
    BY <2>1 DEF Rest
  <2> QED BY <1>7, <2>1, <2>3, <2>4 DEF Served, NoMain, IsHead
<1>8. CASE cpc = "more"
  <2>1. s2c' # <<>> /\ s2c'[1] = Gzip
    BY <1>1, <1>3, <1>8
  <2>2. Gzip' = Gzip
    BY DEF Gzip
  <2>3. Ahead(<<>>)'
    BY <1>1, <1>8, <2>1 DEF Ahead
  <2> QED BY <1>8, <2>1, <2>3 DEF Served, NoMain
<1> QED BY <1>1, <1>7, <1>8

LEMMA TaskWritesPaired ==
  ASSUME Form, Paired, TaskWriteFull \/ TaskWriteEnd
  PROVE  Paired'
<1>1. spc = "task" /\ sreq.kind = "read" /\ UNCHANGED <<c2s, cpc, req, sreq>>
  BY DEF TaskWriteFull, TaskWriteEnd, clientVars
<1>2. Served
  BY <1>1, AtTask
<1>3. CASE TaskWriteFull
  <2>1. s2c' = s2c \o FullPackage /\ spc' = "task"
    BY <1>1, <1>3 DEF TaskWriteFull
  <2> QED BY <1>1, <1>2, <2>1, BodyPackages, WriteBodyPaired DEF Paired
<1>4. CASE TaskWriteEnd
  <2>1. spc' = "reply"
    BY <1>4 DEF TaskWriteEnd
  <2>2. CASE s2c' = s2c \o LastPackage
    BY <1>1, <1>2, <2>1, <2>2, BodyPackages, WriteBodyPaired DEF Paired
  <2>3. CASE s2c' = s2c \o NoPackage
    <3>1. /\ req.kind = "read" /\ cpc \in {"reply", "more"}
          /\ cpc = "reply" => s2c = <<>> \/ (Rest(s2c, <<>>) /\ s2c[1].next = TRUE)
          /\ cpc = "more" => s2c # <<>> /\ s2c[1] = Gzip
      BY <1>1, <1>2, ReadingLob
    <3>2. s2c \in Seq(Units) /\ NoPackage \in Seq(Units) /\ Len(NoPackage) = 1
          /\ NoPackage # <<>>
      <4>1. NoPackage \in Seq(Units) /\ Len(NoPackage) = 1
        BY LobPackages
      <4>2. NoPackage # <<>>
        <5>1. Len(NoPackage) # Len(<<>>)
          BY <4>1
        <5> QED BY <5>1, Zenon
      <4>3. s2c \in Seq(Units)
        BY DEF Form, TypeOK
      <4> QED BY <4>1, <4>2, <4>3, Zenon
    <3>3. /\ s2c' # <<>>
          /\ s2c # <<>> => s2c'[1] = s2c[1]
          /\ s2c = <<>> => s2c' = NoPackage
      BY <2>3, <3>2, Longer
    <3>5. ASSUME s2c = <<>>
          PROVE  Rest(s2c', <<>>)
      <4>1. NoPackage \o <<>> = NoPackage
        BY <3>2, ConcatEmptySeq
      <4>2. /\ IsHead(NoPackage[1]) /\ NoPackage[1].type = 1 /\ NoPackage[1].len \in 0..1
            /\ ~NoPackage[1].next
        BY LobPackages
      <4>3. NoPackage[1].next \in BOOLEAN
        BY DEF NoPackage, ProxyHead, PkgHead
      <4> QED BY <3>2, <3>3, <3>5, <4>1, <4>2, <4>3 DEF Rest
    <3>6. ASSUME Rest(s2c, <<>>), s2c[1].next = TRUE
          PROVE  Rest(s2c', <<>>)
      BY <2>3, <3>2, <3>6, RestGrows, Zenon
    <3>7. Ahead(<<>>)'
      <4>1. CASE cpc = "reply"
        <5>1. Rest(s2c', <<>>)
          BY <3>1, <3>5, <3>6, <4>1
        <5>2. Rest(s2c, <<>>)'
          BY <5>1 DEF Rest
        <5> QED BY <1>1, <3>1, <4>1, <5>2 DEF Ahead
      <4>2. CASE cpc = "more"
        BY <1>1, <3>1, <3>3, <4>2 DEF Ahead
      <4> QED BY <3>1, <4>1, <4>2
    <3>8. Served'
      BY <1>1, <1>2, <2>1, <3>7 DEF Served, NoMain
    <3> QED BY <3>8 DEF Paired
  <2> QED BY <1>4, <2>2, <2>3 DEF TaskWriteEnd
<1> QED BY <1>3, <1>4

-----------------------------------------------------------------------------
LEMMA InvInit == Init => Inv
BY FormInit, PairedInit DEF Inv

LEMMA PairedStep ==
  ASSUME Inv, [Next]_vars, ~failed', cpc' # "gone"
  PROVE  Paired'
<1>1. Form
  BY DEF Inv
<1>2. CASE UNCHANGED vars
  BY <1>2 DEF vars, clientVars, proxyVars, Inv, Paired, Resting, Stuck, Coming, Entering,
              Served, Replied, Waiting, OneHead, Ahead, Rest, NoMain, Parts, Produced,
              ReplyPackage
<1>3. CASE Client
  <2>1. ~failed /\ cpc # "gone"
    BY <1>3 DEF Client, Call, SendBody, SendChunk, SendEnd, StreamThrows, SendFails, RecvHead,
                RecvReply, RecvCut, RecvLob, RecvBad, RecvFails, Vanish, Return, SocketError
  <2>2. Paired
    BY <2>1 DEF Inv
  <2>3. ~(StreamThrows \/ SendFails \/ RecvBad \/ RecvFails \/ Vanish)
    BY DEF StreamThrows, SendFails, RecvBad, RecvFails, Vanish, SocketError
  <2>4. CASE \E r \in Requests : Call(r)
    BY <1>1, <2>2, <2>4, CallPaired
  <2>5. CASE SendBody
    BY <1>1, <2>2, <2>5, SendBodyPaired
  <2>6. CASE SendChunk \/ SendEnd
    BY <1>1, <2>2, <2>6, SendStreamPaired
  <2>7. CASE RecvReply
    BY <1>1, <2>2, <2>7, RecvReplyPaired
  <2>8. CASE RecvLob
    BY <1>1, <2>2, <2>8, RecvLobPaired
  <2>9. CASE RecvHead
    BY <1>1, <2>2, <2>9, RecvHeadPaired
  <2>10. CASE RecvCut
    BY <1>1, <2>2, <2>10, RecvCutPaired
  <2> QED BY <1>3, <2>3, <2>4, <2>5, <2>6, <2>7, <2>8, <2>9, <2>10 DEF Client
<1>4. CASE Fiber \/ Task
  <2>1. ~failed /\ cpc # "gone"
    BY <1>4 DEF Fiber, ReadHead, ReadBad, ReadBody, ReadBodyRefused, ReadTimesOut, ReadEOF,
                WriteHead, WriteReply, WriteReplyFails, Dies, Task, TaskRead, TaskEOF, TaskTimesOut,
                TaskGivesUp, TaskDone, TaskWriteFull, TaskWriteEnd, TaskWriteLobFails,
                clientVars
  <2>2. Paired
    BY <2>1 DEF Inv
  <2>3. ~(ReadEOF \/ WriteReplyFails \/ TaskEOF \/ TaskWriteLobFails)
    BY <2>1 DEF ReadEOF, WriteReplyFails, TaskEOF, TaskWriteLobFails
  <2>4. CASE ReadHead
    BY <1>1, <2>2, <2>4, ReadHeadPaired
  <2>5. CASE ReadBad
    BY <1>1, <2>2, <2>5, ReadBadPaired
  <2>6. CASE ReadBody \/ ReadBodyRefused
    BY <1>1, <2>2, <2>6, ReadBodyPaired
  <2>7. CASE ReadTimesOut
    BY <1>1, <2>2, <2>7, ReadTimesOutPaired
  <2>8. CASE WriteReply
    BY <1>1, <2>2, <2>8, WriteReplyPaired
  <2>9. CASE TaskRead
    BY <1>1, <2>2, <2>9, TaskReadPaired
  <2>10. CASE TaskTimesOut
    BY <1>1, <2>2, <2>10, TaskTimesOutPaired
  <2>11. CASE TaskGivesUp \/ TaskDone
    BY <1>1, <2>2, <2>11, TaskEndsPaired
  <2>12. CASE TaskWriteFull \/ TaskWriteEnd
    BY <1>1, <2>2, <2>12, TaskWritesPaired
  <2>13. CASE WriteHead
    BY <1>1, <2>2, <2>13, WriteHeadPaired
  <2>14. CASE Dies
    BY <1>1, <2>2, <2>14, DiesPaired
  <2> QED BY <1>4, <2>3, <2>4, <2>5, <2>6, <2>7, <2>8, <2>9, <2>10, <2>11, <2>12, <2>13,
             <2>14 DEF Fiber, Task
<1> QED BY <1>2, <1>3, <1>4 DEF Next

LEMMA InvStep == Inv /\ [Next]_vars => Inv'
<1> SUFFICES ASSUME Inv, [Next]_vars PROVE Inv'
  OBVIOUS
<1>1. Form'
  BY FormStep DEF Inv
<1>2. ~failed' /\ cpc' # "gone" => Paired'
  BY PairedStep
<1> QED BY <1>1, <1>2 DEF Inv

LEMMA SpecInv == Spec => []Inv
BY InvInit, InvStep, PTL DEF Spec

(* The wires carry well-formed heads and bodies and both sides are in      *)
(* positions of the code, for any number and length of streams.            *)
THEOREM TypeCorrect == Spec => []TypeOK
<1>1. Inv => TypeOK
  BY DEF Inv, Form
<1> QED BY <1>1, SpecInv, PTL

(* S2R pairs a reply with its request by order alone; until the first      *)
(* "socket error" it never returns another request's: it returns its own,  *)
(* or an empty one whose body was lost with the session.                   *)
THEOREM RepliesArePaired == Spec => []RepliesMatch
<1>1. Inv => RepliesMatch
  BY DEF Inv, Paired, Resting, Stuck, Coming, Entering, Served, Replied, Waiting, Ahead,
         RepliesMatch
<1> QED BY <1>1, SpecInv, PTL

(* The proxy works only on the request its client is waiting for.          *)
InStep ==
  ~failed /\ cpc # "gone" /\ spc \in {"task", "reply", "write"} => sreq = req /\ cpc # "idle"

(* onConnection and its executor never work on anything but the request    *)
(* their client waits for.                                                 *)
THEOREM ProxyIsInStep == Spec => []InStep
<1>1. Inv => InStep
  BY DEF Inv, Paired, Resting, Stuck, Coming, Entering, Served, Replied, Waiting, Ahead,
         Produced, InStep
<1> QED BY <1>1, SpecInv, PTL

(* When a call has returned no package of the proxy is unread, and no      *)
(* request of the client.                                                  *)
THEOREM WiresAreClean == Spec => []NothingLeftOver
<1>1. Inv => NothingLeftOver
  BY DEF Inv, Paired, Resting, Stuck, Coming, Entering, Served, Replied, Waiting, Ahead,
         NoMain, NothingLeftOver
<1> QED BY <1>1, SpecInv, PTL
=============================================================================
