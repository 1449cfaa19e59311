------------------------- MODULE HttpMessagesProofs -------------------------
(***************************************************************************)
(* Proofs about HttpMessages, for all messages, sizes of the buffer and    *)
(* the header table, and ways to cut the stream into pieces.               *)
(*                                                                         *)
(* The bytes in the buffer, in the kernel and on the wire are consecutive  *)
(* bytes of one stream.  A buffer that begins with the first byte of a     *)
(* message therefore holds that message byte by byte, and the blank line   *)
(* that the parser finds is that message's own, or the next one's if the   *)
(* message has no header fields.                                           *)
(***************************************************************************)
EXTENDS HttpMessages, NatSets, SequenceTheorems, FiniteSetTheorems, TLAPS

AllBytes == [msg : Nat, at : Nat]

MsgLen(n) == HeadLen(script[n]) + script[n].body

(* b comes right behind a in the stream. *)
Follows(a, b) == \/ b.msg = a.msg /\ b.at = a.at + 1
                 \/ b.msg = a.msg + 1 /\ b.at = 1 /\ a.at = MsgLen(a.msg)

(* Consecutive bytes of the stream. *)
Piece(s) == /\ s \in Seq(AllBytes)
            /\ \A p \in 1 .. Len(s) : s[p].msg \in DOMAIN script /\ s[p].at \in 1 .. MsgLen(s[p].msg)
            /\ \A p \in 1 .. Len(s) - 1 : Follows(s[p], s[p + 1])

(* Whole messages at the end of it. *)
EndsWhole(s) == s # <<>> => s[Len(s)].at = MsgLen(s[Len(s)].msg)

Script == /\ script \in Seq(Messages)
          /\ Len(script) > 1 => \A n \in DOMAIN script : Delimited(script[n])

OneStream == Piece(buf \o (inbox \o wire)) /\ EndsWhole(wire)

Sequences == /\ wire \in Seq(AllBytes) /\ inbox \in Seq(AllBytes) /\ buf \in Seq(AllBytes)
             /\ result.body \in Seq(AllBytes)

(* What TypeOK says, but of the bytes in the three sequences. *)
Fields == /\ patient \in BOOLEAN /\ eof \in BOOLEAN /\ stale \in BOOLEAN
          /\ pc \in {"wait", "recv", "parse", "respond", "closed"}
          /\ body_start \in 0 .. Len(buf)
          /\ content_length \in Nat
          /\ result.outcome \in {"none", "ok", "partial", "bad"}
          /\ outbox \in 0 .. SendBuffer
          /\ taken \in Nat /\ sent \in Nat /\ due \in Nat \ {0}

BodyBytes == \A p \in 1 .. Len(result.body) : IsByte(result.body[p])

(* A sender that waits sends whole messages. *)
AtMessage == patient /\ wire # <<>> => wire[1].at = 1

Room == /\ cap \in Nat /\ cap >= InitCap
        /\ Len(buf) <= cap
        /\ pc = "recv" => cap - Len(buf) >= Reserve

MessagesInv == /\ Script /\ Sequences /\ OneStream /\ AtMessage
               /\ Room /\ Fields /\ BodyBytes /\ BodyIsOwnOrNext

-----------------------------------------------------------------------------
(* Messages and their bytes.                                               *)

LEMMA MessageTypes ==
  ASSUME NEW m \in Messages
  PROVE  /\ m.text \in Nat \ {0} /\ m.fields \in Nat /\ m.announced \in Nat /\ m.body \in Nat
         /\ m.length \in {"exact", "other", "none"} /\ m.blank \in {"crlf", "lf"}
         /\ m.expect_body \in BOOLEAN
         /\ HeadLen(m) \in Nat /\ HeadLen(m) >= m.text + 2
<1>1. m \in MessageType
  BY MessagesAssumption
<1>2. /\ m.text \in Nat \ {0} /\ m.fields \in Nat /\ m.announced \in Nat /\ m.body \in Nat
      /\ m.length \in {"exact", "other", "none"} /\ m.blank \in {"crlf", "lf"}
      /\ m.expect_body \in BOOLEAN
  BY <1>1 DEF MessageType
<1> QED BY <1>2 DEF HeadLen

LEMMA ScriptTypes ==
  ASSUME Script
  PROVE  /\ Len(script) \in Nat /\ DOMAIN script = 1 .. Len(script)
         /\ \A n \in 1 .. Len(script) :
               script[n] \in Messages /\ MsgLen(n) \in Nat /\ MsgLen(n) >= 1
<1>1. Len(script) \in Nat /\ DOMAIN script = 1 .. Len(script)
  BY LenProperties DEF Script
<1>2. ASSUME NEW n \in 1 .. Len(script)
      PROVE  script[n] \in Messages /\ MsgLen(n) \in Nat /\ MsgLen(n) >= 1
  <2>1. script[n] \in Messages
    BY ElementOfSeq DEF Script
  <2>2. HeadLen(script[n]) \in Nat /\ HeadLen(script[n]) >= 1 /\ script[n].body \in Nat
    BY <2>1, MessageTypes
  <2> QED BY <2>1, <2>2 DEF MsgLen
<1> QED BY <1>1, <1>2

LEMMA BytesPiece ==
  ASSUME Script, NEW n \in 1 .. Len(script)
  PROVE  /\ Piece(Bytes(n)) /\ Len(Bytes(n)) = MsgLen(n)
         /\ \A p \in 1 .. MsgLen(n) : Bytes(n)[p] = [msg |-> n, at |-> p]
<1> DEFINE L == MsgLen(n)
<1>1. L \in Nat /\ L >= 1 /\ n \in Nat /\ n \in DOMAIN script
  BY ScriptTypes
<1>2. Bytes(n) = [p \in 1 .. L |-> [msg |-> n, at |-> p]]
  BY DEF Bytes, MsgLen
<1> HIDE DEF L
<1>3. Bytes(n) \in [1 .. L -> AllBytes]
  BY <1>1, <1>2 DEF AllBytes
<1>4. Bytes(n) \in Seq(AllBytes) /\ Len(Bytes(n)) = L
  BY <1>1, <1>3, SeqDef, LenProperties
<1>5. \A p \in 1 .. L : Bytes(n)[p] = [msg |-> n, at |-> p]
  BY <1>2
<1>6. \A p \in 1 .. L : Bytes(n)[p].msg = n /\ Bytes(n)[p].at = p
  <2> SUFFICES ASSUME NEW p \in 1 .. L PROVE Bytes(n)[p].msg = n /\ Bytes(n)[p].at = p
    OBVIOUS
  <2>1. Bytes(n)[p] = [msg |-> n, at |-> p]
    BY <1>5
  <2> QED BY <2>1
<1>7. \A p \in 1 .. L - 1 : Follows(Bytes(n)[p], Bytes(n)[p + 1])
  BY <1>1, <1>6 DEF Follows
<1>8. \A p \in 1 .. L : Bytes(n)[p].msg \in DOMAIN script
                        /\ Bytes(n)[p].at \in 1 .. MsgLen(Bytes(n)[p].msg)
  BY <1>1, <1>6 DEF L
<1> QED BY <1>4, <1>5, <1>7, <1>8 DEF Piece, L

LEMMA PieceJoin ==
  ASSUME NEW a, NEW b, Piece(a), Piece(b),
         a # <<>> /\ b # <<>> => Follows(a[Len(a)], b[1])
  PROVE  Piece(a \o b)
<1>1. /\ a \in Seq(AllBytes) /\ b \in Seq(AllBytes)
      /\ Len(a) \in Nat /\ Len(b) \in Nat
  BY LenProperties DEF Piece
<1>2. /\ a \o b \in Seq(AllBytes) /\ Len(a \o b) = Len(a) + Len(b)
      /\ \A i \in 1 .. Len(a) + Len(b) :
            (a \o b)[i] = IF i <= Len(a) THEN a[i] ELSE b[i - Len(a)]
  BY <1>1, ConcatProperties
<1> DEFINE c == a \o b
<1> HIDE DEF c
<1>3. /\ c \in Seq(AllBytes) /\ Len(c) = Len(a) + Len(b)
      /\ \A i \in 1 .. Len(a) : c[i] = a[i]
      /\ \A i \in 1 .. Len(b) : c[Len(a) + i] = b[i]
  BY <1>1, <1>2 DEF c
<1>4. ASSUME NEW p \in 1 .. Len(c)
      PROVE  c[p].msg \in DOMAIN script /\ c[p].at \in 1 .. MsgLen(c[p].msg)
  <2>1. CASE p \in 1 .. Len(a)
    BY <1>3, <2>1 DEF Piece
  <2>2. CASE p > Len(a)
    <3>1. p - Len(a) \in 1 .. Len(b) /\ c[p] = b[p - Len(a)]
      <4>1. p - Len(a) \in 1 .. Len(b) /\ Len(a) + (p - Len(a)) = p
        BY <1>1, <1>3, <2>2
      <4> QED BY <1>3, <4>1
    <3> QED BY <3>1 DEF Piece
  <2> QED BY <1>1, <2>1, <2>2
<1>5. ASSUME NEW p \in 1 .. Len(c) - 1
      PROVE  Follows(c[p], c[p + 1])
  <2>1. CASE p \in 1 .. Len(a) - 1
    <3>1. c[p] = a[p] /\ c[p + 1] = a[p + 1]
      BY <1>1, <1>3, <2>1
    <3> QED BY <2>1, <3>1 DEF Piece
  <2>2. CASE p = Len(a)
    <3>1. a # <<>> /\ b # <<>> /\ c[p] = a[Len(a)] /\ c[p + 1] = b[1]
      BY <1>1, <1>3, <2>2, EmptySeq
    <3> QED BY <3>1
  <2>3. CASE p > Len(a)
    <3>1. /\ p - Len(a) \in 1 .. Len(b) - 1 /\ Len(a) + (p - Len(a)) = p
          /\ Len(a) + ((p - Len(a)) + 1) = p + 1
      BY <1>1, <1>3, <2>3
    <3>2. c[p] = b[p - Len(a)] /\ c[p + 1] = b[(p - Len(a)) + 1]
      <4> DEFINE k == p - Len(a)
      <4>1. k \in 1 .. Len(b) /\ k + 1 \in 1 .. Len(b) /\ Len(a) + k = p /\ Len(a) + (k + 1) = p + 1
        BY <1>1, <3>1
      <4> HIDE DEF k
      <4>2. c[p] = b[k] /\ c[p + 1] = b[k + 1]
        BY <1>3, <4>1
      <4> QED BY <4>2 DEF k
    <3> QED BY <3>1, <3>2 DEF Piece
  <2> QED BY <1>1, <2>1, <2>2, <2>3
<1>6. Piece(c)
  BY <1>3, <1>4, <1>5 DEF Piece
<1> QED BY <1>6 DEF c

LEMMA PieceSplit ==
  ASSUME NEW a \in Seq(AllBytes), NEW b \in Seq(AllBytes), Piece(a \o b)
  PROVE  /\ Piece(a) /\ Piece(b)
         /\ a # <<>> /\ b # <<>> => Follows(a[Len(a)], b[1])
<1>1. Len(a) \in Nat /\ Len(b) \in Nat
  BY LenProperties
<1>2. /\ a \o b \in Seq(AllBytes) /\ Len(a \o b) = Len(a) + Len(b)
      /\ \A i \in 1 .. Len(a) + Len(b) :
            (a \o b)[i] = IF i <= Len(a) THEN a[i] ELSE b[i - Len(a)]
  BY ConcatProperties
<1> DEFINE c == a \o b
<1>3. Piece(c)
  OBVIOUS
<1> HIDE DEF c
<1>4. /\ Len(c) = Len(a) + Len(b)
      /\ \A i \in 1 .. Len(a) : c[i] = a[i] /\ i \in 1 .. Len(c)
      /\ \A i \in 1 .. Len(b) : c[Len(a) + i] = b[i] /\ Len(a) + i \in 1 .. Len(c)
  BY <1>1, <1>2 DEF c
<1>5. Piece(a)
  <2>1. \A p \in 1 .. Len(a) : a[p].msg \in DOMAIN script /\ a[p].at \in 1 .. MsgLen(a[p].msg)
    BY <1>3, <1>4 DEF Piece
  <2>2. ASSUME NEW p \in 1 .. Len(a) - 1 PROVE Follows(a[p], a[p + 1])
    <3>1. p \in 1 .. Len(a) /\ p + 1 \in 1 .. Len(a) /\ p \in 1 .. Len(c) - 1
      BY <1>1, <1>4
    <3>2. Follows(c[p], c[p + 1])
      BY <1>3, <3>1 DEF Piece
    <3> QED BY <1>4, <3>1, <3>2
  <2> QED BY <2>1, <2>2 DEF Piece
<1>6. Piece(b)
  <2>1. \A p \in 1 .. Len(b) : b[p].msg \in DOMAIN script /\ b[p].at \in 1 .. MsgLen(b[p].msg)
    BY <1>3, <1>4 DEF Piece
  <2>2. ASSUME NEW p \in 1 .. Len(b) - 1 PROVE Follows(b[p], b[p + 1])
    <3>1. /\ p \in 1 .. Len(b) /\ p + 1 \in 1 .. Len(b) /\ Len(a) + p \in 1 .. Len(c) - 1
          /\ Len(a) + (p + 1) = (Len(a) + p) + 1
      BY <1>1, <1>4
    <3>2. Follows(c[Len(a) + p], c[(Len(a) + p) + 1])
      BY <1>3, <3>1 DEF Piece
    <3> QED BY <1>4, <3>1, <3>2
  <2> QED BY <2>1, <2>2 DEF Piece
<1>7. ASSUME a # <<>>, b # <<>> PROVE Follows(a[Len(a)], b[1])
  <2>1. Len(a) \in 1 .. Len(c) - 1 /\ Len(a) \in 1 .. Len(a) /\ 1 \in 1 .. Len(b)
    BY <1>1, <1>4, <1>7, EmptySeq
  <2>2. Follows(c[Len(a)], c[Len(a) + 1])
    BY <1>3, <2>1 DEF Piece
  <2> QED BY <1>4, <2>1, <2>2
<1> QED BY <1>5, <1>6, <1>7

(* A piece that begins with the beginning of a message holds the message,  *)
(* as far as it goes, and the next one follows.                            *)
LEMMA PieceRuns ==
  ASSUME Script, NEW s, Piece(s), s # <<>>, s[1].at = 1
  PROVE  /\ s[1].msg \in 1 .. Len(script)
         /\ \A p \in 1 .. Len(s) : p <= MsgLen(s[1].msg) => s[p] = [msg |-> s[1].msg, at |-> p]
         /\ \A p \in 1 .. Len(s) : p = MsgLen(s[1].msg) + 1 => s[p].msg = s[1].msg + 1 /\ s[p].at = 1
<1> DEFINE m == s[1].msg
           S == {p \in Nat : p + 1 \in 1 .. Len(s) /\ p + 1 <= MsgLen(m)
                                => s[p + 1].msg = m /\ s[p + 1].at = p + 1}
<1>1. Len(s) \in Nat /\ Len(s) >= 1 /\ s \in Seq(AllBytes)
  BY LenProperties, EmptySeq DEF Piece
<1>2. m \in 1 .. Len(script) /\ MsgLen(m) \in Nat /\ MsgLen(m) >= 1
  <2>1. s[1].msg \in DOMAIN script
    BY <1>1 DEF Piece
  <2> QED BY <2>1, ScriptTypes
<1>3. 0 \in S
  OBVIOUS
<1>4. ASSUME NEW p \in Nat, p \in S PROVE p + 1 \in S
  <2> SUFFICES ASSUME (p + 1) + 1 \in 1 .. Len(s), (p + 1) + 1 <= MsgLen(m)
               PROVE  s[(p + 1) + 1].msg = m /\ s[(p + 1) + 1].at = (p + 1) + 1
    BY <1>4
  <2>1. p + 1 \in 1 .. Len(s) - 1 /\ p + 1 \in 1 .. Len(s) /\ p + 1 <= MsgLen(m) /\ p + 1 # MsgLen(m)
    BY <1>1, <1>2
  <2>2. s[p + 1].msg = m /\ s[p + 1].at = p + 1
    BY <1>4, <2>1
  <2>3. Follows(s[p + 1], s[(p + 1) + 1])
    BY <2>1 DEF Piece
  <2> QED BY <2>1, <2>2, <2>3 DEF Follows
<1> HIDE DEF S
<1>5. \A p \in Nat : p \in S
  BY <1>3, <1>4, NatSetInduction
<1>6. ASSUME NEW p \in 1 .. Len(s), p <= MsgLen(m)
      PROVE  s[p].msg = m /\ s[p].at = p /\ s[p] \in AllBytes
  <2>1. p - 1 \in Nat /\ (p - 1) + 1 = p
    BY <1>1
  <2>2. p - 1 \in S
    BY <1>5, <2>1
  <2>3. s[p].msg = m /\ s[p].at = p
    BY <1>6, <2>1, <2>2 DEF S
  <2> QED BY <1>1, <2>3, ElementOfSeq
<1>7. ASSUME NEW p \in 1 .. Len(s), p <= MsgLen(m)
      PROVE  s[p] = [msg |-> m, at |-> p]
  BY <1>6, <1>7 DEF AllBytes
<1>8. ASSUME NEW p \in 1 .. Len(s), p = MsgLen(m) + 1
      PROVE  s[p].msg = m + 1 /\ s[p].at = 1
  <2>1. MsgLen(m) \in 1 .. Len(s) - 1 /\ MsgLen(m) \in 1 .. Len(s)
    BY <1>1, <1>2, <1>8
  <2>2. s[MsgLen(m)].msg = m /\ s[MsgLen(m)].at = MsgLen(m)
    BY <1>2, <1>6, <2>1
  <2>3. Follows(s[MsgLen(m)], s[p])
    BY <1>8, <2>1 DEF Piece
  <2>4. \/ s[p].msg = m /\ s[p].at = MsgLen(m) + 1
        \/ s[p].msg = m + 1 /\ s[p].at = 1
    BY <2>2, <2>3 DEF Follows
  <2>5. s[p].at \in 1 .. MsgLen(s[p].msg)
    BY DEF Piece
  <2> QED BY <1>2, <2>4, <2>5
<1> QED BY <1>2, <1>7, <1>8

LEMMA StreamExists ==
  ASSUME NEW N \in Nat
  PROVE  \E g : g = [n \in 0 .. N |-> IF n = 0 THEN <<>> ELSE g[n-1] \o Bytes(n)]
<1> DEFINE Upto(k, g) == /\ DOMAIN g = 0 .. k
                         /\ g = [n \in 0 .. k |-> g[n]]
                         /\ \A n \in 0 .. k : g[n] = IF n = 0 THEN <<>> ELSE g[n-1] \o Bytes(n)
           Some(k) == \E g : Upto(k, g)
           S == {k \in Nat : Some(k)}
<1>1. 0 \in S
  <2>1. Upto(0, [n \in 0 .. 0 |-> <<>>])
    OBVIOUS
  <2> QED BY <2>1
<1>2. ASSUME NEW k \in Nat, k \in S PROVE k + 1 \in S
  <2> HIDE DEF Some
  <2>1. Some(k)
    BY <1>2
  <2>2. PICK g : Upto(k, g)
    BY <2>1 DEF Some
  <2> DEFINE e == g[k] \o Bytes(k + 1)
  <2> HIDE DEF e
  <2> DEFINE h == [n \in 0 .. k + 1 |-> IF n = k + 1 THEN e ELSE g[n]]
  <2>3. DOMAIN h = 0 .. k + 1 /\ (\A n \in 0 .. k : h[n] = g[n]) /\ h[k + 1] = e
    OBVIOUS
  <2>0. h = [n \in 0 .. k + 1 |-> h[n]]
    OBVIOUS
  <2> HIDE DEF h
  <2>4. ASSUME NEW n \in 0 .. k + 1
        PROVE  h[n] = IF n = 0 THEN <<>> ELSE h[n-1] \o Bytes(n)
    <3>1. CASE n = k + 1
      <4>1. k \in 0 .. k /\ n - 1 = k /\ n # 0
        BY <3>1
      <4> QED BY <2>3, <3>1, <4>1 DEF e
    <3>2. CASE n = 0
      <4>1. 0 \in 0 .. k
        OBVIOUS
      <4>2. g[0] = <<>>
        BY <2>2, <4>1
      <4> QED BY <2>3, <3>2, <4>1, <4>2
    <3>3. CASE n \in 1 .. k
      <4>1. n \in 0 .. k /\ n - 1 \in 0 .. k /\ n # 0
        BY <3>3
      <4>2. g[n] = g[n-1] \o Bytes(n)
        BY <2>2, <4>1
      <4> QED BY <2>3, <4>1, <4>2
    <3> QED BY <3>1, <3>2, <3>3
  <2>5. Upto(k + 1, h)
    BY <2>0, <2>3, <2>4
  <2>6. Some(k + 1)
    BY <2>5 DEF Some
  <2> QED BY <2>6
<1> HIDE DEF S
<1>3. N \in S
  BY <1>1, <1>2, NatSetInduction
<1>4. PICK g : Upto(N, g)
  BY <1>3 DEF S
<1>5. g = [n \in 0 .. N |-> IF n = 0 THEN <<>> ELSE g[n-1] \o Bytes(n)]
  BY <1>4
<1> QED BY <1>5

(* The stream is all of the messages, one behind the other. *)
LEMMA StreamPiece ==
  ASSUME Script
  PROVE  /\ Piece(Stream) /\ EndsWhole(Stream)
         /\ Stream # <<>> => Stream[1].at = 1
<1> DEFINE N == Len(script)
           upto == CHOOSE g : g = [n \in 0 .. N |-> IF n = 0 THEN <<>> ELSE g[n-1] \o Bytes(n)]
           Good(n, s) == /\ Piece(s)
                         /\ n = 0 => s = <<>>
                         /\ n > 0 => /\ s # <<>> /\ s[1].at = 1
                                     /\ s[Len(s)].msg = n /\ s[Len(s)].at = MsgLen(n)
           S == {n \in Nat : n <= N => Good(n, upto[n])}
<1>1. N \in Nat
  BY ScriptTypes
<1>2. Stream = upto[N]
  BY DEF Stream
<1>3. upto = [n \in 0 .. N |-> IF n = 0 THEN <<>> ELSE upto[n-1] \o Bytes(n)]
  BY <1>1, StreamExists
<1> HIDE DEF upto
<1>4. \A n \in 0 .. N : upto[n] = IF n = 0 THEN <<>> ELSE upto[n-1] \o Bytes(n)
  BY <1>3
<1>5. 0 \in S
  <2>1. upto[0] = <<>>
    BY <1>1, <1>4
  <2>2. Piece(<<>>)
    BY EmptySeq DEF Piece
  <2> QED BY <2>1, <2>2
<1>6. ASSUME NEW n \in Nat, n \in S PROVE n + 1 \in S
  <2> HIDE DEF Good
  <2> SUFFICES ASSUME n + 1 <= N PROVE Good(n + 1, upto[n + 1])
    BY DEF S
  <2>1. Good(n, upto[n])
    BY <1>1, <1>6
  <2> DEFINE a == upto[n]
             b == Bytes(n + 1)
  <2>2. upto[n + 1] = a \o b
    <3>1. n + 1 \in 0 .. N /\ n + 1 # 0 /\ (n + 1) - 1 = n
      BY <1>1
    <3> QED BY <1>4, <3>1
  <2>3. n + 1 \in 1 .. Len(script) /\ MsgLen(n + 1) \in Nat /\ MsgLen(n + 1) >= 1
    BY <1>1, ScriptTypes
  <2>4. /\ Piece(b) /\ Len(b) = MsgLen(n + 1)
        /\ \A p \in 1 .. MsgLen(n + 1) : b[p] = [msg |-> n + 1, at |-> p]
    BY <2>3, BytesPiece
  <2>5. b[1] = [msg |-> n + 1, at |-> 1] /\ b[Len(b)] = [msg |-> n + 1, at |-> MsgLen(n + 1)]
    BY <2>3, <2>4
  <2>6. /\ b[1].msg = n + 1 /\ b[1].at = 1
        /\ b[Len(b)].msg = n + 1 /\ b[Len(b)].at = MsgLen(n + 1)
    BY <2>5
  <2>7. Piece(a) /\ (a # <<>> => a[1].at = 1 /\ a[Len(a)].msg = n /\ a[Len(a)].at = MsgLen(n))
    BY <2>1 DEF Good
  <2> HIDE DEF a, b
  <2>8. Piece(a \o b)
    BY <2>4, <2>6, <2>7, PieceJoin DEF Follows
  <2>9. /\ a \in Seq(AllBytes) /\ b \in Seq(AllBytes)
        /\ Len(a) \in Nat /\ Len(b) \in Nat /\ Len(b) >= 1
    BY <2>3, <2>4, <2>7, LenProperties DEF Piece
  <2>10. /\ Len(a \o b) = Len(a) + Len(b)
         /\ \A i \in 1 .. Len(a) + Len(b) :
               (a \o b)[i] = IF i <= Len(a) THEN a[i] ELSE b[i - Len(a)]
    BY <2>9, ConcatProperties
  <2>11. (a \o b)[Len(a \o b)] = b[Len(b)]
    BY <2>9, <2>10
  <2>12. (a \o b)[1].at = 1
    <3>1. CASE a = <<>>
      BY <2>6, <2>9, <2>10, <3>1, EmptySeq
    <3>2. CASE a # <<>>
      BY <2>7, <2>9, <2>10, <3>2, EmptySeq
    <3> QED BY <3>1, <3>2
  <2>13. a \o b # <<>>
    BY <2>9, <2>10, EmptySeq
  <2> QED BY <2>2, <2>6, <2>8, <2>11, <2>12, <2>13 DEF Good
<1> HIDE DEF S
<1>7. N \in S
  BY <1>1, <1>5, <1>6, NatSetInduction
<1>8. Good(N, Stream)
  BY <1>1, <1>2, <1>7 DEF S
<1> QED BY <1>1, <1>8 DEF EndsWhole

(* A sequence of bytes cut in two. *)
LEMMA Cut ==
  ASSUME NEW b \in Seq(AllBytes), NEW n \in 0 .. Len(b)
  PROVE  /\ SubSeq(b, 1, n) \in Seq(AllBytes) /\ Len(SubSeq(b, 1, n)) = n
         /\ SubSeq(b, n + 1, Len(b)) \in Seq(AllBytes)
         /\ Len(SubSeq(b, n + 1, Len(b))) = Len(b) - n
         /\ \A i \in 1 .. Len(b) - n : SubSeq(b, n + 1, Len(b))[i] = b[n + i]
         /\ SubSeq(b, 1, n) \o SubSeq(b, n + 1, Len(b)) = b
<1>1. Len(b) \in Nat
  BY LenProperties
<1>2. \A i \in 1 .. Len(b) : b[i] \in AllBytes
  BY ElementOfSeq
<1> DEFINE L == Len(b)
           x == SubSeq(b, 1, n)
           y == SubSeq(b, n + 1, L)
<1>3. x \in Seq(AllBytes) /\ Len(x) = IF 1 <= n THEN n - 1 + 1 ELSE 0
  <2>1. \A i \in 1 .. n : b[i] \in AllBytes
    BY <1>1, <1>2
  <2> QED BY <1>1, <2>1, SubSeqProperties
<1>4. /\ y \in Seq(AllBytes) /\ Len(y) = IF n + 1 <= L THEN L - (n + 1) + 1 ELSE 0
      /\ \A i \in 1 .. L - (n + 1) + 1 : y[i] = b[(n + 1) + i - 1]
  <2>1. \A i \in n + 1 .. L : b[i] \in AllBytes
    BY <1>1, <1>2
  <2>2. n + 1 \in Int /\ L \in Int
    BY <1>1
  <2> QED BY <2>1, <2>2, SubSeqProperties
<1>5. x \o y = SubSeq(b, 1, L)
  <2>1. 1 \in 1 .. L + 1 /\ n \in 1 - 1 .. L /\ L \in n .. L
    BY <1>1
  <2> QED BY <2>1, ConcatAdjacentSubSeq
<1>6. x \o y = b
  BY <1>5, SubSeqFull
<1> HIDE DEF x, y
<1>7. Len(x) = n /\ Len(y) = L - n
  BY <1>1, <1>3, <1>4
<1>8. \A i \in 1 .. L - n : y[i] = b[n + i]
  <2> SUFFICES ASSUME NEW i \in 1 .. L - n PROVE y[i] = b[n + i]
    OBVIOUS
  <2>1. i \in 1 .. L - (n + 1) + 1 /\ (n + 1) + i - 1 = n + i
    BY <1>1
  <2> QED BY <1>4, <2>1
<1> QED BY <1>3, <1>4, <1>6, <1>7, <1>8 DEF x, y

-----------------------------------------------------------------------------
(* The parser.                                                             *)

LEMMA EarliestIs ==
  ASSUME NEW P \in SUBSET Nat
  PROVE  /\ P = {} => Earliest(P) = 0
         /\ P # {} => Earliest(P) \in P /\ \A y \in P : Earliest(P) <= y
<1>1. CASE P # {}
  <2>1. PICK x \in P : \A y \in P : x <= y
    BY <1>1, LeastElement
  <2>2. Min(P) = x
    BY <2>1, LeastIsMin
  <2> QED BY <1>1, <2>1, <2>2 DEF Earliest
<1>2. CASE P = {}
  BY <1>2 DEF Earliest
<1> QED BY <1>1, <1>2

LEMMA MinOfTwo ==
  ASSUME NEW x \in Int, NEW y \in Int
  PROVE  Min({x, y}) = IF x <= y THEN x ELSE y
<1>1. CASE x <= y
  BY <1>1, LeastIsMin
<1>2. CASE ~(x <= y)
  <2>1. y < x
    BY <1>2
  <2> QED BY <1>2, <2>1, LeastIsMin
<1> QED BY <1>1, <1>2

(* What is where in a message, with t for the length of its first line, f  *)
(* for its fields and h for its head. *)
LEMMA KindTable ==
  ASSUME NEW t \in Nat, NEW f \in Nat, NEW h \in Nat, NEW p \in Nat, h >= t + f + 2,
         NEW k, NEW blank, NEW length,
         k = CASE p <= t                  -> "text"
               [] p = t + 1               -> "newline"
               [] p - (t + 1) \in 1 .. f  -> "field"
               [] p > h                   -> "body"
               [] p = h                   -> blank
               [] OTHER                   -> length
  PROVE  /\ p <= t => k = "text"
         /\ p = t + 1 => k = "newline"
         /\ p \in t + 2 .. t + f + 1 => k = "field"
         /\ p \in t + f + 2 .. h - 1 => k = length
         /\ p = h => k = blank
         /\ p > h => k = "body"
<1>1. ASSUME p <= t PROVE k = "text"
  <2>1. p # t + 1 /\ p - (t + 1) \notin 1 .. f /\ ~(p > h) /\ p # h
    BY <1>1
  <2> QED BY <1>1, <2>1
<1>2. ASSUME p = t + 1 PROVE k = "newline"
  <2>1. ~(p <= t) /\ p - (t + 1) \notin 1 .. f /\ ~(p > h) /\ p # h
    BY <1>2
  <2> QED BY <1>2, <2>1
<1>3. ASSUME p \in t + 2 .. t + f + 1 PROVE k = "field"
  <2>1. ~(p <= t) /\ p # t + 1 /\ p - (t + 1) \in 1 .. f /\ ~(p > h) /\ p # h
    BY <1>3
  <2> QED BY <2>1
<1>4. ASSUME p \in t + f + 2 .. h - 1 PROVE k = length
  <2>1. ~(p <= t) /\ p # t + 1 /\ p - (t + 1) \notin 1 .. f /\ ~(p > h) /\ p # h
    BY <1>4
  <2> QED BY <2>1
<1>5. ASSUME p = h PROVE k = blank
  <2>1. ~(p <= t) /\ p # t + 1 /\ p - (t + 1) \notin 1 .. f /\ ~(p > h)
    BY <1>5
  <2> QED BY <1>5, <2>1
<1>6. ASSUME p > h PROVE k = "body"
  <2>1. ~(p <= t) /\ p # t + 1 /\ p - (t + 1) \notin 1 .. f /\ p # h
    BY <1>6
  <2> QED BY <1>6, <2>1
<1> QED BY <1>1, <1>2, <1>3, <1>4, <1>5, <1>6

Layout(k, p, m, t, f, h) ==
    /\ h = HeadLen(m) /\ t = m.text /\ f = m.fields
    /\ h = t + f + 2 + (IF m.length = "none" THEN 0 ELSE 1)
    /\ p <= t => k = "text"
    /\ p = t + 1 => k = "newline"
    /\ p \in t + 2 .. t + f + 1 => k = "field"
    /\ p \in t + f + 2 .. h - 1 => k = m.length
    /\ p = h => k = m.blank
    /\ p > h => k = "body"

LEMMA KindsOf ==
  ASSUME Script, NEW n \in 1 .. Len(script), NEW p \in 1 .. MsgLen(n),
         NEW b, b.msg = n, b.at = p
  PROVE  \E t, f, h \in Nat : Layout(Kind(b), p, script[n], t, f, h)
<1> DEFINE m == script[n]
<1>1. m \in Messages /\ MsgLen(n) \in Nat
  BY ScriptTypes
<1>2. PICK t \in Nat, f \in Nat, h \in Nat : t = m.text /\ f = m.fields /\ h = HeadLen(m)
  BY <1>1, MessageTypes
<1>3. h = t + 1 + f + (IF m.length = "none" THEN 0 ELSE 1) + 1
  BY <1>2 DEF HeadLen
<1>4. h = t + f + 2 + (IF m.length = "none" THEN 0 ELSE 1) /\ h >= t + f + 2 /\ p \in Nat
  BY <1>1, <1>3
<1>5. Kind(b) = CASE p <= t                  -> "text"
                  [] p = t + 1               -> "newline"
                  [] p - (t + 1) \in 1 .. f  -> "field"
                  [] p > h                   -> "body"
                  [] p = h                   -> m.blank
                  [] OTHER                   -> m.length
  BY <1>2 DEF Kind
<1> HIDE DEF m
<1>6. /\ p <= t => Kind(b) = "text"
      /\ p = t + 1 => Kind(b) = "newline"
      /\ p \in t + 2 .. t + f + 1 => Kind(b) = "field"
      /\ p \in t + f + 2 .. h - 1 => Kind(b) = m.length
      /\ p = h => Kind(b) = m.blank
      /\ p > h => Kind(b) = "body"
  BY <1>4, <1>5, KindTable, SMTT(30)
<1>7. Layout(Kind(b), p, m, t, f, h)
  BY <1>2, <1>4, <1>6 DEF Layout
<1> QED BY <1>7 DEF m

LEMMA Kinds ==
  ASSUME Script, NEW n \in 1 .. Len(script), NEW p \in 1 .. MsgLen(n),
         NEW b, b.msg = n, b.at = p
  PROVE  /\ Kind(b) \in {"crlf", "lf"} <=> p = HeadLen(script[n])
         /\ p = HeadLen(script[n]) => Kind(b) = script[n].blank
         /\ Kind(b) \in {"exact", "other"} => Kind(b) = script[n].length
<1> DEFINE m == script[n]
<1>1. m \in Messages /\ MsgLen(n) \in Nat
  BY ScriptTypes
<1>2. m.blank \in {"crlf", "lf"} /\ m.length \in {"exact", "other", "none"}
  BY <1>1, MessageTypes
<1>0. PICK t, f, h \in Nat : Layout(Kind(b), p, m, t, f, h)
  BY KindsOf
<1> HIDE DEF m
<1>3. /\ h = HeadLen(m) /\ t = m.text /\ f = m.fields
      /\ h = t + f + 2 + (IF m.length = "none" THEN 0 ELSE 1)
      /\ p <= t => Kind(b) = "text"
      /\ p = t + 1 => Kind(b) = "newline"
      /\ p \in t + 2 .. t + f + 1 => Kind(b) = "field"
      /\ p \in t + f + 2 .. h - 1 => Kind(b) = m.length
      /\ p = h => Kind(b) = m.blank
      /\ p > h => Kind(b) = "body"
  BY <1>0 DEF Layout
<1>4. \/ p <= t \/ p = t + 1 \/ p \in t + 2 .. t + f + 1
      \/ p \in t + f + 2 .. h - 1 \/ p = h \/ p > h
  BY <1>1
<1>5. p # h => Kind(b) \in {"text", "newline", "field", "body", m.length}
  BY <1>3, <1>4
<1>6. p = h => Kind(b) = m.blank
  BY <1>3
<1>7. Kind(b) \in {"crlf", "lf"} <=> p = h
  BY <1>2, <1>5, <1>6
<1>8. Kind(b) \in {"exact", "other"} => Kind(b) = m.length
  BY <1>2, <1>5, <1>6
<1> QED BY <1>3, <1>6, <1>7, <1>8 DEF m

(* The head without its fields is the first line and the blank line. *)
LEMMA HeadLenIs ==
  ASSUME NEW m \in Messages
  PROVE  /\ HasFields(m) => HeadLen(m) > m.text + 2
         /\ ~HasFields(m) => HeadLen(m) = m.text + 2 /\ m.length = "none"
<1>1. PICK t \in Nat, f \in Nat, e \in {0, 1} :
          /\ t = m.text /\ f = m.fields
          /\ e = IF m.length = "none" THEN 0 ELSE 1
  BY MessageTypes
<1>2. HeadLen(m) = t + 1 + f + e + 1
  BY <1>1 DEF HeadLen
<1>3. HasFields(m) => f > 0 \/ e = 1
  BY <1>1 DEF HasFields
<1>4. ~HasFields(m) => f = 0 /\ e = 0 /\ m.length = "none"
  BY <1>1 DEF HasFields
<1>5. /\ HasFields(m) => HeadLen(m) > t + 2
      /\ ~HasFields(m) => HeadLen(m) = t + 2
  BY <1>2, <1>3, <1>4
<1> QED BY <1>1, <1>4, <1>5

(* Content-Length comes from message q, if that is the only one in front   *)
(* of the blank line that has such a field.                                *)
LEMMA ParsedLengthIs ==
  ASSUME Script, NEW s, Piece(s), NEW end \in 1 .. Len(s), NEW q \in 1 .. Len(script),
         \A p \in 1 .. end - 1 : Kind(s[p]) \in {"exact", "other"} =>
                                    s[p].msg = q /\ script[q].length # "none"
  PROVE  \/ ParsedLength(s, end) = 0
         \/ ParsedLength(s, end) = script[q].announced /\ script[q].length # "none"
<1> DEFINE known == {p \in Places(s, {"field", "exact", "other"}) : p < end}
           found == {p \in known \cap Places(s, {"exact", "other"}) :
                        Cardinality({k \in known : k <= p}) <= MaxHeaders}
<1>1. ParsedLength(s, end) = IF found = {} THEN 0 ELSE script[s[Max(found)].msg].announced
  BY DEF ParsedLength
<1>2. Len(s) \in Nat /\ DOMAIN s = 1 .. Len(s)
  BY LenProperties DEF Piece
<1>3. \A p \in found : p \in 1 .. end - 1 /\ Kind(s[p]) \in {"exact", "other"}
  BY <1>2 DEF Places
<1> HIDE DEF found
<1>4. found \in SUBSET (0 .. Len(s))
  <2> SUFFICES ASSUME NEW p \in found PROVE p \in 0 .. Len(s)
    OBVIOUS
  <2>1. p \in 1 .. end - 1
    BY <1>3
  <2> QED BY <1>2, <2>1
<1>5. CASE found # {}
  <2>1. Max(found) \in found
    BY <1>2, <1>4, <1>5, GreatestElement
  <2>2. PICK p \in 1 .. end - 1 : p = Max(found) /\ Kind(s[p]) \in {"exact", "other"}
    BY <1>3, <2>1
  <2>3. s[p].msg = q /\ script[q].length # "none"
    BY <2>2
  <2> QED BY <1>1, <1>5, <2>2, <2>3
<1> QED BY <1>1, <1>5

(* Message q begins behind the first o bytes of s, and the next one follows*)
(* it; either may go beyond the end of s.                                  *)
HasMessage(s, o, q) ==
    /\ \A p \in 1 .. Len(s) : p > o /\ p <= o + MsgLen(q) => s[p] = [msg |-> q, at |-> p - o]
    /\ \A p \in 1 .. Len(s) : p = o + MsgLen(q) + 1 => s[p].msg = q + 1 /\ s[p].at = 1

LEMMA FirstMessage ==
  ASSUME Script, NEW s, Piece(s), s # <<>>, s[1].at = 1
  PROVE  s[1].msg \in 1 .. Len(script) /\ HasMessage(s, 0, s[1].msg)
<1> DEFINE n == s[1].msg
<1>1. /\ n \in 1 .. Len(script)
      /\ \A p \in 1 .. Len(s) : p <= MsgLen(n) => s[p] = [msg |-> n, at |-> p]
      /\ \A p \in 1 .. Len(s) : p = MsgLen(n) + 1 => s[p].msg = n + 1 /\ s[p].at = 1
  BY PieceRuns
<1>2. MsgLen(n) \in Nat
  BY <1>1, ScriptTypes
<1>3. Len(s) \in Nat
  BY LenProperties DEF Piece
<1> HIDE DEF n
<1>4. \A p \in 1 .. Len(s) : p - 0 = p /\ 0 + MsgLen(n) = MsgLen(n)
  BY <1>2, <1>3
<1>5. HasMessage(s, 0, n)
  BY <1>1, <1>2, <1>4 DEF HasMessage
<1> QED BY <1>1, <1>5 DEF n

(* The message behind the first one. *)
LEMMA NextMessage ==
  ASSUME Script, NEW s, Piece(s), NEW n \in 1 .. Len(script), HasMessage(s, 0, n),
         MsgLen(n) < Len(s)
  PROVE  n + 1 \in 1 .. Len(script) /\ HasMessage(s, MsgLen(n), n + 1)
<1> DEFINE o == MsgLen(n)
           t == SubSeq(s, o + 1, Len(s))
<1>1. s \in Seq(AllBytes) /\ Len(s) \in Nat /\ o \in Nat /\ o >= 1
  BY ScriptTypes, LenProperties DEF Piece
<1>2. o \in 0 .. Len(s) /\ o + 1 \in 1 .. Len(s) /\ 0 + o + 1 = o + 1
  BY <1>1
<1>3. s[o + 1].msg = n + 1 /\ s[o + 1].at = 1
  BY <1>2 DEF HasMessage
<1>4. /\ SubSeq(s, 1, o) \in Seq(AllBytes) /\ t \in Seq(AllBytes)
      /\ Len(t) = Len(s) - o
      /\ \A i \in 1 .. Len(s) - o : t[i] = s[o + i]
      /\ SubSeq(s, 1, o) \o t = s
  BY <1>1, <1>2, Cut
<1>5. Piece(t)
  BY <1>4, PieceSplit
<1> HIDE DEF t, o
<1>6. 1 \in 1 .. Len(s) - o /\ Len(t) # 0
  BY <1>1, <1>2, <1>4
<1>7. t # <<>> /\ t[1].msg = n + 1 /\ t[1].at = 1
  <2>1. t[1] = s[o + 1]
    BY <1>4, <1>6
  <2> QED BY <1>3, <1>6, <2>1, EmptySeq
<1>8. /\ n + 1 \in 1 .. Len(script)
      /\ \A p \in 1 .. Len(t) : p <= MsgLen(n + 1) => t[p] = [msg |-> n + 1, at |-> p]
      /\ \A p \in 1 .. Len(t) : p = MsgLen(n + 1) + 1 => t[p].msg = n + 2 /\ t[p].at = 1
  <2>1. /\ t[1].msg \in 1 .. Len(script)
        /\ \A p \in 1 .. Len(t) : p <= MsgLen(t[1].msg) => t[p] = [msg |-> t[1].msg, at |-> p]
        /\ \A p \in 1 .. Len(t) : p = MsgLen(t[1].msg) + 1
                                     => t[p].msg = t[1].msg + 1 /\ t[p].at = 1
    BY <1>5, <1>7, PieceRuns
  <2>2. (n + 1) + 1 = n + 2
    BY ScriptTypes
  <2> QED BY <1>7, <2>1, <2>2
<1>9. MsgLen(n + 1) \in Nat /\ n \in Nat
  BY <1>8, ScriptTypes
<1>10. ASSUME NEW p \in 1 .. Len(s), p > o
       PROVE  p - o \in 1 .. Len(t) /\ s[p] = t[p - o]
  <2>1. p - o \in 1 .. Len(t) /\ p - o \in 1 .. Len(s) - o /\ o + (p - o) = p
    BY <1>1, <1>4, <1>10
  <2> QED BY <1>4, <2>1
<1>11. ASSUME NEW p \in 1 .. Len(s), p > o, p <= o + MsgLen(n + 1)
       PROVE  s[p] = [msg |-> n + 1, at |-> p - o]
  <2>1. p - o <= MsgLen(n + 1)
    BY <1>1, <1>9, <1>11
  <2> QED BY <1>8, <1>10, <1>11, <2>1
<1>12. ASSUME NEW p \in 1 .. Len(s), p = o + MsgLen(n + 1) + 1
       PROVE  s[p].msg = (n + 1) + 1 /\ s[p].at = 1
  <2>1. p > o /\ p - o = MsgLen(n + 1) + 1 /\ (n + 1) + 1 = n + 2
    BY <1>1, <1>9, <1>12
  <2> QED BY <1>8, <1>10, <2>1
<1>13. HasMessage(s, o, n + 1)
  BY <1>11, <1>12 DEF HasMessage
<1> QED BY <1>8, <1>13 DEF o

(* What the parser sees of a message that is somewhere in s. *)
LEMMA KindsIn ==
  ASSUME Script, NEW s, Piece(s), NEW o \in Nat, NEW q \in 1 .. Len(script), HasMessage(s, o, q),
         NEW p \in 1 .. Len(s), p > o, p <= o + MsgLen(q)
  PROVE  /\ p - o \in 1 .. MsgLen(q) /\ s[p].msg = q /\ s[p].at = p - o
         /\ Kind(s[p]) \in {"crlf", "lf"} <=> p = o + HeadLen(script[q])
         /\ Kind(s[p]) \in {"exact", "other"} => script[q].length # "none"
<1>1. MsgLen(q) \in Nat /\ Len(s) \in Nat /\ script[q] \in Messages
  BY ScriptTypes, LenProperties DEF Piece
<1>2. HeadLen(script[q]) \in Nat
  BY <1>1, MessageTypes
<1>3. p - o \in 1 .. MsgLen(q) /\ (p - o = HeadLen(script[q]) <=> p = o + HeadLen(script[q]))
  BY <1>1, <1>2
<1>4. s[p] = [msg |-> q, at |-> p - o]
  BY DEF HasMessage
<1>5. s[p].msg = q /\ s[p].at = p - o
  BY <1>4
<1>6. /\ Kind(s[p]) \in {"crlf", "lf"} <=> p - o = HeadLen(script[q])
      /\ Kind(s[p]) \in {"exact", "other"} => Kind(s[p]) = script[q].length
  BY <1>3, <1>5, Kinds
<1>7. Kind(s[p]) \in {"exact", "other"} => script[q].length # "none"
  BY <1>6
<1> QED BY <1>3, <1>5, <1>6, <1>7

LEMMA FirstLineEndIs ==
  ASSUME Script, NEW s, Piece(s), s # <<>>, s[1].at = 1, FirstLineEnd(s) # 0
  PROVE  FirstLineEnd(s) = script[s[1].msg].text + 1
<1> DEFINE n == s[1].msg
           t == script[n].text
           E == {"newline", "field", "exact", "other", "crlf", "lf"}
           P == Places(s, E)
<1>1. n \in 1 .. Len(script) /\ HasMessage(s, 0, n)
  BY FirstMessage
<1>2. /\ Len(s) \in Nat /\ DOMAIN s = 1 .. Len(s)
      /\ MsgLen(n) \in Nat /\ t \in Nat /\ t + 2 <= MsgLen(n)
  <2>1. script[n] \in Messages
    BY <1>1, ScriptTypes
  <2>2. /\ t \in Nat /\ HeadLen(script[n]) \in Nat /\ HeadLen(script[n]) >= t + 2
        /\ script[n].body \in Nat
    BY <2>1, MessageTypes
  <2>3. MsgLen(n) \in Nat /\ t + 2 <= MsgLen(n)
    BY <2>2 DEF MsgLen
  <2> QED BY <2>2, <2>3, LenProperties DEF Piece
<1> HIDE DEF n, t
<1>3. ASSUME NEW p \in 1 .. Len(s), p <= t + 1
      PROVE  /\ p <= t => Kind(s[p]) = "text"
             /\ p = t + 1 => Kind(s[p]) = "newline"
  <2>0. PICK o \in Nat : o = 0
    OBVIOUS
  <2>1. HasMessage(s, o, n) /\ p > o /\ p <= o + MsgLen(n) /\ p - o = p
    BY <1>1, <1>2, <1>3, <2>0
  <2>2. p \in 1 .. MsgLen(n) /\ s[p].msg = n /\ s[p].at = p
    BY <1>1, <2>1, KindsIn
  <2>3. PICK tt, f, h \in Nat : Layout(Kind(s[p]), p, script[n], tt, f, h)
    BY <1>1, <2>2, KindsOf
  <2> QED BY <2>3 DEF Layout, t
<1>4. P \in SUBSET Nat /\ \A p \in P : p \in 1 .. Len(s) /\ Kind(s[p]) \in E
  BY <1>2 DEF Places
<1>5. P # {} /\ FirstLineEnd(s) = Earliest(P)
  BY <1>4, EarliestIs DEF FirstLineEnd
<1>6. PICK e \in P : e = FirstLineEnd(s) /\ \A y \in P : e <= y
  BY <1>4, <1>5, EarliestIs
<1>7. e \in 1 .. Len(s) /\ Kind(s[e]) \in E
  BY <1>4, <1>6
<1>8. e >= t + 1
  <2> SUFFICES ASSUME e <= t PROVE FALSE
    BY <1>2, <1>7
  <2>1. Kind(s[e]) = "text"
    BY <1>2, <1>3, <1>7
  <2> QED BY <1>7, <2>1
<1>9. t + 1 \in 1 .. Len(s)
  BY <1>2, <1>7, <1>8
<1>10. t + 1 \in P
  BY <1>2, <1>3, <1>9 DEF Places
<1> QED BY <1>2, <1>6, <1>7, <1>8, <1>10 DEF t, n

(* Where the parser finds the end of the head: in the first message, or,   *)
(* if that has no fields, in the next one.                                 *)
LEMMA HeadEndIs ==
  ASSUME Script, NEW s, Piece(s), s # <<>>, s[1].at = 1, FirstLineEnd(s) # 0, HeadEnd(s) # 0
  PROVE  \E o \in Nat, q \in 1 .. Len(script) :
            /\ HasMessage(s, o, q)
            /\ HeadEnd(s) \in 1 .. Len(s) /\ HeadEnd(s) = o + HeadLen(script[q])
            /\ q = IF HasFields(script[s[1].msg]) THEN s[1].msg ELSE s[1].msg + 1
            /\ \A p \in 1 .. HeadEnd(s) - 1 : Kind(s[p]) \in {"exact", "other"} =>
                                    s[p].msg = q /\ script[q].length # "none"
<1> DEFINE n == s[1].msg
           m == script[n]
           H == HeadLen(m)
           first == m.text + 2
           P == {p \in Places(s, {"crlf", "lf"}) : p > FirstLineEnd(s) + 1}
           end == HeadEnd(s)
<1>1. n \in 1 .. Len(script) /\ HasMessage(s, 0, n)
  BY FirstMessage
<1>2. m \in Messages
  BY <1>1, ScriptTypes
<1>3. /\ Len(s) \in Nat /\ DOMAIN s = 1 .. Len(s) /\ n \in Nat
      /\ m.text \in Nat /\ H \in Nat /\ m.body \in Nat
      /\ MsgLen(n) = H + m.body
      /\ HasFields(m) => H > first
      /\ ~HasFields(m) => H = first /\ m.length = "none"
  <2>1. m.text \in Nat /\ H \in Nat /\ m.body \in Nat
    BY <1>2, MessageTypes
  <2>2. HasFields(m) => H > first
    BY <1>2, HeadLenIs
  <2>3. ~HasFields(m) => H = first /\ m.length = "none"
    BY <1>2, HeadLenIs
  <2> QED BY <1>1, <2>1, <2>2, <2>3, ScriptTypes, LenProperties DEF Piece, MsgLen
<1>4. FirstLineEnd(s) + 1 = first
  BY <1>3, FirstLineEndIs
<1>5. P \in SUBSET Nat /\ \A p \in P : p \in 1 .. Len(s) /\ Kind(s[p]) \in {"crlf", "lf"} /\ p > first
  BY <1>3, <1>4 DEF Places
<1>6. \A p \in 1 .. Len(s) : Kind(s[p]) \in {"crlf", "lf"} /\ p > first => p \in P
  BY <1>3, <1>4 DEF Places
<1>7. end = Earliest(P)
  BY DEF HeadEnd
<1> HIDE DEF P
<1>8. end \in P /\ \A y \in P : end <= y
  BY <1>5, <1>7, EarliestIs
<1>9. end \in 1 .. Len(s) /\ Kind(s[end]) \in {"crlf", "lf"} /\ end > first
  BY <1>5, <1>8
<1> HIDE DEF n, m, H, first, end
<1>10. \A p \in 1 .. Len(s) : p <= MsgLen(n) => p > 0 /\ p <= 0 + MsgLen(n) /\ 0 + H = H
  BY <1>3
<1>11. end <= MsgLen(n) => end = H
  BY <1>1, <1>9, <1>10, KindsIn DEF m, H
<1>12. \A p \in 1 .. Len(s) : p <= MsgLen(n) =>
          /\ Kind(s[p]) \in {"exact", "other"} => s[p].msg = n /\ m.length # "none"
          /\ p = H => Kind(s[p]) \in {"crlf", "lf"}
  BY <1>1, <1>10, KindsIn DEF m, H
<1>13. CASE HasFields(m)
  <2>1. H > first
    BY <1>3, <1>13
  <2>2. H <= MsgLen(n)
    BY <1>3
  <2>3. end = H
    <3> SUFFICES ASSUME end > MsgLen(n) PROVE FALSE
      BY <1>3, <1>9, <1>11
    <3>1. H \in 1 .. Len(s) /\ H < end
      BY <1>3, <1>9, <2>1, <2>2 DEF first
    <3>2. H \in P
      BY <1>6, <1>12, <2>1, <2>2, <3>1
    <3> QED BY <1>3, <1>8, <1>9, <3>1, <3>2
  <2>4. \A p \in 1 .. end - 1 : p \in 1 .. Len(s) /\ p <= MsgLen(n)
    BY <1>3, <1>9, <2>2, <2>3
  <2>5. \A p \in 1 .. end - 1 : Kind(s[p]) \in {"exact", "other"} =>
                                    s[p].msg = n /\ m.length # "none"
    BY <1>12, <2>4
  <2>6. 0 \in Nat /\ end = 0 + H
    BY <1>3, <2>3
  <2>7. /\ HasMessage(s, 0, n)
        /\ HeadEnd(s) \in 1 .. Len(s) /\ HeadEnd(s) = 0 + HeadLen(script[n])
        /\ n = IF HasFields(script[s[1].msg]) THEN s[1].msg ELSE s[1].msg + 1
        /\ \A p \in 1 .. HeadEnd(s) - 1 : Kind(s[p]) \in {"exact", "other"} =>
                                    s[p].msg = n /\ script[n].length # "none"
    BY <1>1, <1>9, <1>13, <2>5, <2>6 DEF n, m, H, end
  <2> QED BY <1>1, <2>6, <2>7
<1>14. CASE ~HasFields(m)
  <2>1. H = first /\ m.length = "none"
    BY <1>3, <1>14
  <2> DEFINE o == MsgLen(n)
             q == n + 1
             G == HeadLen(script[q])
  <2>2. o \in Nat /\ o >= first /\ end > o
    BY <1>3, <1>9, <1>11, <2>1 DEF first
  <2>3. o < Len(s)
    BY <1>3, <1>9, <2>2
  <2>4. q \in 1 .. Len(script) /\ HasMessage(s, o, q)
    BY <1>1, <2>3, NextMessage
  <2>5. G \in Nat /\ G >= 1 /\ MsgLen(q) \in Nat /\ G <= MsgLen(q)
    <3>1. script[q] \in Messages
      BY <2>4, ScriptTypes
    <3>2. /\ script[q].text \in Nat /\ G \in Nat /\ G >= script[q].text + 2
          /\ script[q].body \in Nat
      BY <3>1, MessageTypes
    <3>3. MsgLen(q) = G + script[q].body
      BY DEF MsgLen
    <3> HIDE DEF G, q
    <3> QED BY <3>2, <3>3
  <2>6. \A p \in 1 .. Len(s) : p > o /\ p <= o + MsgLen(q) =>
           /\ Kind(s[p]) \in {"crlf", "lf"} <=> p = o + G
           /\ Kind(s[p]) \in {"exact", "other"} => s[p].msg = q /\ script[q].length # "none"
    BY <2>2, <2>4, KindsIn
  <2> HIDE DEF o, q, G
  <2>7. end = o + G
    <3>1. CASE end <= o + MsgLen(q)
      BY <1>9, <2>2, <2>6, <3>1
    <3>2. CASE end > o + MsgLen(q)
      <4>1. /\ o + G \in 1 .. Len(s) /\ o + G > o /\ o + G <= o + MsgLen(q)
            /\ o + G < end /\ o + G > first
        BY <1>3, <1>9, <2>2, <2>5, <3>2 DEF first
      <4>2. o + G \in P
        BY <1>6, <2>6, <4>1
      <4> QED BY <1>8, <1>9, <2>2, <2>5, <4>1, <4>2
    <3> QED BY <1>9, <2>2, <2>5, <3>1, <3>2
  <2>8. ASSUME NEW p \in 1 .. end - 1, Kind(s[p]) \in {"exact", "other"}
        PROVE  s[p].msg = q /\ script[q].length # "none"
    <3>1. p \in 1 .. Len(s) /\ p <= o + MsgLen(q) /\ (p > o \/ p <= o)
      BY <1>3, <1>9, <2>2, <2>5, <2>7
    <3>2. ~(p <= o)
      BY <1>12, <2>1, <2>8, <3>1 DEF o
    <3> QED BY <2>6, <2>8, <3>1, <3>2
  <2>9. /\ HasMessage(s, o, q)
        /\ HeadEnd(s) \in 1 .. Len(s) /\ HeadEnd(s) = o + HeadLen(script[q])
        /\ q = IF HasFields(script[s[1].msg]) THEN s[1].msg ELSE s[1].msg + 1
        /\ \A p \in 1 .. HeadEnd(s) - 1 : Kind(s[p]) \in {"exact", "other"} =>
                                    s[p].msg = q /\ script[q].length # "none"
    BY <1>9, <1>14, <2>4, <2>7, <2>8 DEF n, m, q, G, end
  <2> QED BY <2>2, <2>4, <2>9
<1> QED BY <1>13, <1>14

LEMMA BodyOfIs ==
  ASSUME Script, NEW q \in 1 .. Len(script)
  PROVE  /\ BodyOf(q) \in Seq(AllBytes) /\ Len(BodyOf(q)) = script[q].body
         /\ \A j \in 1 .. script[q].body :
               BodyOf(q)[j] = [msg |-> q, at |-> HeadLen(script[q]) + j]
<1> DEFINE M == script[q]
           H == HeadLen(M)
           whole == BodyOf(q)
<1>1. H \in Nat /\ M.body \in Nat /\ MsgLen(q) = H + M.body
  BY ScriptTypes, MessageTypes DEF MsgLen
<1>2. /\ Bytes(q) \in Seq(AllBytes) /\ Len(Bytes(q)) = H + M.body
      /\ \A p \in 1 .. H + M.body : Bytes(q)[p] = [msg |-> q, at |-> p]
  BY <1>1, BytesPiece DEF Piece
<1>3. whole = SubSeq(Bytes(q), H + 1, H + M.body)
  BY <1>2 DEF BodyOf
<1>4. \A j \in H + 1 .. H + M.body : Bytes(q)[j] \in AllBytes
  BY <1>1, <1>2, ElementOfSeq
<1>5. /\ whole \in Seq(AllBytes)
      /\ Len(whole) = IF H + 1 <= H + M.body THEN (H + M.body) - (H + 1) + 1 ELSE 0
      /\ \A j \in 1 .. (H + M.body) - (H + 1) + 1 : whole[j] = Bytes(q)[(H + 1) + j - 1]
  BY <1>1, <1>3, <1>4, SubSeqProperties
<1>6. ASSUME NEW j \in 1 .. M.body PROVE whole[j] = [msg |-> q, at |-> H + j]
  <2>1. /\ j \in 1 .. (H + M.body) - (H + 1) + 1 /\ (H + 1) + j - 1 = H + j
        /\ H + j \in 1 .. H + M.body
    BY <1>1
  <2> QED BY <1>2, <1>5, <2>1
<1>7. Len(whole) = M.body
  BY <1>1, <1>5
<1> QED BY <1>5, <1>6, <1>7

(* Arithmetic: the j-th of the k bytes behind a head of length h that      *)
(* begins behind o and ends at e.                                          *)
LEMMA PlaceBehind ==
  ASSUME NEW o \in Nat, NEW h \in Nat, NEW e \in Nat, e = o + h,
         NEW k \in Nat, NEW j \in 1 .. k, NEW l \in Nat, k <= l - e, NEW b \in Nat, k <= b
  PROVE  /\ j \in 1 .. (e + k) - (e + 1) + 1 /\ (e + 1) + j - 1 = e + j
         /\ e + j \in 1 .. l /\ e + j > o /\ e + j <= e + b
         /\ (e + j) - o = h + j
<1>1. j \in Nat /\ 1 <= j /\ j <= k
  OBVIOUS
<1>2. (e + k) - (e + 1) + 1 = k /\ (e + 1) + j - 1 = e + j
  OBVIOUS
<1>3. (e + j) - o = h + j
  BY <1>1
<1>4. e + j \in 1 .. l
  BY <1>1
<1>5. e + j > o /\ e + j <= e + b
  BY <1>1
<1> QED BY <1>2, <1>3, <1>4, <1>5

LEMMA SpanLength ==
  ASSUME NEW e \in Nat, NEW k \in Nat
  PROVE  (IF e + 1 <= e + k THEN (e + k) - (e + 1) + 1 ELSE 0) = k
<1>1. CASE k = 0
  BY <1>1
<1>2. CASE k # 0
  <2>1. e + 1 <= e + k /\ (e + k) - (e + 1) + 1 = k
    BY <1>2
  <2> QED BY <2>1
<1> QED BY <1>1, <1>2

(* len is what the parser may make of the Content-Length of message q. *)
LengthIn(len, q) == len = 0 \/ (len = script[q].announced /\ script[q].length # "none")

(* What ParsedBody takes behind the head of a message is the beginning of  *)
(* that message's body.                                                    *)
LEMMA BodyBehind ==
  ASSUME Script, NEW s, Piece(s), NEW o \in Nat, NEW q \in 1 .. Len(script), HasMessage(s, o, q),
         NEW end \in 1 .. Len(s), end = o + HeadLen(script[q]),
         NEW len, LengthIn(len, q)
  PROVE  /\ ParsedBody(s, end, len) \in Seq(AllBytes)
         /\ \A j \in 1 .. Len(ParsedBody(s, end, len)) :
               \E k \in 1 .. Len(s) : ParsedBody(s, end, len)[j] = s[k]
         /\ IsPrefix(ParsedBody(s, end, len), BodyOf(q))
<1> DEFINE M == script[q]
           H == HeadLen(M)
           k == IF len <= Len(s) - end THEN len ELSE Len(s) - end
           body == SubSeq(s, end + 1, end + k)
           whole == BodyOf(q)
<1>1. /\ s \in Seq(AllBytes) /\ Len(s) \in Nat
      /\ H \in Nat /\ M.body \in Nat /\ M.announced \in Nat /\ MsgLen(q) = H + M.body
      /\ o + MsgLen(q) = end + M.body
  <2>1. s \in Seq(AllBytes) /\ Len(s) \in Nat
    BY LenProperties DEF Piece
  <2>2. H \in Nat /\ M.body \in Nat /\ M.announced \in Nat
    BY ScriptTypes, MessageTypes
  <2>3. MsgLen(q) = H + M.body
    BY DEF MsgLen
  <2> QED BY <2>1, <2>2, <2>3
<1>0. len = 0 \/ (len = script[q].announced /\ script[q].length # "none")
  BY DEF LengthIn
<1>2. len \in Nat /\ Len(s) - end \in Nat /\ k \in Nat /\ k <= len /\ k <= Len(s) - end
  BY <1>0, <1>1
<1>3. Min({len, Len(s) - end}) = k
  BY <1>2, MinOfTwo
<1>4. k <= M.body
  <2>1. CASE len = 0
    BY <1>1, <1>2, <2>1
  <2>2. CASE len = M.announced /\ M.length # "none"
    <3>1. CASE Len(script) > 1
      <4>1. M.announced <= M.body
        BY <2>2, <3>1, ScriptTypes DEF Script, Delimited
      <4> HIDE DEF M, k
      <4>2. M.announced \in Nat /\ M.body \in Nat /\ k \in Nat /\ k <= M.announced
        BY <1>1, <1>2, <2>2
      <4> QED BY <4>1, <4>2
    <3>2. CASE ~(Len(script) > 1)
      <4>1. q = 1 /\ Len(script) = 1
        BY <3>2, ScriptTypes
      <4>2. Len(s) <= o + MsgLen(q)
        <5> SUFFICES ASSUME ~(Len(s) <= o + MsgLen(q)) PROVE FALSE
          OBVIOUS
        <5>1. o + MsgLen(q) + 1 \in 1 .. Len(s)
          BY <1>1
        <5>2. s[o + MsgLen(q) + 1].msg = 2
          BY <4>1, <5>1 DEF HasMessage
        <5>3. s[o + MsgLen(q) + 1].msg \in 1 .. Len(script)
          BY <5>1, ScriptTypes DEF Piece
        <5> QED BY <4>1, <5>2, <5>3
      <4> HIDE DEF M, H, k
      <4>3. /\ Len(s) <= end + M.body /\ Len(s) \in Nat /\ M.body \in Nat
            /\ k \in Nat /\ k <= Len(s) - end
        BY <1>1, <1>2, <4>2
      <4> QED BY <4>3
    <3> QED BY <3>1, <3>2
  <2> QED BY <1>0, <2>1, <2>2
<1>5. ParsedBody(s, end, len) = body
  BY <1>3 DEF ParsedBody
<1> HIDE DEF k
<1>6. /\ body \in Seq(AllBytes) /\ Len(body) = k
      /\ \A j \in 1 .. k : body[j] = s[end + j] /\ end + j \in 1 .. Len(s)
                           /\ body[j] = [msg |-> q, at |-> H + j]
  <2>1. \A j \in end + 1 .. end + k : s[j] \in AllBytes
    <3> SUFFICES ASSUME NEW j \in end + 1 .. end + k PROVE s[j] \in AllBytes
      OBVIOUS
    <3>1. Len(s) \in Nat /\ k \in Nat /\ k <= Len(s) - end
      BY <1>1, <1>2
    <3>2. j \in 1 .. Len(s)
      BY <3>1
    <3> QED BY <1>1, <3>2, ElementOfSeq
  <2>2. /\ body \in Seq(AllBytes)
        /\ Len(body) = IF end + 1 <= end + k THEN (end + k) - (end + 1) + 1 ELSE 0
        /\ \A j \in 1 .. (end + k) - (end + 1) + 1 : body[j] = s[(end + 1) + j - 1]
    <3> DEFINE lo == end + 1
               hi == end + k
    <3>0. k \in Nat /\ Len(s) \in Nat
      BY <1>1, <1>2
    <3>1. lo \in Int /\ hi \in Int /\ \A j \in lo .. hi : s[j] \in AllBytes
      BY <3>0, <2>1
    <3> HIDE DEF lo, hi
    <3>2. /\ SubSeq(s, lo, hi) \in Seq(AllBytes)
          /\ Len(SubSeq(s, lo, hi)) = IF lo <= hi THEN hi - lo + 1 ELSE 0
          /\ \A j \in 1 .. hi - lo + 1 : SubSeq(s, lo, hi)[j] = s[lo + j - 1]
      BY <3>1, SubSeqProperties
    <3> QED BY <3>2 DEF lo, hi
  <2>3. /\ H \in Nat /\ k \in Nat /\ Len(s) \in Nat /\ k <= Len(s) - end /\ k <= M.body
        /\ M.body \in Nat /\ o + MsgLen(q) = end + M.body /\ end = o + H
    BY <1>1, <1>2, <1>4
  <2> HIDE DEF H, M, body
  <2>4. ASSUME NEW j \in 1 .. k
        PROVE  /\ body[j] = s[end + j] /\ end + j \in 1 .. Len(s)
               /\ body[j] = [msg |-> q, at |-> H + j]
    <3>1. /\ j \in 1 .. (end + k) - (end + 1) + 1 /\ (end + 1) + j - 1 = end + j
          /\ end + j \in 1 .. Len(s) /\ end + j > o /\ end + j <= o + MsgLen(q)
          /\ (end + j) - o = H + j
      <4>0. H \in Nat /\ Len(s) \in Nat /\ M.body \in Nat /\ end \in Nat
        BY <2>3
      <4>1. PICK h \in Nat, l \in Nat, b \in Nat, e \in Nat :
              h = H /\ l = Len(s) /\ b = M.body /\ e = end
        BY <4>0, Zenon
      <4>2. e = o + h /\ k \in Nat /\ k <= l - e /\ k <= b
        BY <2>3, <4>1
      <4>3. /\ j \in 1 .. (e + k) - (e + 1) + 1 /\ (e + 1) + j - 1 = e + j
            /\ e + j \in 1 .. l /\ e + j > o /\ e + j <= e + b
            /\ (e + j) - o = h + j
        BY <4>2, PlaceBehind
      <4> QED BY <2>3, <4>1, <4>3
    <3>2. s[end + j] = [msg |-> q, at |-> (end + j) - o]
      BY <3>1 DEF HasMessage
    <3> QED BY <2>2, <3>1, <3>2
  <2>5. Len(body) = k
    <3>1. k \in Nat /\ Len(s) \in Nat
      BY <2>3
    <3>2. end \in Nat
      BY <3>1
    <3>3. (IF end + 1 <= end + k THEN (end + k) - (end + 1) + 1 ELSE 0) = k
      BY <3>1, <3>2, SpanLength
    <3> QED BY <2>2, <3>3
  <2> QED BY <2>2, <2>4, <2>5
<1>7. /\ whole \in Seq(AllBytes) /\ Len(whole) = M.body
      /\ \A j \in 1 .. M.body : whole[j] = [msg |-> q, at |-> H + j]
  BY BodyOfIs
<1> HIDE DEF body, whole, M, H
<1>8. IsPrefix(body, whole)
  <2>1. SubSeq(body, 1, k) = body
    BY <1>6, SubSeqFull
  <2>2. \A j \in 1 .. k : whole[j] \in AllBytes
    BY <1>1, <1>2, <1>4, <1>7, ElementOfSeq
  <2>3. /\ SubSeq(whole, 1, k) \in Seq(AllBytes) /\ Len(SubSeq(whole, 1, k)) = k
        /\ \A j \in 1 .. k : SubSeq(whole, 1, k)[j] = whole[j]
    <3>1. /\ SubSeq(whole, 1, k) \in Seq(AllBytes)
          /\ Len(SubSeq(whole, 1, k)) = IF 1 <= k THEN k - 1 + 1 ELSE 0
          /\ \A j \in 1 .. k - 1 + 1 : SubSeq(whole, 1, k)[j] = whole[1 + j - 1]
      <4> DEFINE lo == 1
      <4>1. lo \in Int /\ k \in Int /\ \A j \in lo .. k : whole[j] \in AllBytes
        BY <1>2, <2>2
      <4> HIDE DEF lo
      <4>2. /\ SubSeq(whole, lo, k) \in Seq(AllBytes)
            /\ Len(SubSeq(whole, lo, k)) = IF lo <= k THEN k - lo + 1 ELSE 0
            /\ \A j \in 1 .. k - lo + 1 : SubSeq(whole, lo, k)[j] = whole[lo + j - 1]
        BY <4>1, SubSeqProperties
      <4> QED BY <4>2 DEF lo
    <3> QED BY <1>2, <3>1
  <2>4. \A j \in 1 .. k : body[j] = whole[j]
    <3> SUFFICES ASSUME NEW j \in 1 .. k PROVE body[j] = whole[j]
      OBVIOUS
    <3>1. j \in 1 .. M.body
      BY <1>1, <1>2, <1>4
    <3>2. body[j] = [msg |-> q, at |-> H + j] /\ whole[j] = [msg |-> q, at |-> H + j]
      BY <1>6, <1>7, <3>1
    <3> QED BY <3>2
  <2>5. SubSeq(whole, 1, k) = body
    BY <1>6, <2>3, <2>4, SeqEqual
  <2> QED BY <1>4, <1>6, <1>7, <2>1, <2>5 DEF IsPrefix
<1>9. \A j \in 1 .. Len(body) : \E i \in 1 .. Len(s) : body[j] = s[i]
  BY <1>6
<1> QED BY <1>5, <1>6, <1>8, <1>9 DEF whole

(* BodyIsOwnOrNext, of one body. *)
OwnOrNext(body, n) ==
    IF HasFields(script[n])
    THEN IsPrefix(body, BodyOf(n))
    ELSE body = <<>> \/ (n < Len(script) /\ IsPrefix(body, BodyOf(n + 1)))

LEMMA ParsedOwn ==
  ASSUME Script, NEW s, Piece(s)
  PROVE  /\ Parsed(s).outcome \in {"ok", "partial", "bad"}
         /\ Parsed(s).body \in Seq(AllBytes)
         /\ \A p \in 1 .. Len(Parsed(s).body) : \E k \in 1 .. Len(s) : Parsed(s).body[p] = s[k]
         /\ Parsed(s).outcome = "ok" => OwnOrNext(Parsed(s).body, Parsed(s).msg)
<1>1. s \in Seq(AllBytes) /\ Len(s) \in Nat /\ DOMAIN s = 1 .. Len(s)
  BY LenProperties DEF Piece
<1>2. CASE FirstLineEnd(s) = 0
  <2>1. Parsed(s) = [outcome |-> "partial", msg |-> 0, body |-> <<>>]
    BY <1>2 DEF Parsed, NoResult
  <2> QED BY <2>1, EmptySeq
<1>3. CASE FirstLineEnd(s) # 0 /\ s[1].at # 1
  <2>1. Parsed(s) = [outcome |-> "bad", msg |-> 0, body |-> <<>>]
    BY <1>3 DEF Parsed, NoResult
  <2> QED BY <2>1, EmptySeq
<1>4. CASE FirstLineEnd(s) # 0 /\ s[1].at = 1
  <2> DEFINE n == s[1].msg
             end == HeadEnd(s)
             len == ParsedLength(s, end)
  <2>1. Parsed(s) = [outcome |-> "ok", msg |-> n,
                     body |-> IF end = 0 THEN <<>> ELSE ParsedBody(s, end, len)]
    BY <1>4 DEF Parsed
  <2>2. s # <<>>
    <3> SUFFICES ASSUME s = <<>> PROVE FALSE
      OBVIOUS
    <3>1. Places(s, {"newline", "field", "exact", "other", "crlf", "lf"}) = {}
      BY <1>1, EmptySeq DEF Places
    <3> QED BY <1>4, <3>1 DEF FirstLineEnd, Earliest
  <2>3. n \in 1 .. Len(script)
    BY <1>4, <2>2, FirstMessage
  <2>4. CASE end = 0
    <3>1. Parsed(s) = [outcome |-> "ok", msg |-> n, body |-> <<>>]
      BY <2>1, <2>4
    <3>2. Len(BodyOf(n)) \in Nat
      BY <2>3, BodyOfIs, LenProperties
    <3>3. IsPrefix(<<>>, BodyOf(n))
      BY <3>2, EmptySeq, SubSeqEmpty DEF IsPrefix
    <3> QED BY <3>1, <3>3, EmptySeq DEF OwnOrNext
  <2>5. CASE end # 0
    <3>1. PICK o \in Nat, q \in 1 .. Len(script) :
            /\ HasMessage(s, o, q)
            /\ end \in 1 .. Len(s) /\ end = o + HeadLen(script[q])
            /\ q = IF HasFields(script[n]) THEN n ELSE n + 1
            /\ \A p \in 1 .. end - 1 : Kind(s[p]) \in {"exact", "other"} =>
                                    s[p].msg = q /\ script[q].length # "none"
      BY <1>4, <2>2, <2>5, HeadEndIs
    <3>2. LengthIn(len, q)
      BY <3>1, ParsedLengthIs DEF LengthIn
    <3> HIDE DEF end, len
    <3> DEFINE body == ParsedBody(s, end, len)
    <3>3. /\ body \in Seq(AllBytes)
          /\ \A j \in 1 .. Len(body) : \E k \in 1 .. Len(s) : body[j] = s[k]
          /\ IsPrefix(body, BodyOf(q))
      <4>1. /\ HasMessage(s, o, q) /\ end \in 1 .. Len(s) /\ end = o + HeadLen(script[q])
        BY <3>1
      <4>2. /\ ParsedBody(s, end, len) \in Seq(AllBytes)
            /\ \A j \in 1 .. Len(ParsedBody(s, end, len)) :
                  \E k \in 1 .. Len(s) : ParsedBody(s, end, len)[j] = s[k]
            /\ IsPrefix(ParsedBody(s, end, len), BodyOf(q))
        BY <3>2, <4>1, BodyBehind
      <4> QED BY <4>2
    <3> HIDE DEF body
    <3>4. Parsed(s) = [outcome |-> "ok", msg |-> n, body |-> body]
      BY <2>1, <2>5 DEF body
    <3>5. n + 1 = q => n < Len(script)
      BY <2>3, ScriptTypes
    <3>6. OwnOrNext(body, n)
      BY <3>1, <3>3, <3>5 DEF OwnOrNext
    <3> QED BY <3>3, <3>4, <3>6
  <2> QED BY <2>4, <2>5
<1> QED BY <1>2, <1>3, <1>4

-----------------------------------------------------------------------------
(* Moving bytes from one sequence to the next.                             *)

LEMMA Joined ==
  ASSUME NEW S, NEW a \in Seq(S), NEW b \in Seq(S), NEW c \in Seq(S)
  PROVE  (a \o b) \o c = a \o (b \o c)
<1> DEFINE d == a \o b
           e == b \o c
           x == d \o c
           y == a \o e
<1>1. PICK i \in Nat, j \in Nat, k \in Nat : i = Len(a) /\ j = Len(b) /\ k = Len(c)
  BY LenProperties
<1>2. /\ d \in Seq(S) /\ Len(d) = i + j
      /\ \A p \in 1 .. i + j : d[p] = IF p <= i THEN a[p] ELSE b[p - i]
  BY <1>1, ConcatProperties
<1>3. /\ e \in Seq(S) /\ Len(e) = j + k
      /\ \A p \in 1 .. j + k : e[p] = IF p <= j THEN b[p] ELSE c[p - j]
  BY <1>1, ConcatProperties
<1> HIDE DEF d, e
<1>4. /\ x \in Seq(S) /\ Len(x) = i + j + k
      /\ \A p \in 1 .. i + j + k : x[p] = IF p <= i + j THEN d[p] ELSE c[p - (i + j)]
  <2>1. /\ x \in Seq(S) /\ Len(x) = Len(d) + Len(c)
        /\ \A p \in 1 .. Len(d) + Len(c) : x[p] = IF p <= Len(d) THEN d[p] ELSE c[p - Len(d)]
    BY <1>2, ConcatProperties
  <2> HIDE DEF x
  <2> QED BY <1>1, <1>2, <2>1, Zenon
<1>5. /\ y \in Seq(S) /\ Len(y) = i + (j + k)
      /\ \A p \in 1 .. i + (j + k) : y[p] = IF p <= i THEN a[p] ELSE e[p - i]
  <2>1. /\ y \in Seq(S) /\ Len(y) = Len(a) + Len(e)
        /\ \A p \in 1 .. Len(a) + Len(e) : y[p] = IF p <= Len(a) THEN a[p] ELSE e[p - Len(a)]
    BY <1>3, ConcatProperties
  <2> HIDE DEF y
  <2> QED BY <1>1, <1>3, <2>1, Zenon
<1> HIDE DEF x, y
<1>6. ASSUME NEW p \in 1 .. i + j + k PROVE x[p] = y[p]
  <2>1. CASE p <= i
    <3>1. p \in 1 .. i + j /\ p <= i + j /\ p \in 1 .. i + (j + k)
      BY <2>1
    <3> QED BY <1>2, <1>4, <1>5, <2>1, <3>1
  <2>2. CASE p > i /\ p <= i + j
    <3>1. p - i \in 1 .. j + k /\ p - i <= j /\ p \in 1 .. i + j /\ ~(p <= i) /\ p \in 1 .. i + (j + k)
      BY <2>2
    <3>2. x[p] = b[p - i]
      BY <1>2, <1>4, <2>2, <3>1
    <3>3. y[p] = b[p - i]
      BY <1>3, <1>5, <3>1
    <3> QED BY <3>2, <3>3
  <2>3. CASE p > i + j
    <3>1. /\ p - i \in 1 .. j + k /\ ~(p - i <= j) /\ ~(p <= i) /\ ~(p <= i + j)
          /\ p \in 1 .. i + (j + k) /\ (p - i) - j = p - (i + j)
      BY <2>3
    <3>2. x[p] = c[p - (i + j)]
      BY <1>4, <3>1
    <3>3. y[p] = c[(p - i) - j]
      BY <1>3, <1>5, <3>1
    <3> QED BY <3>1, <3>2, <3>3
  <2> QED BY <2>1, <2>2, <2>3
<1>7. Len(x) = Len(y) /\ Len(x) = i + j + k
  BY <1>4, <1>5
<1>8. x = y
  BY <1>4, <1>5, <1>6, <1>7, SeqEqual
<1> QED BY <1>8 DEF x, y, d, e

LEMMA JoinedBytes ==
  \A a, b, c \in Seq(AllBytes) : (a \o b) \o c = a \o (b \o c)
BY Joined, SMT

(* Concatenation without what the provers know of it. *)
Cat(a, b) == a \o b

LEMMA CatJoined ==
  ASSUME NEW a \in Seq(AllBytes), NEW b \in Seq(AllBytes), NEW c \in Seq(AllBytes)
  PROVE  Cat(a, b) \in Seq(AllBytes) /\ Cat(Cat(a, b), c) = Cat(a, Cat(b, c))
<1>1. (a \o b) \o c = a \o (b \o c)
  BY Joined
<1>2. a \o b \in Seq(AllBytes)
  BY ConcatProperties
<1> QED BY <1>1, <1>2, Zenon DEF Cat

LEMMA CatMoved ==
  ASSUME NEW a \in Seq(AllBytes), NEW b \in Seq(AllBytes), NEW c \in Seq(AllBytes),
         NEW x \in Seq(AllBytes), NEW y \in Seq(AllBytes), Cat(x, y) = b
  PROVE  Cat(Cat(a, x), Cat(y, c)) = Cat(a, Cat(b, c))
<1>1. Cat(y, c) \in Seq(AllBytes)
  BY CatJoined
<1>2. Cat(Cat(a, x), Cat(y, c)) = Cat(a, Cat(x, Cat(y, c)))
  BY <1>1, CatJoined
<1>3. Cat(Cat(x, y), c) = Cat(x, Cat(y, c))
  BY CatJoined
<1> QED BY <1>2, <1>3

LEMMA Moved ==
  ASSUME NEW a \in Seq(AllBytes), NEW b \in Seq(AllBytes), NEW c \in Seq(AllBytes),
         NEW n \in 0 .. Len(b)
  PROVE  (a \o SubSeq(b, 1, n)) \o (SubSeq(b, n + 1, Len(b)) \o c) = a \o (b \o c)
<1> DEFINE x == SubSeq(b, 1, n)
           y == SubSeq(b, n + 1, Len(b))
<1>1. x \in Seq(AllBytes) /\ y \in Seq(AllBytes) /\ x \o y = b
  BY Cut
<1> HIDE DEF x, y
<1>2. Cat(x, y) = b
  BY <1>1, Zenon DEF Cat
<1>3. Cat(Cat(a, x), Cat(y, c)) = Cat(a, Cat(b, c))
  BY <1>1, <1>2, CatMoved
<1> QED BY <1>3, Zenon DEF Cat, x, y

LEMMA StreamParts ==
  ASSUME Script, Sequences, OneStream
  PROVE  Piece(buf) /\ Piece(inbox \o wire) /\ Piece(inbox) /\ Piece(wire)
<1>1. inbox \o wire \in Seq(AllBytes)
  BY ConcatProperties DEF Sequences
<1>2. Piece(buf) /\ Piece(inbox \o wire)
  BY <1>1, PieceSplit DEF Sequences, OneStream
<1> QED BY <1>2, PieceSplit DEF Sequences

LEMMA PieceBytes ==
  ASSUME Script, NEW s, Piece(s), NEW p \in 1 .. Len(s)
  PROVE  IsByte(s[p])
<1> DEFINE n == s[p].msg
<1>1. /\ s[p] \in AllBytes /\ n \in DOMAIN script /\ s[p].at \in 1 .. MsgLen(n)
  BY ElementOfSeq DEF Piece
<1>2. n \in 1 .. Len(script) /\ MsgLen(n) \in Nat
  BY <1>1, ScriptTypes
<1>3. s[p] = [msg |-> n, at |-> s[p].at]
  BY <1>1 DEF AllBytes
<1>4. Bytes(n)[s[p].at] = s[p]
  BY <1>1, <1>2, <1>3, BytesPiece
<1>5. DOMAIN Bytes(n) = 1 .. MsgLen(n)
  BY DEF Bytes, MsgLen
<1> QED BY <1>1, <1>4, <1>5 DEF IsByte, Range

LEMMA TypeFromInv ==
  ASSUME MessagesInv
  PROVE  TypeOK
<1> USE DEF MessagesInv
<1>1. Piece(wire) /\ Piece(inbox) /\ Piece(buf)
  BY StreamParts
<1>2. ASSUME NEW s \in Seq(AllBytes), \A p \in 1 .. Len(s) : IsByte(s[p])
      PROVE  \A p \in DOMAIN s : IsByte(s[p])
  BY <1>2, LenProperties
<1>3. \A p \in DOMAIN wire : IsByte(wire[p])
  BY <1>1, <1>2, PieceBytes DEF Sequences
<1>4. \A p \in DOMAIN inbox : IsByte(inbox[p])
  BY <1>1, <1>2, PieceBytes DEF Sequences
<1>5. \A p \in DOMAIN buf : IsByte(buf[p])
  BY <1>1, <1>2, PieceBytes DEF Sequences
<1>6. \A p \in DOMAIN result.body : IsByte(result.body[p])
  BY <1>2 DEF Sequences, BodyBytes
<1>7. \A s \in {wire, inbox, buf, result.body} : \A p \in DOMAIN s : IsByte(s[p])
  BY <1>3, <1>4, <1>5, <1>6
<1> QED BY <1>7 DEF Fields, Script, Room, TypeOK

-----------------------------------------------------------------------------
(* The invariant.                                                          *)

(* A step that leaves the script alone, and moves the bytes it moves from  *)
(* one sequence to the next. *)
LEMMA StreamStep ==
  ASSUME script' = script, NEW c, Piece(c), c = buf' \o (inbox' \o wire'),
         NEW w, w = wire', EndsWhole(w)
  PROVE  OneStream'
<1>1. Piece(buf \o (inbox \o wire))'
  BY DEF Piece, Follows, MsgLen
<1>2. EndsWhole(wire)'
  BY DEF EndsWhole, MsgLen
<1> QED BY <1>1, <1>2 DEF OneStream

LEMMA InitInv ==
  ASSUME Init
  PROVE  MessagesInv
<1> USE DEF Init
<1>1. Script
  <2>1. PICK k \in 1 .. MaxMessages : script \in [1 .. k -> Messages]
    OBVIOUS
  <2>2. k \in Nat
    BY <2>1, MessagesAssumption
  <2>3. script \in Seq(Messages)
    BY <2>1, <2>2, SeqDef
  <2> QED BY <2>3 DEF Script
<1>2. Piece(wire) /\ EndsWhole(wire) /\ (wire # <<>> => wire[1].at = 1)
  BY <1>1, StreamPiece
<1>3. wire \in Seq(AllBytes) /\ inbox = <<>> /\ buf = <<>> /\ result.body = <<>>
  BY <1>2 DEF Piece, NoResult
<1>4. buf \o (inbox \o wire) = wire
  BY <1>3, ConcatEmptySeq
<1>5. Sequences /\ OneStream /\ AtMessage
  BY <1>2, <1>3, <1>4, EmptySeq DEF Sequences, OneStream, AtMessage
<1>6. Room /\ Fields
  <2>1. Len(buf) = 0
    BY <1>3, EmptySeq
  <2>2. result.outcome = "none"
    BY DEF NoResult
  <2>3. Room
    BY <2>1, MessagesAssumption DEF Room
  <2>4. /\ body_start \in 0 .. Len(buf) /\ outbox \in 0 .. SendBuffer /\ taken \in Nat /\ sent \in Nat
        /\ due \in Nat \ {0}
    BY <2>1, MessagesAssumption
  <2>5. patient \in BOOLEAN /\ eof \in BOOLEAN /\ stale \in BOOLEAN
    BY Zenon
  <2> QED BY <2>2, <2>3, <2>4, <2>5 DEF Fields
<1>7. BodyBytes /\ BodyIsOwnOrNext
  <2>1. Len(result.body) = 0 /\ result.outcome = "none"
    BY <1>3, EmptySeq DEF NoResult
  <2> QED BY <2>1 DEF BodyBytes, BodyIsOwnOrNext
<1> QED BY <1>1, <1>5, <1>6, <1>7 DEF MessagesInv

(* A step that does not touch the bytes. *)
LEMMA SameBytes ==
  ASSUME MessagesInv, UNCHANGED <<script, wire, inbox, buf, patient>>
  PROVE  Script' /\ OneStream' /\ AtMessage'
<1> USE DEF MessagesInv
<1>1. Script'
  BY DEF Script, Delimited
<1>2. OneStream'
  BY DEF OneStream, Piece, EndsWhole, Follows, MsgLen
<1> QED BY <1>1, <1>2 DEF AtMessage

LEMMA SameResult ==
  ASSUME MessagesInv, UNCHANGED <<script, result>>
  PROVE  BodyBytes' /\ BodyIsOwnOrNext' /\ (result.body \in Seq(AllBytes))'
<1> USE DEF MessagesInv
<1>1. BodyBytes'
  BY DEF BodyBytes, IsByte, Bytes
<1>2. BodyIsOwnOrNext'
  BY DEF BodyIsOwnOrNext, HasFields, BodyOf, Bytes
<1> QED BY <1>1, <1>2 DEF Sequences

LEMMA ReadableInv ==
  ASSUME MessagesInv, Readable
  PROVE  MessagesInv'
<1>1. /\ UNCHANGED <<patient, script, wire, eof, inbox, result, outbox, taken, due, sent>>
      /\ buf' = <<>> /\ cap' = InitCap /\ pc' = "recv"
      /\ body_start' = 0 /\ stale' = FALSE /\ content_length' = 0
  BY DEF Readable, peer, reply
<1>2. BodyBytes' /\ BodyIsOwnOrNext' /\ (result.body \in Seq(AllBytes))'
  BY <1>1, SameResult
<1> USE DEF MessagesInv
<1>3. Script' /\ AtMessage'
  BY <1>1 DEF Script, Delimited, AtMessage
<1>4. Sequences'
  BY <1>1, <1>2, EmptySeq DEF Sequences
<1>5. OneStream'
  <2> DEFINE c == inbox \o wire
  <2>1. Piece(c) /\ c \in Seq(AllBytes)
    BY StreamParts DEF Piece
  <2>2. c = buf' \o (inbox' \o wire')
    BY <1>1, <2>1, ConcatEmptySeq
  <2>3. wire = wire' /\ EndsWhole(wire)
    BY <1>1 DEF OneStream
  <2> HIDE DEF c
  <2> QED BY <1>1, <2>1, <2>2, <2>3, StreamStep
<1>6. Len(buf') = 0
  BY <1>1, EmptySeq
<1>7. Room' /\ Fields'
  <2>1. Room'
    BY <1>1, <1>6, MessagesAssumption DEF Room
  <2>2. (body_start \in 0 .. Len(buf))'
    BY <1>1, <1>6
  <2>3. (patient \in BOOLEAN /\ eof \in BOOLEAN /\ stale \in BOOLEAN)'
    BY <1>1, Zenon DEF Fields
  <2> QED BY <1>1, <2>1, <2>2, <2>3 DEF Fields
<1> QED BY <1>2, <1>3, <1>4, <1>5, <1>7

LEMMA BodyStartIs ==
  ASSUME NEW s \in Seq(AllBytes)
  PROVE  BodyStart(s) \in 0 .. Len(s)
<1>1. Len(s) \in Nat /\ DOMAIN s = 1 .. Len(s)
  BY LenProperties
<1> DEFINE P == Places(s, {"crlf"})
<1>2. P \in SUBSET Nat /\ \A p \in P : p \in 1 .. Len(s)
  BY <1>1 DEF Places
<1>3. Earliest(P) = 0 \/ Earliest(P) \in P
  BY <1>2, EarliestIs
<1> QED BY <1>1, <1>2, <1>3 DEF BodyStart

LEMMA AnnouncedIs ==
  ASSUME Script, NEW s, Piece(s), NEW end
  PROVE  Announced(s, end) \in Nat
<1>1. s \in Seq(AllBytes) /\ Len(s) \in Nat /\ DOMAIN s = 1 .. Len(s)
  BY LenProperties DEF Piece
<1> DEFINE P == {p \in Places(s, {"exact"}) : p < end}
           at == Earliest(P)
<1>2. P \in SUBSET Nat /\ \A p \in P : p \in 1 .. Len(s)
  BY <1>1 DEF Places
<1>3. at = 0 \/ at \in 1 .. Len(s)
  BY <1>2, EarliestIs
<1>4. Announced(s, end) = IF at # 0 /\ script[s[at].msg].expect_body
                          THEN script[s[at].msg].announced ELSE 0
  BY DEF Announced
<1> HIDE DEF at
<1>5. CASE at \in 1 .. Len(s)
  <2>1. s[at].msg \in 1 .. Len(script)
    BY <1>5, ScriptTypes DEF Piece
  <2>2. script[s[at].msg] \in Messages
    BY <2>1, ScriptTypes
  <2>3. script[s[at].msg].announced \in Nat
    BY <2>2, MessageTypes
  <2> QED BY <1>4, <2>3
<1> QED BY <1>3, <1>4, <1>5

(* What recv takes fits into the buffer and is there. *)
LEMMA ReceivedIs ==
  ASSUME MessagesInv
  PROVE  /\ Received \in 0 .. Len(inbox) /\ Received <= cap - Len(buf)
         /\ Len(inbox) \in Nat /\ Len(buf) \in Nat /\ cap \in Nat
         /\ Received = 0 => Len(inbox) = 0 \/ cap = Len(buf)
<1>1. Len(inbox) \in Nat /\ Len(buf) \in Nat /\ cap \in Nat /\ Len(buf) <= cap
  BY LenProperties DEF MessagesInv, Sequences, Room
<1>2. Received = IF Len(inbox) <= cap - Len(buf) THEN Len(inbox) ELSE cap - Len(buf)
  BY <1>1, MinOfTwo DEF Received
<1> QED BY <1>1, <1>2

(* The bytes after recv. *)
LEMMA RecvBytes ==
  ASSUME MessagesInv, NEW s, s = buf \o SubSeq(inbox, 1, Received)
  PROVE  /\ s \in Seq(AllBytes) /\ Piece(s)
         /\ Len(s) = Len(buf) + Received /\ Len(s) <= cap
         /\ SubSeq(inbox, Received + 1, Len(inbox)) \in Seq(AllBytes)
         /\ s \o (SubSeq(inbox, Received + 1, Len(inbox)) \o wire) = buf \o (inbox \o wire)
<1> USE DEF MessagesInv
<1> DEFINE n == Received
           x == SubSeq(inbox, 1, n)
           y == SubSeq(inbox, n + 1, Len(inbox))
<1>1. /\ n \in 0 .. Len(inbox) /\ n <= cap - Len(buf)
      /\ Len(inbox) \in Nat /\ Len(buf) \in Nat /\ cap \in Nat
  BY ReceivedIs
<1>2. /\ x \in Seq(AllBytes) /\ Len(x) = n /\ y \in Seq(AllBytes) /\ x \o y = inbox
  BY <1>1, Cut DEF Sequences
<1>3. buf \in Seq(AllBytes) /\ wire \in Seq(AllBytes)
  BY DEF Sequences
<1>4. s = buf \o x
  OBVIOUS
<1> HIDE DEF n, x, y
<1>5. s \in Seq(AllBytes) /\ Len(s) = Len(buf) + n
  BY <1>2, <1>3, <1>4, ConcatProperties
<1>6. Len(s) <= cap
  BY <1>1, <1>5
<1>7. y \o wire \in Seq(AllBytes)
  BY <1>2, <1>3, ConcatProperties
<1>10. s \o (y \o wire) = buf \o (inbox \o wire)
  <2>1. inbox \in Seq(AllBytes)
    BY DEF Sequences
  <2>2. (buf \o x) \o (y \o wire) = buf \o (inbox \o wire)
    BY <1>1, <1>3, <2>1, Moved DEF x, y
  <2> QED BY <1>4, <2>2
<1>11. Piece(s)
  BY <1>5, <1>7, <1>10, PieceSplit DEF OneStream
<1> QED BY <1>2, <1>5, <1>6, <1>10, <1>11 DEF n, y

LEMMA RecvInv ==
  ASSUME MessagesInv, Recv
  PROVE  MessagesInv'
<1> DEFINE n == Received
           s == buf \o SubSeq(inbox, 1, n)
           start == IF body_start # 0 THEN body_start ELSE BodyStart(s)
           length == IF body_start = 0 /\ start # 0 THEN Announced(s, start) ELSE content_length
<1>1. /\ UNCHANGED <<patient, script, wire, eof, result, outbox, taken, due, sent>>
      /\ buf' = s /\ inbox' = SubSeq(inbox, n + 1, Len(inbox))
      /\ body_start' = start /\ content_length' = length
      /\ pc' \in {"parse", "recv"}
      /\ pc' = "parse" => cap' = cap /\ stale' = stale
      /\ pc' = "recv" => /\ cap' = IF MustGrow(Len(s)) THEN 2 * cap ELSE cap
                         /\ stale' \in {stale, TRUE}
  BY DEF Recv, peer, reply
<1>2. BodyBytes' /\ BodyIsOwnOrNext' /\ (result.body \in Seq(AllBytes))'
  BY <1>1, SameResult
<1>3. /\ s \in Seq(AllBytes) /\ Piece(s)
      /\ Len(s) = Len(buf) + n /\ Len(s) <= cap
      /\ SubSeq(inbox, n + 1, Len(inbox)) \in Seq(AllBytes)
      /\ s \o (SubSeq(inbox, n + 1, Len(inbox)) \o wire) = buf \o (inbox \o wire)
  BY RecvBytes
<1>4. Len(s) \in Nat /\ n \in Nat /\ Len(buf) \in Nat
  BY <1>3, ReceivedIs, LenProperties
<1>5. start \in 0 .. Len(s)
  <2>1. BodyStart(s) \in 0 .. Len(s)
    BY <1>3, BodyStartIs
  <2>2. body_start \in 0 .. Len(buf)
    BY DEF MessagesInv, Fields
  <2> HIDE DEF s, n
  <2> QED BY <1>3, <1>4, <2>1, <2>2
<1>6. length \in Nat
  <2>1. Announced(s, start) \in Nat
    BY <1>3, AnnouncedIs DEF MessagesInv
  <2>2. content_length \in Nat
    BY DEF MessagesInv, Fields
  <2> QED BY <2>1, <2>2
<1> HIDE DEF n, s, start, length
<1> USE DEF MessagesInv
<1>7. Script' /\ AtMessage'
  BY <1>1 DEF Script, Delimited, AtMessage
<1>8. Sequences'
  BY <1>1, <1>2, <1>3 DEF Sequences
<1>9. OneStream'
  <2>1. PICK c : c = buf \o (inbox \o wire) /\ Piece(c)
    BY DEF OneStream
  <2>2. c = buf' \o (inbox' \o wire')
    BY <1>1, <1>3, <2>1
  <2>3. wire = wire' /\ EndsWhole(wire)
    BY <1>1 DEF OneStream
  <2> QED BY <1>1, <2>1, <2>2, <2>3, StreamStep
<1>10. Room'
  <2>1. cap \in Nat /\ cap >= InitCap /\ InitCap \in Nat /\ Reserve \in Nat /\ Reserve <= InitCap
    BY MessagesAssumption DEF Room
  <2>2. CASE pc' = "parse"
    BY <1>1, <1>3, <2>1, <2>2 DEF Room
  <2>3. CASE pc' = "recv"
    <3>1. CASE MustGrow(Len(s))
      <4>1. cap' = 2 * cap
        BY <1>1, <2>3, <3>1
      <4>2. 2 * cap \in Nat /\ 2 * cap >= InitCap /\ Len(s) <= 2 * cap /\ 2 * cap - Len(s) >= Reserve
        BY <1>3, <1>4, <2>1
      <4> QED BY <1>1, <4>1, <4>2 DEF Room
    <3>2. CASE ~MustGrow(Len(s))
      <4>1. cap' = cap
        BY <1>1, <2>3, <3>2
      <4>2. cap - Len(s) >= Reserve
        BY <1>3, <1>4, <2>1, <3>2 DEF MustGrow
      <4> QED BY <1>1, <1>3, <2>1, <4>1, <4>2 DEF Room
    <3> QED BY <3>1, <3>2
  <2> QED BY <1>1, <2>2, <2>3
<1>11. Fields'
  <2>1. patient' \in BOOLEAN /\ eof' \in BOOLEAN /\ stale' \in BOOLEAN
    BY <1>1, Zenon DEF Fields
  <2>2. (body_start \in 0 .. Len(buf))' /\ content_length' \in Nat
    BY <1>1, <1>5, <1>6
  <2> QED BY <1>1, <2>1, <2>2 DEF Fields
<1> QED BY <1>2, <1>7, <1>8, <1>9, <1>10, <1>11

LEMMA RecvDryInv ==
  ASSUME MessagesInv, RecvDry
  PROVE  MessagesInv'
<1>1. /\ UNCHANGED <<patient, script, wire, eof, inbox, buf, cap, body_start, stale,
                     content_length, result, outbox, taken, due, sent>>
      /\ pc' \in {"closed", "parse"}
  BY DEF RecvDry, AfterDry, peer, loop, reply
<1>2. BodyBytes' /\ BodyIsOwnOrNext' /\ Script' /\ OneStream' /\ AtMessage'
  BY <1>1, SameResult, SameBytes
<1>3. Sequences' /\ Room' /\ Fields'
  BY <1>1 DEF MessagesInv, Sequences, Room, Fields
<1> QED BY <1>2, <1>3 DEF MessagesInv

LEMMA ParseInv ==
  ASSUME MessagesInv, Parse
  PROVE  MessagesInv'
<1>1. /\ UNCHANGED <<patient, script, wire, eof, inbox, buf, cap, body_start, stale,
                     content_length, outbox, taken, due, sent>>
      /\ pc' = "respond" /\ result' = Parsed(buf)
  BY DEF Parse, peer, loop, reply
<1>2. Script' /\ OneStream' /\ AtMessage'
  BY <1>1, SameBytes
<1> USE DEF MessagesInv
<1>3. Piece(buf)
  BY StreamParts
<1> DEFINE Own(r) ==
      /\ r.outcome \in {"ok", "partial", "bad"}
      /\ r.body \in Seq(AllBytes)
      /\ \A p \in 1 .. Len(r.body) : \E k \in 1 .. Len(buf) : r.body[p] = buf[k]
      /\ r.outcome = "ok" => OwnOrNext(r.body, r.msg)
<1>9. Own(Parsed(buf))
  BY <1>3, ParsedOwn
<1> HIDE DEF Own
<1>5. PICK r : r = result' /\ Own(r)
  BY <1>1, <1>9
<1>4. /\ r.outcome \in {"ok", "partial", "bad"}
      /\ r.body \in Seq(AllBytes)
      /\ \A p \in 1 .. Len(r.body) : \E k \in 1 .. Len(buf) : r.body[p] = buf[k]
      /\ r.outcome = "ok" => OwnOrNext(r.body, r.msg)
  BY <1>5 DEF Own
<1>6. BodyBytes'
  <2> SUFFICES ASSUME NEW p \in 1 .. Len(r.body) PROVE IsByte(r.body[p])'
    BY <1>5 DEF BodyBytes
  <2>1. PICK k \in 1 .. Len(buf) : r.body[p] = buf[k]
    BY <1>4
  <2>2. IsByte(buf[k])
    BY <1>3, PieceBytes
  <2> QED BY <1>1, <1>5, <2>1, <2>2 DEF IsByte, Bytes
<1>7. BodyIsOwnOrNext'
  BY <1>1, <1>4, <1>5 DEF BodyIsOwnOrNext, OwnOrNext, HasFields, BodyOf, Bytes
<1>8. Sequences' /\ Room' /\ Fields'
  BY <1>1, <1>4, <1>5 DEF Sequences, Room, Fields
<1> QED BY <1>2, <1>6, <1>7, <1>8

LEMMA RespondInv ==
  ASSUME MessagesInv, Respond
  PROVE  MessagesInv'
<1> DEFINE n == Min({due', SendBuffer - outbox})
<1>1. /\ UNCHANGED <<patient, script, wire, eof, inbox, buf, cap, body_start, stale,
                     content_length, result, taken>>
      /\ pc' \in {"wait", "closed"} /\ sent' = n /\ outbox' = outbox + n
      /\ due' \in Lengths
  BY DEF Respond, AfterReply, peer, loop
<1>2. BodyBytes' /\ BodyIsOwnOrNext' /\ Script' /\ OneStream' /\ AtMessage'
  BY <1>1, SameResult, SameBytes
<1>3. outbox \in 0 .. SendBuffer /\ SendBuffer \in Nat /\ due' \in Nat \ {0}
  BY <1>1, MessagesAssumption DEF MessagesInv, Fields
<1>4. n = IF due' <= SendBuffer - outbox THEN due' ELSE SendBuffer - outbox
  BY <1>3, MinOfTwo
<1> HIDE DEF n
<1>5. n \in Nat /\ outbox + n \in 0 .. SendBuffer
  <2>1. PICK d \in Nat : d = due'
    BY <1>3
  <2>2. n = IF d <= SendBuffer - outbox THEN d ELSE SendBuffer - outbox
    BY <1>4, <2>1
  <2> QED BY <1>3, <2>2
<1>6. Sequences' /\ Room'
  BY <1>1 DEF MessagesInv, Sequences, Room
<1>7. Fields'
  BY <1>1, <1>3, <1>5 DEF MessagesInv, Fields
<1> QED BY <1>2, <1>6, <1>7 DEF MessagesInv

(* The sender's bytes go from the wire into the kernel. *)
LEMMA SendingInv ==
  ASSUME MessagesInv, NEW k \in 0 .. Len(wire), Sending(k),
         patient /\ SubSeq(wire, k + 1, Len(wire)) # <<>> => wire[k + 1].at = 1
  PROVE  MessagesInv'
<1> DEFINE x == SubSeq(wire, 1, k)
           y == SubSeq(wire, k + 1, Len(wire))
<1>1. /\ UNCHANGED <<patient, script, eof, pc, buf, cap, body_start, stale,
                     content_length, result, outbox, due, sent>>
      /\ inbox' = inbox \o x /\ wire' = y /\ taken' = 0
  BY DEF Sending, loop
<1>2. BodyBytes' /\ BodyIsOwnOrNext' /\ (result.body \in Seq(AllBytes))'
  BY <1>1, SameResult
<1> USE DEF MessagesInv
<1>3. /\ x \in Seq(AllBytes) /\ Len(x) = k /\ y \in Seq(AllBytes) /\ Len(y) = Len(wire) - k
      /\ \A i \in 1 .. Len(wire) - k : y[i] = wire[k + i]
      /\ x \o y = wire
  BY Cut DEF Sequences
<1>4. Len(wire) \in Nat /\ inbox \in Seq(AllBytes) /\ buf \in Seq(AllBytes)
  BY LenProperties DEF Sequences
<1>5. y # <<>> => Len(y) \in Nat \ {0} /\ (patient => wire[k + 1].at = 1)
  BY <1>3, EmptySeq
<1> HIDE DEF x, y
<1>6. Script'
  BY <1>1 DEF Script, Delimited
<1>7. AtMessage'
  <2>1. ASSUME patient, y # <<>> PROVE y[1].at = 1
    <3>1. 1 \in 1 .. Len(wire) - k
      BY <1>3, <1>4, <1>5, <2>1
    <3>2. y[1] = wire[k + 1]
      BY <1>3, <3>1
    <3> QED BY <1>5, <2>1, <3>2
  <2> QED BY <1>1, <2>1 DEF AtMessage
<1>8. Sequences'
  BY <1>1, <1>2, <1>3, <1>4, ConcatProperties DEF Sequences
<1>9. OneStream'
  <2>1. PICK c : c = buf \o (inbox \o wire) /\ Piece(c)
    BY DEF OneStream
  <2>6. inbox \in Seq(AllBytes) /\ x \in Seq(AllBytes) /\ y \in Seq(AllBytes)
    BY <1>3, <1>4
  <2>2. (inbox \o x) \o y = inbox \o (x \o y)
    BY <2>6, JoinedBytes, Zenon
  <2>3. c = buf' \o (inbox' \o wire')
    BY <1>1, <1>3, <2>1, <2>2
  <2>4. PICK w : w = y
    OBVIOUS
  <2>5. EndsWhole(w)
    <3>1. CASE y # <<>>
      <4>1. Len(y) \in 1 .. Len(wire) - k /\ k + Len(y) = Len(wire)
        BY <1>3, <1>4, <1>5, <3>1
      <4>2. y[Len(y)] = wire[Len(wire)] /\ wire # <<>>
        <5>1. wire # <<>>
          BY <1>3, <1>4, <1>5, <3>1, EmptySeq
        <5> QED BY <1>3, <4>1, <5>1
      <4> QED BY <2>4, <4>2 DEF OneStream, EndsWhole
    <3> QED BY <2>4, <3>1 DEF EndsWhole
  <2> QED BY <1>1, <2>1, <2>3, <2>4, <2>5, StreamStep
<1>10. Room'
  BY <1>1 DEF Room
<1>11. Fields'
  BY <1>1 DEF Fields
<1> QED BY <1>2, <1>6, <1>7, <1>8, <1>9, <1>10, <1>11

(* The message at the front of the wire is there to its end. *)
LEMMA WholeMessage ==
  ASSUME MessagesInv, patient, wire # <<>>
  PROVE  /\ Head(wire) = wire[1] /\ wire[1].msg \in 1 .. Len(script)
         /\ Len(Bytes(wire[1].msg)) = MsgLen(wire[1].msg)
         /\ MsgLen(wire[1].msg) \in 1 .. Len(wire)
         /\ \A p \in 1 .. MsgLen(wire[1].msg) : wire[p] = [msg |-> wire[1].msg, at |-> p]
         /\ MsgLen(wire[1].msg) + 1 \in 1 .. Len(wire) =>
               /\ wire[MsgLen(wire[1].msg) + 1].msg = wire[1].msg + 1
               /\ wire[MsgLen(wire[1].msg) + 1].at = 1
<1> USE DEF MessagesInv
<1> DEFINE n == wire[1].msg
           L == MsgLen(n)
<1>1. Piece(wire) /\ wire[1].at = 1 /\ wire \in Seq(AllBytes)
  BY StreamParts DEF AtMessage, Sequences
<1>2. /\ n \in 1 .. Len(script)
      /\ \A p \in 1 .. Len(wire) : p <= L => wire[p] = [msg |-> n, at |-> p]
      /\ \A p \in 1 .. Len(wire) : p = L + 1 => wire[p].msg = n + 1 /\ wire[p].at = 1
  BY <1>1, PieceRuns
<1>3. L \in Nat /\ L >= 1 /\ Len(wire) \in Nat /\ Len(wire) >= 1
  BY <1>1, <1>2, ScriptTypes, EmptySeq
<1>4. Len(Bytes(n)) = L
  BY <1>2, BytesPiece
<1>5. L <= Len(wire)
  <2> SUFFICES ASSUME Len(wire) < L PROVE FALSE
    BY <1>3
  <2>1. Len(wire) \in 1 .. Len(wire) /\ Len(wire) <= L
    BY <1>3
  <2>2. wire[Len(wire)] = [msg |-> n, at |-> Len(wire)]
    BY <1>2, <2>1
  <2>3. wire[Len(wire)].msg = n /\ wire[Len(wire)].at = Len(wire)
    BY <2>2
  <2>4. Len(wire) = L
    BY <2>3 DEF OneStream, EndsWhole
  <2> QED BY <1>3, <2>4
<1>6. \A p \in 1 .. L : wire[p] = [msg |-> n, at |-> p]
  BY <1>2, <1>3, <1>5
<1>7. Head(wire) = wire[1]
  BY <1>1
<1>8. L + 1 \in 1 .. Len(wire) => wire[L + 1].msg = n + 1 /\ wire[L + 1].at = 1
  BY <1>2
<1> QED BY <1>2, <1>3, <1>4, <1>5, <1>6, <1>7, <1>8

LEMMA SendPieceInv ==
  ASSUME MessagesInv, SendPiece
  PROVE  MessagesInv'
<1>1. PICK k \in 1 .. Len(wire) : Sending(k) /\ ~patient
  BY DEF SendPiece
<1>2. k \in 0 .. Len(wire)
  BY <1>1, LenProperties DEF MessagesInv, Sequences
<1> QED BY <1>1, <1>2, SendingInv

LEMMA SendMessageInv ==
  ASSUME MessagesInv, SendMessage
  PROVE  MessagesInv'
<1>1. patient /\ wire # <<>> /\ Sending(Len(Bytes(Head(wire).msg)))
  BY DEF SendMessage, Sending
<1> DEFINE L == MsgLen(wire[1].msg)
<1>2. /\ Head(wire) = wire[1] /\ Len(Bytes(wire[1].msg)) = L /\ L \in 1 .. Len(wire)
      /\ L + 1 \in 1 .. Len(wire) => wire[L + 1].at = 1
  BY <1>1, WholeMessage
<1>3. wire \in Seq(AllBytes) /\ Len(wire) \in Nat
  BY LenProperties DEF MessagesInv, Sequences
<1>4. Sending(L)
  BY <1>1, <1>2
<1> HIDE DEF L
<1>5. L \in 0 .. Len(wire)
  BY <1>2, <1>3
<1>6. ASSUME SubSeq(wire, L + 1, Len(wire)) # <<>> PROVE wire[L + 1].at = 1
  <2>1. L + 1 <= Len(wire)
    <3> SUFFICES ASSUME Len(wire) < L + 1 PROVE FALSE
      BY <1>2, <1>3
    <3> QED BY <1>2, <1>3, <1>6, SubSeqEmpty
  <2> QED BY <1>2, <1>3, <2>1
<1> QED BY <1>4, <1>5, <1>6, SendingInv

LEMMA ReadInv ==
  ASSUME MessagesInv, Read
  PROVE  MessagesInv'
<1>1. /\ UNCHANGED <<patient, script, wire, eof, inbox, pc, buf, cap, body_start, stale,
                     content_length, result, due, sent>>
      /\ taken' = taken + outbox /\ outbox' = 0
  BY DEF Read, peer, loop
<1>2. BodyBytes' /\ BodyIsOwnOrNext' /\ Script' /\ OneStream' /\ AtMessage'
  BY <1>1, SameResult, SameBytes
<1>3. Sequences' /\ Room'
  BY <1>1 DEF MessagesInv, Sequences, Room
<1>4. outbox' \in 0 .. SendBuffer /\ taken' \in Nat
  BY <1>1, MessagesAssumption DEF MessagesInv, Fields
<1>5. Fields'
  BY <1>1, <1>4 DEF MessagesInv, Fields
<1> QED BY <1>2, <1>3, <1>5 DEF MessagesInv

LEMMA CloseInv ==
  ASSUME MessagesInv, Close
  PROVE  MessagesInv'
<1>1. /\ UNCHANGED <<patient, script, wire, inbox, pc, buf, cap, body_start, stale,
                     content_length, result, outbox, taken, due, sent>>
      /\ eof' = TRUE
  BY DEF Close, loop, reply
<1>2. BodyBytes' /\ BodyIsOwnOrNext' /\ Script' /\ OneStream' /\ AtMessage'
  BY <1>1, SameResult, SameBytes
<1>3. Sequences' /\ Room' /\ Fields'
  BY <1>1 DEF MessagesInv, Sequences, Room, Fields
<1> QED BY <1>2, <1>3 DEF MessagesInv

LEMMA StutterInv ==
  ASSUME MessagesInv, UNCHANGED vars
  PROVE  MessagesInv'
<1>1. UNCHANGED <<patient, script, wire, eof, inbox, pc, buf, cap, body_start, stale,
                  content_length, result, outbox, taken, due, sent>>
  BY DEF vars, peer, loop, reply
<1>2. BodyBytes' /\ BodyIsOwnOrNext' /\ Script' /\ OneStream' /\ AtMessage'
  BY <1>1, SameResult, SameBytes
<1>3. Sequences' /\ Room' /\ Fields'
  BY <1>1 DEF MessagesInv, Sequences, Room, Fields
<1> QED BY <1>2, <1>3 DEF MessagesInv

(* The bytes in the buffer, in the kernel and on the wire are consecutive  *)
(* bytes of the stream, and the buffer has Reserve bytes left whenever     *)
(* recv is called: what the loop of http_recv_message keeps (http.c:355).  *)
THEOREM MessagesInvariant == Spec => []MessagesInv
<1>1. Init => MessagesInv
  BY InitInv
<1>2. MessagesInv /\ [Next]_vars => MessagesInv'
  <2> SUFFICES ASSUME MessagesInv, [Next]_vars PROVE MessagesInv'
    OBVIOUS
  <2>1. CASE ServerStep
    BY <2>1, ReadableInv, RecvInv, RecvDryInv, ParseInv, RespondInv DEF ServerStep
  <2>2. CASE SendPiece
    BY <2>2, SendPieceInv
  <2>3. CASE SendMessage
    BY <2>3, SendMessageInv
  <2>4. CASE Read
    BY <2>4, ReadInv
  <2>5. CASE Close
    BY <2>5, CloseInv
  <2>6. CASE Closed
    BY <2>6, StutterInv DEF Closed
  <2>7. CASE UNCHANGED vars
    BY <2>7, StutterInv
  <2> QED BY <2>1, <2>2, <2>3, <2>4, <2>5, <2>6, <2>7 DEF Next
<1> QED BY <1>1, <1>2, PTL DEF Spec

(* Every sequence holds bytes of the script's messages; the buffer stays   *)
(* within its capacity, body_start within the buffer, and what was sent    *)
(* within the kernel's buffer (http.c:349-394).                            *)
THEOREM MessageTypesKept == Spec => []TypeOK
<1>1. MessagesInv => TypeOK
  BY TypeFromInv
<1> QED BY <1>1, MessagesInvariant, PTL

(* recv is never called with no room left (http.c:355, http.c:365).        *)
THEOREM AlwaysRoom == Spec => []RecvHasRoom
<1>1. MessagesInv => RecvHasRoom
  <2> SUFFICES ASSUME MessagesInv, pc = "recv" PROVE Len(buf) < cap
    BY DEF RecvHasRoom
  <2>1. cap \in Nat /\ Len(buf) \in Nat /\ Reserve \in Nat /\ Reserve >= 1 /\ cap - Len(buf) >= Reserve
    BY MessagesAssumption, LenProperties DEF MessagesInv, Room, Sequences
  <2> QED BY <2>1
<1> QED BY <1>1, MessagesInvariant, PTL

(* However the stream is cut, the body that a handler gets is the          *)
(* beginning of what was sent with its own request (http.c:183-189), or,   *)
(* for a request without header fields, of what was sent with the next     *)
(* (http.c:153).                                                           *)
THEOREM BodiesOwnOrNext == Spec => []BodyIsOwnOrNext
<1>1. MessagesInv => BodyIsOwnOrNext
  BY DEF MessagesInv
<1> QED BY <1>1, MessagesInvariant, PTL

-----------------------------------------------------------------------------
(* A sender that waits has one message on its way at a time.               *)

Whole(s) == s # <<>> /\ s[1].at = 1 /\ Len(s) = MsgLen(s[1].msg)

(* What an early end of the loop has left of a message that is not         *)
(* ordinary; the connection is closed when it is parsed. *)
Left(s) == s # <<>> /\ s[1].at # 1 /\ ~Ordinary(script[s[1].msg])

Quiet == taken = 0 /\ outbox = 0

(* The message that the worker is at. *)
Current == buf \o inbox
OfOrdinary == Ordinary(script[Current[1].msg])

Waiting == \/ inbox = <<>> /\ taken + outbox <= due
           \/ Whole(inbox) /\ Quiet
           \/ Left(inbox)

Receiving == \/ Current = <<>> /\ eof
             \/ /\ Whole(Current) /\ Quiet
                /\ buf = <<>> => body_start = 0 /\ stale = FALSE
                /\ OfOrdinary /\ buf # <<>> =>
                      inbox = <<>> /\ script[Current[1].msg].blank = "lf"
             \/ Left(Current)

Filled == /\ buf # <<>>
          /\ \/ Whole(Current) /\ Quiet /\ (OfOrdinary => inbox = <<>>)
             \/ Left(Current)

Served == /\ result.outcome = "ok" /\ result.msg = Current[1].msg
          /\ result.body = BodyOf(result.msg)

Answered == /\ Left(Current) => result.outcome # "ok"
            /\ Whole(Current) /\ OfOrdinary => Served

Turn == patient => /\ pc = "wait" => Waiting
                   /\ pc = "recv" => Receiving
                   /\ pc \in {"parse", "respond"} => Filled
                   /\ pc = "respond" => Answered

(* A whole message, byte by byte. *)
LEMMA WholeBytes ==
  ASSUME Script, NEW s, Piece(s), Whole(s)
  PROVE  /\ s[1].msg \in 1 .. Len(script) /\ script[s[1].msg] \in Messages
         /\ s \in Seq(AllBytes) /\ Len(s) \in Nat /\ DOMAIN s = 1 .. Len(s)
         /\ \A p \in 1 .. Len(s) : s[p].msg = s[1].msg /\ s[p].at = p
         /\ s = Bytes(s[1].msg)
         /\ HeadLen(script[s[1].msg]) \in 1 .. Len(s)
         /\ Len(s) - HeadLen(script[s[1].msg]) = script[s[1].msg].body
<1> DEFINE n == s[1].msg
<1>1. s # <<>> /\ s[1].at = 1 /\ Len(s) = MsgLen(n)
  BY DEF Whole
<1>2. /\ n \in 1 .. Len(script)
      /\ \A p \in 1 .. Len(s) : p <= MsgLen(n) => s[p] = [msg |-> n, at |-> p]
  BY <1>1, PieceRuns
<1>3. s \in Seq(AllBytes) /\ Len(s) \in Nat /\ DOMAIN s = 1 .. Len(s)
  BY LenProperties DEF Piece
<1>4. ASSUME NEW p \in 1 .. Len(s) PROVE s[p] = [msg |-> n, at |-> p]
  BY <1>1, <1>2, <1>3
<1>5. \A p \in 1 .. Len(s) : s[p].msg = n /\ s[p].at = p
  <2> SUFFICES ASSUME NEW p \in 1 .. Len(s) PROVE s[p].msg = n /\ s[p].at = p
    OBVIOUS
  <2>1. s[p] = [msg |-> n, at |-> p]
    BY <1>4
  <2> QED BY <2>1
<1>6. s = Bytes(n)
  <2>1. /\ Bytes(n) \in Seq(AllBytes) /\ Len(Bytes(n)) = Len(s)
        /\ \A p \in 1 .. Len(s) : Bytes(n)[p] = [msg |-> n, at |-> p]
    BY <1>1, <1>2, BytesPiece DEF Piece
  <2>2. \A p \in 1 .. Len(s) : s[p] = Bytes(n)[p]
    BY <1>4, <2>1
  <2> QED BY <1>3, <2>1, <2>2, SeqEqual
<1>7. script[n] \in Messages
  BY <1>2, ScriptTypes
<1>8. HeadLen(script[n]) \in Nat /\ HeadLen(script[n]) >= 1 /\ script[n].body \in Nat
  <2>1. /\ HeadLen(script[n]) \in Nat /\ script[n].body \in Nat /\ script[n].text \in Nat
        /\ HeadLen(script[n]) >= script[n].text + 2
    BY <1>7, MessageTypes
  <2> QED BY <2>1
<1>9. Len(s) = HeadLen(script[n]) + script[n].body
  BY <1>1 DEF MsgLen
<1>10. HeadLen(script[n]) \in 1 .. Len(s) /\ Len(s) - HeadLen(script[n]) = script[n].body
  BY <1>8, <1>9
<1> QED BY <1>2, <1>3, <1>5, <1>6, <1>7, <1>10

(* The fields of a head are between the first line and the blank line. *)
LEMMA FieldKinds ==
  ASSUME Script, NEW n \in 1 .. Len(script), NEW p \in 1 .. MsgLen(n),
         NEW b, b.msg = n, b.at = p
  PROVE  LET m == script[n]
         IN  /\ Kind(b) \in {"field", "exact", "other"} <=> p \in m.text + 2 .. HeadLen(m) - 1
             /\ Kind(b) \in {"exact", "other"} =>
                   p = HeadLen(m) - 1 /\ HeadLen(m) = m.text + m.fields + 3
             /\ m.length # "none" /\ p = HeadLen(m) - 1 => Kind(b) = m.length
<1> DEFINE m == script[n]
<1>1. m \in Messages /\ MsgLen(n) \in Nat
  BY ScriptTypes
<1>2. m.blank \in {"crlf", "lf"} /\ m.length \in {"exact", "other", "none"}
  BY <1>1, MessageTypes
<1>0. PICK t, f, h \in Nat : Layout(Kind(b), p, m, t, f, h)
  BY KindsOf
<1> HIDE DEF m
<1>3. /\ h = HeadLen(m) /\ t = m.text /\ f = m.fields
      /\ h = t + f + 2 + (IF m.length = "none" THEN 0 ELSE 1)
      /\ p <= t => Kind(b) = "text"
      /\ p = t + 1 => Kind(b) = "newline"
      /\ p \in t + 2 .. t + f + 1 => Kind(b) = "field"
      /\ p \in t + f + 2 .. h - 1 => Kind(b) = m.length
      /\ p = h => Kind(b) = m.blank
      /\ p > h => Kind(b) = "body"
  BY <1>0 DEF Layout
<1>4. p \in Nat
  BY <1>1
<1>5. CASE m.length = "none"
  <2>1. h = t + f + 2
    BY <1>3, <1>5
  <2>2. p <= t \/ p = t + 1 \/ p \in t + 2 .. t + f + 1 \/ p = h \/ p > h
    BY <1>4, <2>1
  <2>3. /\ p \in t + 2 .. t + f + 1 <=> p \in t + 2 .. h - 1
        /\ p <= t \/ p = t + 1 \/ p = h \/ p > h => p \notin t + 2 .. h - 1
    BY <1>4, <2>1
  <2>4. p \in t + 2 .. h - 1 => Kind(b) = "field"
    BY <1>3, <2>3
  <2>5. p \notin t + 2 .. h - 1 => Kind(b) \in {"text", "newline", "body", "crlf", "lf"}
    BY <1>2, <1>3, <2>2, <2>3
  <2> QED BY <1>3, <1>5, <2>4, <2>5 DEF m
<1>6. CASE m.length # "none"
  <2>1. h = t + f + 3
    BY <1>3, <1>6
  <2>2. p <= t \/ p = t + 1 \/ p \in t + 2 .. t + f + 1 \/ p = h - 1 \/ p = h \/ p > h
    BY <1>4, <2>1
  <2>3. /\ p \in t + 2 .. t + f + 1 => p \in t + 2 .. h - 1 /\ p # h - 1
        /\ p = h - 1 => p \in t + 2 .. h - 1 /\ p \in t + f + 2 .. h - 1
        /\ p <= t \/ p = t + 1 \/ p = h \/ p > h => p \notin t + 2 .. h - 1
    BY <1>4, <2>1
  <2>4. p \in t + 2 .. h - 1 /\ p # h - 1 => Kind(b) = "field"
    BY <1>3, <2>2, <2>3
  <2>5. p = h - 1 => Kind(b) = m.length
    BY <1>3, <2>3
  <2>6. p \notin t + 2 .. h - 1 => Kind(b) \in {"text", "newline", "body", "crlf", "lf"}
    BY <1>2, <1>3, <2>2, <2>3
  <2>7. Kind(b) \in {"field", "exact", "other"} <=> p \in t + 2 .. h - 1
    BY <1>2, <1>6, <2>4, <2>5, <2>6
  <2>8. Kind(b) \in {"exact", "other"} => p = h - 1
    BY <2>4, <2>6
  <2> QED BY <1>3, <2>1, <2>5, <2>7, <2>8 DEF m
<1> QED BY <1>5, <1>6

(* The blank line of a whole message. *)
LEMMA WholeHead ==
  ASSUME Script, NEW s, Piece(s), Whole(s)
  PROVE  LET m == script[s[1].msg]
         IN  /\ HeadEnd(s) = IF HasFields(m) THEN HeadLen(m) ELSE 0
             /\ FirstLineEnd(s) # 0
             /\ m.blank = "crlf" => BodyStart(s) = HeadLen(m)
<1> DEFINE n == s[1].msg
           m == script[n]
           H == HeadLen(m)
<1>1. /\ n \in 1 .. Len(script) /\ m \in Messages
      /\ Len(s) \in Nat /\ DOMAIN s = 1 .. Len(s) /\ Len(s) = MsgLen(n)
      /\ \A p \in 1 .. Len(s) : s[p].msg = n /\ s[p].at = p
      /\ H \in 1 .. Len(s)
  BY WholeBytes DEF Whole
<1> HIDE DEF n, H
<1>2. ASSUME NEW p \in 1 .. Len(s)
      PROVE  /\ Kind(s[p]) \in {"crlf", "lf"} <=> p = H
             /\ p = H => Kind(s[p]) = m.blank
  <2>1. p \in 1 .. MsgLen(n) /\ s[p].msg = n /\ s[p].at = p
    BY <1>1
  <2> QED BY <1>1, <2>1, Kinds DEF H
<1>3. m.blank \in {"crlf", "lf"}
  BY <1>1, MessageTypes
<1>4. Places(s, {"crlf", "lf"}) = {H}
  BY <1>1, <1>2 DEF Places
<1>5. m.blank = "crlf" => Places(s, {"crlf"}) = {H}
  <2> SUFFICES ASSUME m.blank = "crlf" PROVE Places(s, {"crlf"}) = {H}
    OBVIOUS
  <2>1. \A p \in 1 .. Len(s) : Kind(s[p]) = "crlf" <=> p = H
    BY <1>1, <1>2
  <2> QED BY <1>1, <2>1 DEF Places
<1>6. Earliest({H}) = H
  <2>1. {H} \in SUBSET Nat /\ {H} # {}
    BY <1>1
  <2>2. Earliest({H}) \in {H}
    BY <2>1, EarliestIs
  <2> QED BY <2>2
<1>7. FirstLineEnd(s) # 0
  <2> DEFINE P == Places(s, {"newline", "field", "exact", "other", "crlf", "lf"})
  <2>1. P \in SUBSET Nat /\ 0 \notin P
    BY <1>1 DEF Places
  <2>2. H \in P
    BY <1>1, <1>2 DEF Places
  <2> HIDE DEF P
  <2>3. Earliest(P) \in P
    BY <2>1, <2>2, EarliestIs
  <2> QED BY <2>1, <2>3 DEF P, FirstLineEnd
<1>8. HeadEnd(s) = IF HasFields(m) THEN H ELSE 0
  <2> DEFINE P == {p \in Places(s, {"crlf", "lf"}) : p > FirstLineEnd(s) + 1}
  <2>1. s # <<>> /\ s[1].at = 1
    BY DEF Whole
  <2>2. FirstLineEnd(s) = m.text + 1 /\ m.text \in Nat /\ H \in Nat
    BY <1>1, <1>7, <2>1, FirstLineEndIs, MessageTypes DEF n
  <2>3. /\ HasFields(m) => H > FirstLineEnd(s) + 1
        /\ ~HasFields(m) => ~(H > FirstLineEnd(s) + 1)
    <3>1. /\ HasFields(m) => H > m.text + 2
          /\ ~HasFields(m) => H = m.text + 2
      BY <1>1, HeadLenIs DEF H
    <3>2. FirstLineEnd(s) + 1 = m.text + 2
      BY <2>2
    <3> HIDE DEF m
    <3> QED BY <2>2, <3>1, <3>2
  <2>4. P = IF HasFields(m) THEN {H} ELSE {}
    BY <1>4, <2>3
  <2>5. HeadEnd(s) = Earliest(P)
    BY DEF HeadEnd
  <2> HIDE DEF P
  <2>6. Earliest({}) = 0
    BY DEF Earliest
  <2> QED BY <1>6, <2>4, <2>5, <2>6
<1> QED BY <1>5, <1>6, <1>7, <1>8 DEF BodyStart, H, n

(* Content-Length is found in the head of an ordinary message. *)
LEMMA WholeLength ==
  ASSUME Script, NEW s, Piece(s), Whole(s), Ordinary(script[s[1].msg])
  PROVE  LET m == script[s[1].msg]
         IN  /\ ParsedLength(s, HeadLen(m)) \in Nat
             /\ m.body <= ParsedLength(s, HeadLen(m))
             /\ Announced(s, HeadLen(m)) <= m.body
<1> DEFINE n == s[1].msg
           m == script[n]
           H == HeadLen(m)
           len == ParsedLength(s, H)
<1>1. /\ n \in 1 .. Len(script) /\ m \in Messages
      /\ Len(s) \in Nat /\ DOMAIN s = 1 .. Len(s) /\ Len(s) = MsgLen(n)
      /\ \A p \in 1 .. Len(s) : s[p].msg = n /\ s[p].at = p
      /\ H \in 1 .. Len(s)
  BY WholeBytes DEF Whole
<1>2. /\ m.text \in Nat /\ m.fields \in Nat /\ m.announced \in Nat /\ m.body \in Nat
      /\ m.length \in {"exact", "other", "none"} /\ m.expect_body \in BOOLEAN
      /\ H \in Nat /\ H >= m.text + 2
  BY <1>1, MessageTypes
<1>3. /\ m.fields < MaxHeaders /\ MaxHeaders \in Nat
      /\ m.body = IF m.length = "none" \/ ~m.expect_body THEN 0 ELSE m.announced
  BY MessagesAssumption DEF Ordinary
<1>4. ASSUME NEW p \in 1 .. Len(s)
      PROVE  /\ Kind(s[p]) \in {"field", "exact", "other"} <=> p \in m.text + 2 .. H - 1
             /\ Kind(s[p]) \in {"exact", "other"} => p = H - 1 /\ H = m.text + m.fields + 3
             /\ m.length # "none" /\ p = H - 1 => Kind(s[p]) = m.length
             /\ Kind(s[p]) \in {"exact", "other"} => Kind(s[p]) = m.length
  <2>1. p \in 1 .. MsgLen(n) /\ s[p].msg = n /\ s[p].at = p
    BY <1>1
  <2>2. Kind(s[p]) \in {"exact", "other"} => Kind(s[p]) = m.length
    BY <1>1, <2>1, Kinds
  <2> QED BY <1>1, <2>1, <2>2, FieldKinds
<1> DEFINE known == {p \in Places(s, {"field", "exact", "other"}) : p < H}
           found == {p \in known \cap Places(s, {"exact", "other"}) :
                        Cardinality({k \in known : k <= p}) <= MaxHeaders}
<1>5. len = IF found = {} THEN 0 ELSE script[s[Max(found)].msg].announced
  BY DEF ParsedLength
<1>6. len \in Nat /\ m.body <= len
  <2>1. CASE m.length = "none"
    <3>1. m.body = 0
      BY <1>3, <2>1
    <3>2. found = {}
      <4> SUFFICES ASSUME NEW p \in found PROVE FALSE
        OBVIOUS
      <4>1. p \in 1 .. Len(s) /\ Kind(s[p]) \in {"exact", "other"}
        BY <1>1 DEF Places
      <4>2. Kind(s[p]) = m.length
        BY <1>4, <4>1
      <4> QED BY <2>1, <4>1, <4>2
    <3>3. len = 0
      BY <1>5, <3>2
    <3> HIDE DEF len
    <3> QED BY <3>1, <3>3
  <2>2. CASE m.length # "none"
    <3> HIDE DEF n, m, H, len, known
    <3>1. H - 1 \in 1 .. Len(s) /\ H - 1 < H
      BY <1>1, <1>2
    <3>2. Kind(s[H - 1]) \in {"exact", "other"}
      BY <1>2, <1>4, <2>2, <3>1
    <3>3. H = m.text + m.fields + 3
      BY <1>4, <3>1, <3>2
    <3>4. known = m.text + 2 .. H - 1
      <4>1. ASSUME NEW p \in m.text + 2 .. H - 1 PROVE p \in known
        <5>1. p \in 1 .. Len(s) /\ p < H
          BY <1>1, <1>2
        <5> QED BY <1>1, <1>4, <5>1 DEF known, Places
      <4>2. ASSUME NEW p \in known PROVE p \in m.text + 2 .. H - 1
        <5>1. p \in 1 .. Len(s) /\ Kind(s[p]) \in {"field", "exact", "other"}
          BY <1>1 DEF known, Places
        <5> QED BY <1>4, <5>1
      <4> QED BY <4>1, <4>2
    <3>5. found \subseteq {H - 1}
      <4> SUFFICES ASSUME NEW p \in found PROVE p = H - 1
        OBVIOUS
      <4>1. p \in 1 .. Len(s) /\ Kind(s[p]) \in {"exact", "other"}
        BY <1>1 DEF Places
      <4> QED BY <1>4, <4>1
    <3>6. H - 1 \in found
      <4>1. H - 1 \in known /\ H - 1 \in Places(s, {"exact", "other"})
        <5>1. H - 1 \in m.text + 2 .. H - 1
          <6>1. m.text \in Nat /\ m.fields \in Nat /\ H = m.text + m.fields + 3
            BY <1>2, <3>3
          <6> QED BY <6>1
        <5>2. H - 1 \in Places(s, {"exact", "other"})
          BY <1>1, <3>1, <3>2 DEF Places
        <5> QED BY <3>4, <5>1, <5>2
      <4>2. {k \in known : k <= H - 1} = m.text + 2 .. H - 1
        BY <1>2, <3>4
      <4>3. Cardinality(m.text + 2 .. H - 1) = m.fields + 1
        <5>1. m.text + 2 \in Int /\ H - 1 \in Int /\ ~(m.text + 2 > H - 1)
              /\ (H - 1) - (m.text + 2) + 1 = m.fields + 1
          BY <1>2, <3>3
        <5> DEFINE lo == m.text + 2
                   hi == H - 1
        <5> HIDE DEF lo, hi
        <5>2. Cardinality(lo .. hi) = IF lo > hi THEN 0 ELSE hi - lo + 1
          BY <5>1, FS_Interval DEF lo, hi
        <5> QED BY <5>1, <5>2 DEF lo, hi
      <4>4. m.fields + 1 <= MaxHeaders
        BY <1>2, <1>3
      <4> QED BY <4>1, <4>2, <4>3, <4>4
    <3> HIDE DEF found
    <3>7. found = {H - 1}
      BY <3>5, <3>6
    <3>8. Max(found) = H - 1
      <4>1. found \in SUBSET (0 .. Len(s)) /\ found # {}
        BY <1>1, <3>1, <3>7
      <4>2. Max(found) \in found
        BY <1>1, <4>1, GreatestElement
      <4> QED BY <3>7, <4>2
    <3>9. s[H - 1].msg = n
      BY <1>1, <3>1
    <3>10. len = m.announced
      BY <1>5, <3>6, <3>8, <3>9 DEF m
    <3> QED BY <1>2, <1>3, <3>10
  <2> QED BY <2>1, <2>2
<1>7. Announced(s, H) <= m.body
  <2> DEFINE P == {p \in Places(s, {"exact"}) : p < H}
             at == Earliest(P)
  <2>1. P \in SUBSET Nat /\ \A p \in P : p \in 1 .. Len(s) /\ Kind(s[p]) = "exact"
    BY <1>1 DEF Places
  <2>2. at = 0 \/ (at \in 1 .. Len(s) /\ Kind(s[at]) = "exact")
    BY <2>1, EarliestIs
  <2>3. Announced(s, H) = IF at # 0 /\ script[s[at].msg].expect_body
                          THEN script[s[at].msg].announced ELSE 0
    BY DEF Announced
  <2> HIDE DEF at
  <2>4. CASE at \in 1 .. Len(s) /\ Kind(s[at]) = "exact"
    <3>1. m.length = "exact" /\ s[at].msg = n
      BY <1>1, <1>4, <2>4
    <3>2. Announced(s, H) = IF at # 0 /\ m.expect_body THEN m.announced ELSE 0
      BY <2>3, <3>1
    <3> HIDE DEF n, m, H
    <3>3. CASE m.expect_body
      <4>1. m.body = m.announced
        BY <1>3, <3>1, <3>3
      <4> QED BY <1>2, <3>2, <4>1
    <3>4. CASE ~m.expect_body
      <4>1. Announced(s, H) = 0
        BY <3>2, <3>4
      <4> QED BY <1>2, <4>1
    <3> QED BY <3>3, <3>4
  <2>5. CASE at = 0
    <3>1. Announced(s, H) = 0
      BY <2>3, <2>5
    <3> HIDE DEF n, m, H
    <3> QED BY <1>2, <3>1
  <2> QED BY <2>2, <2>4, <2>5
<1> QED BY <1>6, <1>7

(* An ordinary message that is there as a whole is served with its body. *)
LEMMA OrdinaryParsed ==
  ASSUME Script, NEW s, Piece(s), Whole(s), Ordinary(script[s[1].msg])
  PROVE  /\ Parsed(s).outcome = "ok" /\ Parsed(s).msg = s[1].msg
         /\ Parsed(s).body = BodyOf(s[1].msg)
<1> DEFINE n == s[1].msg
           m == script[n]
           H == HeadLen(m)
           len == ParsedLength(s, H)
<1>1. /\ m \in Messages /\ Len(s) \in Nat /\ s = Bytes(n)
      /\ H \in 1 .. Len(s) /\ Len(s) - H = m.body
  BY WholeBytes
<1>2. (HeadEnd(s) = IF HasFields(m) THEN H ELSE 0) /\ FirstLineEnd(s) # 0
  BY WholeHead
<1>3. len \in Nat /\ m.body <= len
  BY WholeLength
<1>4. m.body \in Nat
  BY <1>1, MessageTypes
<1>5. s[1].at = 1
  BY DEF Whole
<1>6. Parsed(s) = [outcome |-> "ok", msg |-> n,
                   body |-> IF HeadEnd(s) = 0 THEN <<>>
                            ELSE ParsedBody(s, HeadEnd(s), ParsedLength(s, HeadEnd(s)))]
  BY <1>2, <1>5 DEF Parsed
<1>7. ParsedBody(s, H, len) = BodyOf(n)
  <2>1. Min({len, Len(s) - H}) = Len(s) - H
    <3> HIDE DEF n, m, H, len
    <3>1. Len(s) - H \in Int /\ len \in Int /\ (len <= Len(s) - H => len = Len(s) - H)
      BY <1>1, <1>3, <1>4
    <3> QED BY <3>1, MinOfTwo
  <2>2. H + (Len(s) - H) = Len(s)
    BY <1>1
  <2>3. ParsedBody(s, H, len) = SubSeq(s, H + 1, Len(s))
    BY <2>1, <2>2 DEF ParsedBody
  <2>4. BodyOf(n) = SubSeq(Bytes(n), H + 1, Len(Bytes(n)))
    BY DEF BodyOf
  <2> QED BY <1>1, <2>3, <2>4
<1>8. ~HasFields(m) => BodyOf(n) = <<>>
  <2> SUFFICES ASSUME ~HasFields(m) PROVE BodyOf(n) = <<>>
    OBVIOUS
  <2>1. m.length = "none"
    BY <1>1, HeadLenIs
  <2>2. m.body = 0
    BY <2>1 DEF Ordinary
  <2>3. BodyOf(n) \in Seq(AllBytes) /\ Len(BodyOf(n)) = 0
    BY <2>2, WholeBytes, BodyOfIs
  <2> QED BY <2>3, EmptySeq
<1>9. H # 0
  BY <1>1
<1>10. HasFields(m) => /\ HeadEnd(s) # 0
                       /\ ParsedBody(s, HeadEnd(s), ParsedLength(s, HeadEnd(s))) = BodyOf(n)
  BY <1>2, <1>7, <1>9
<1>11. ~HasFields(m) => HeadEnd(s) = 0
  BY <1>2
<1> HIDE DEF n, m, H, len
<1>12. Parsed(s) = [outcome |-> "ok", msg |-> n, body |-> BodyOf(n)]
  BY <1>6, <1>8, <1>10, <1>11
<1> QED BY <1>12 DEF n

(* The bytes that the worker is at are a piece of the stream. *)
LEMMA CurrentPiece ==
  ASSUME MessagesInv
  PROVE  /\ Current \in Seq(AllBytes) /\ Piece(Current) /\ Piece(Current \o wire)
         /\ buf = <<>> => Current = inbox
         /\ inbox = <<>> => Current = buf
         /\ Current = <<>> <=> buf = <<>> /\ inbox = <<>>
         /\ buf # <<>> => Current[1] = buf[1]
<1>1. buf \in Seq(AllBytes) /\ inbox \in Seq(AllBytes) /\ wire \in Seq(AllBytes)
  BY DEF MessagesInv, Sequences
<1>2. Current \in Seq(AllBytes)
  BY <1>1, ConcatProperties DEF Current
<1>3. (buf \o inbox) \o wire = buf \o (inbox \o wire)
  BY <1>1, JoinedBytes, Zenon
<1>4. Piece(Current \o wire)
  BY <1>3 DEF Current, MessagesInv, OneStream
<1>5. Piece(Current)
  BY <1>1, <1>2, <1>4, PieceSplit
<1>6. buf = <<>> => Current = inbox
  BY <1>1, ConcatEmptySeq DEF Current
<1>7. inbox = <<>> => Current = buf
  BY <1>1, ConcatEmptySeq DEF Current
<1>8. Current = <<>> <=> buf = <<>> /\ inbox = <<>>
  BY <1>1, ConcatEqualIffEmpty DEF Current
<1>9. ASSUME buf # <<>> PROVE Current[1] = buf[1]
  <2>1. Len(buf) \in Nat /\ Len(buf) >= 1 /\ Len(inbox) \in Nat
    BY <1>1, <1>9, EmptySeq, LenProperties
  <2>2. \A i \in 1 .. Len(buf) + Len(inbox) :
           (buf \o inbox)[i] = IF i <= Len(buf) THEN buf[i] ELSE inbox[i - Len(buf)]
    BY <1>1, ConcatProperties
  <2> QED BY <2>1, <2>2 DEF Current
<1> QED BY <1>2, <1>4, <1>5, <1>6, <1>7, <1>8, <1>9

(* A step that leaves the script alone, and what the worker is at. *)
LEMMA SameMessage ==
  ASSUME script' = script, NEW c, c = Current'
  PROVE  /\ Whole(Current)' <=> Whole(c)
         /\ Left(Current)' <=> Left(c)
         /\ OfOrdinary' <=> Ordinary(script[c[1].msg])
BY DEF Whole, Left, MsgLen, OfOrdinary

LEMMA InitTurn ==
  ASSUME Init
  PROVE  Turn
<1>1. Waiting
  BY MessagesAssumption DEF Init, Waiting
<1> QED BY <1>1 DEF Init, Turn

LEMMA ReadableTurn ==
  ASSUME MessagesInv, Turn, Readable
  PROVE  Turn'
<1>1. /\ UNCHANGED <<patient, script, wire, eof, inbox, outbox, taken, due>>
      /\ pc = "wait" /\ pc' = "recv" /\ buf' = <<>>
      /\ body_start' = 0 /\ stale' = FALSE /\ (inbox # <<>> \/ eof)
  BY DEF Readable, peer, reply
<1> SUFFICES ASSUME patient PROVE Receiving'
  BY <1>1 DEF Turn
<1>2. PICK c : c = inbox /\ c = Current'
  BY <1>1, ConcatEmptySeq DEF Current, MessagesInv, Sequences
<1>3. /\ Whole(Current)' <=> Whole(c)
      /\ Left(Current)' <=> Left(c)
  BY <1>1, <1>2, SameMessage
<1>4. Waiting
  BY <1>1 DEF Turn
<1>5. CASE inbox = <<>>
  <2>1. eof' /\ Current' = <<>>
    BY <1>1, <1>2, <1>5
  <2> QED BY <2>1 DEF Receiving
<1>6. CASE Whole(inbox) /\ Quiet
  BY <1>1, <1>2, <1>3, <1>6 DEF Receiving, Quiet
<1>7. CASE Left(inbox)
  BY <1>2, <1>3, <1>7 DEF Receiving
<1> QED BY <1>4, <1>5, <1>6, <1>7 DEF Waiting

(* recv moves bytes of the message that the worker is at. *)
LEMMA RecvCurrent ==
  ASSUME MessagesInv, Recv
  PROVE  Current' = Current /\ buf' # <<>> /\ buf' # buf /\ inbox # <<>>
<1> DEFINE n == Received
           x == SubSeq(inbox, 1, n)
           y == SubSeq(inbox, n + 1, Len(inbox))
<1>1. n > 0 /\ buf' = buf \o x /\ inbox' = y
  BY DEF Recv
<1>2. inbox \in Seq(AllBytes) /\ buf \in Seq(AllBytes) /\ n \in 0 .. Len(inbox) /\ Len(inbox) \in Nat
  BY ReceivedIs DEF MessagesInv, Sequences
<1>3. x \in Seq(AllBytes) /\ Len(x) = n /\ y \in Seq(AllBytes) /\ x \o y = inbox
  BY <1>2, Cut
<1> HIDE DEF x, y, n
<1>4. (buf \o x) \o y = buf \o (x \o y)
  <2>1. buf \in Seq(AllBytes) /\ x \in Seq(AllBytes) /\ y \in Seq(AllBytes)
    BY <1>2, <1>3
  <2> QED BY <2>1, JoinedBytes, Zenon
<1>5. Current' = Current
  BY <1>1, <1>3, <1>4 DEF Current
<1>6. x # <<>> /\ inbox # <<>>
  BY <1>1, <1>2, <1>3, EmptySeq
<1>7. buf \o x # buf /\ buf \o x # <<>>
  BY <1>2, <1>3, <1>6, ConcatEqualIffEmpty
<1> QED BY <1>1, <1>5, <1>6, <1>7

(* An ordinary message that ends its head with CRLF is received at once. *)
LEMMA OrdinaryReceived ==
  ASSUME MessagesInv, Recv, buf = <<>>, body_start = 0, stale = FALSE,
         Whole(inbox), Ordinary(script[inbox[1].msg])
  PROVE  /\ inbox' = <<>>
         /\ pc' # "parse" => script[inbox[1].msg].blank = "lf"
<1> DEFINE m == script[inbox[1].msg]
           H == HeadLen(m)
           n == Received
           s == buf \o SubSeq(inbox, 1, n)
<1>1. Script /\ Piece(inbox) /\ inbox \in Seq(AllBytes)
  BY StreamParts DEF MessagesInv, Sequences
<1>2. /\ m \in Messages /\ Len(inbox) \in Nat /\ H \in 1 .. Len(inbox) /\ Len(inbox) - H = m.body
  BY <1>1, WholeBytes
<1>3. m.body \in Nat /\ m.blank \in {"crlf", "lf"}
  BY <1>2, MessageTypes
<1>4. n = Len(inbox)
  <2>1. H + m.body <= InitCap /\ InitCap \in Nat /\ cap \in Nat /\ cap >= InitCap
    BY MessagesAssumption DEF Ordinary, MessagesInv, Room
  <2>2. Len(buf) = 0
    BY EmptySeq
  <2> HIDE DEF H, m
  <2>3. Len(inbox) \in Int /\ cap - Len(buf) \in Int /\ Len(inbox) <= cap - Len(buf)
    BY <1>2, <1>3, <2>1, <2>2
  <2> QED BY <2>3, MinOfTwo DEF Received
<1>5. s = inbox
  BY <1>1, <1>4, SubSeqFull, ConcatEmptySeq
<1>6. inbox' = <<>>
  <2>1. inbox' = SubSeq(inbox, n + 1, Len(inbox))
    BY DEF Recv
  <2> QED BY <1>2, <1>4, <2>1, SubSeqEmpty
<1>7. ASSUME m.blank = "crlf" PROVE pc' = "parse"
  <2>1. BodyStart(inbox) = H
    BY <1>1, <1>7, WholeHead
  <2>2. Announced(inbox, H) <= m.body
    BY <1>1, WholeLength
  <2>3. H # 0
    BY <1>2
  <2> DEFINE start == IF body_start # 0 THEN body_start ELSE BodyStart(s)
             length == IF body_start = 0 /\ start # 0 THEN Announced(s, start) ELSE content_length
  <2>4. start = H
    BY <1>5, <2>1
  <2>5. length = Announced(inbox, H)
    BY <1>5, <2>3, <2>4
  <2>6. \E complete \in {start # 0 /\ Len(s) - start >= length} \cup (IF stale THEN {TRUE} ELSE {}) :
           (complete /\ pc' = "parse") \/ ~complete
    BY DEF Recv
  <2>9. Announced(inbox, H) \in Nat
    BY <1>1, AnnouncedIs
  <2> HIDE DEF start, length, s, H, m
  <2>7. start # 0 /\ Len(s) - start >= length
    BY <1>2, <1>3, <1>5, <2>2, <2>3, <2>4, <2>5, <2>9
  <2> QED BY <2>6, <2>7
<1> QED BY <1>3, <1>6, <1>7

LEMMA RecvTurn ==
  ASSUME MessagesInv, Turn, Recv
  PROVE  Turn'
<1>1. /\ UNCHANGED <<patient, script, wire, eof, outbox, taken, due>>
      /\ pc = "recv" /\ pc' \in {"parse", "recv"}
  BY DEF Recv, peer, reply
<1>2. Current' = Current /\ buf' # <<>> /\ inbox # <<>>
  BY RecvCurrent
<1>3. PICK c : c = Current /\ c = Current'
  BY <1>2
<1>4. /\ Whole(Current)' <=> Whole(c)
      /\ Left(Current)' <=> Left(c)
      /\ OfOrdinary' <=> Ordinary(script[c[1].msg])
  BY <1>1, <1>3, SameMessage
<1> SUFFICES ASSUME patient
             PROVE  (pc' = "recv" => Receiving') /\ (pc' = "parse" => Filled')
  BY <1>1 DEF Turn
<1>5. Receiving
  BY <1>1 DEF Turn
<1>6. CASE Left(Current)
  BY <1>2, <1>3, <1>4, <1>6 DEF Receiving, Filled
<1>7. CASE Whole(Current) /\ ~OfOrdinary /\ Quiet
  BY <1>1, <1>2, <1>3, <1>4, <1>7 DEF Receiving, Filled, Quiet, OfOrdinary
<1>8. CASE Whole(Current) /\ OfOrdinary /\ Quiet
           /\ (buf = <<>> => body_start = 0 /\ stale = FALSE)
           /\ (buf # <<>> => inbox = <<>>)
  <2>1. buf = <<>> /\ body_start = 0 /\ stale = FALSE
    BY <1>2, <1>8
  <2>2. Current = inbox
    BY <2>1, CurrentPiece
  <2>3. inbox' = <<>> /\ (pc' # "parse" => script[c[1].msg].blank = "lf")
    BY <1>3, <1>8, <2>1, <2>2, OrdinaryReceived DEF OfOrdinary
  <2>4. pc' = "recv" => script'[Current'[1].msg].blank = "lf"
    BY <1>1, <1>3, <2>3
  <2> QED BY <1>1, <1>2, <1>3, <1>4, <1>8, <2>3, <2>4 DEF Receiving, Filled, Quiet
<1>9. Current # <<>>
  BY <1>2, CurrentPiece
<1> QED BY <1>5, <1>6, <1>7, <1>8, <1>9 DEF Receiving

LEMMA RecvDryTurn ==
  ASSUME MessagesInv, Turn, RecvDry
  PROVE  Turn'
<1>1. /\ UNCHANGED <<patient, script, wire, eof, inbox, buf, outbox, taken, due>>
      /\ pc = "recv" /\ pc' \in {"parse", "closed"}
      /\ pc' = "parse" => buf # <<>>
  BY DEF RecvDry, AfterDry, peer, loop, reply
<1> SUFFICES ASSUME patient, pc' = "parse" PROVE Filled'
  BY <1>1 DEF Turn
<1>2. PICK c : c = Current /\ c = Current'
  BY <1>1 DEF Current
<1>3. /\ Whole(Current)' <=> Whole(c)
      /\ Left(Current)' <=> Left(c)
      /\ OfOrdinary' <=> Ordinary(script[c[1].msg])
  BY <1>1, <1>2, SameMessage
<1>4. Receiving
  BY <1>1 DEF Turn
<1>5. Current # <<>>
  BY <1>1, CurrentPiece
<1> QED BY <1>1, <1>2, <1>3, <1>4, <1>5 DEF Receiving, Filled, Quiet, OfOrdinary

LEMMA ParseTurn ==
  ASSUME MessagesInv, Turn, Parse
  PROVE  Turn'
<1>1. /\ UNCHANGED <<patient, script, wire, eof, inbox, buf, outbox, taken, due>>
      /\ pc = "parse" /\ pc' = "respond" /\ result' = Parsed(buf)
  BY DEF Parse, peer, loop, reply
<1> SUFFICES ASSUME patient PROVE Filled' /\ Answered'
  BY <1>1 DEF Turn
<1>2. PICK c : c = Current /\ c = Current'
  BY <1>1 DEF Current
<1>3. /\ Whole(Current)' <=> Whole(c)
      /\ Left(Current)' <=> Left(c)
      /\ OfOrdinary' <=> Ordinary(script[c[1].msg])
  BY <1>1, <1>2, SameMessage
<1>4. Filled
  BY <1>1 DEF Turn
<1>5. Filled'
  BY <1>1, <1>2, <1>3, <1>4 DEF Filled, Quiet, OfOrdinary
<1>6. buf # <<>> /\ Current[1] = buf[1]
  BY <1>4, CurrentPiece DEF Filled
<1>7. ASSUME Left(c) PROVE result'.outcome # "ok"
  <2>1. buf[1].at # 1
    BY <1>2, <1>6, <1>7 DEF Left
  <2>2. Parsed(buf).outcome # "ok"
    <3>1. CASE FirstLineEnd(buf) = 0
      <4>1. Parsed(buf) = [outcome |-> "partial", msg |-> 0, body |-> <<>>]
        BY <3>1 DEF Parsed, NoResult
      <4> QED BY <4>1
    <3>2. CASE FirstLineEnd(buf) # 0
      <4>1. Parsed(buf) = [outcome |-> "bad", msg |-> 0, body |-> <<>>]
        BY <2>1, <3>2 DEF Parsed, NoResult
      <4> QED BY <4>1
    <3> QED BY <3>1, <3>2
  <2> QED BY <1>1, <2>2
<1>8. ASSUME Whole(c), Ordinary(script[c[1].msg])
      PROVE  /\ result'.outcome = "ok" /\ result'.msg = c[1].msg
             /\ result'.body = BodyOf(c[1].msg)
  <2>1. inbox = <<>>
    <3>1. ~Left(c)
      BY <1>8 DEF Whole, Left
    <3> QED BY <1>2, <1>4, <1>8, <3>1 DEF Filled, OfOrdinary
  <2>2. c = buf
    BY <1>2, <2>1, CurrentPiece
  <2>3. Script /\ Piece(buf)
    BY StreamParts DEF MessagesInv
  <2>4. Whole(buf) /\ Ordinary(script[buf[1].msg])
    BY <1>8, <2>2
  <2>5. /\ Parsed(buf).outcome = "ok" /\ Parsed(buf).msg = buf[1].msg
        /\ Parsed(buf).body = BodyOf(buf[1].msg)
    BY <2>3, <2>4, OrdinaryParsed
  <2> QED BY <1>1, <2>2, <2>5
<1>9. ASSUME Whole(c), Ordinary(script[c[1].msg]) PROVE Served'
  <2>1. BodyOf(c[1].msg) = BodyOf(c[1].msg)'
    BY <1>1 DEF BodyOf, Bytes
  <2> QED BY <1>2, <1>8, <1>9, <2>1 DEF Served
<1>10. Answered'
  BY <1>3, <1>7, <1>9 DEF Answered
<1> QED BY <1>5, <1>10

LEMMA RespondTurn ==
  ASSUME MessagesInv, Turn, Respond
  PROVE  Turn'
<1> DEFINE n == Min({due', SendBuffer - outbox})
<1>1. /\ UNCHANGED <<patient, script, wire, eof, inbox, buf, result, taken>>
      /\ pc = "respond" /\ pc' \in {"wait", "closed"} /\ outbox' = outbox + n
      /\ pc' = "wait" => result.outcome = "ok"
      /\ due' \in Lengths
  BY DEF Respond, AfterReply, peer, loop
<1> SUFFICES ASSUME patient, pc' = "wait" PROVE Waiting'
  BY <1>1 DEF Turn
<1>2. outbox \in Nat /\ SendBuffer \in Nat /\ due' \in Nat
  BY <1>1, MessagesAssumption DEF MessagesInv, Fields
<1>3. n = IF due' <= SendBuffer - outbox THEN due' ELSE SendBuffer - outbox
  BY <1>2, MinOfTwo
<1> HIDE DEF n
<1>4. /\ buf # <<>> /\ Whole(Current) /\ Quiet /\ (OfOrdinary => inbox = <<>>)
  BY <1>1 DEF Turn, Filled, Answered
<1>5. CASE inbox = <<>>
  <2>1. taken + (outbox + n) <= due'
    <3>1. PICK d \in Nat : d = due'
      BY <1>2
    <3>2. n = IF d <= SendBuffer - outbox THEN d ELSE SendBuffer - outbox
      BY <1>3, <3>1
    <3>3. taken = 0 /\ outbox = 0
      BY <1>4 DEF Quiet
    <3>4. taken + (outbox + n) <= d
      BY <1>2, <3>2, <3>3
    <3> QED BY <3>1, <3>4
  <2> QED BY <1>1, <1>5, <2>1 DEF Waiting
<1>6. CASE inbox # <<>>
  <2>1. Script /\ Piece(Current) /\ buf \in Seq(AllBytes) /\ inbox \in Seq(AllBytes)
    BY CurrentPiece DEF MessagesInv, Sequences
  <2>2. /\ Len(Current) = Len(buf) + Len(inbox)
        /\ \A i \in 1 .. Len(buf) + Len(inbox) :
              Current[i] = IF i <= Len(buf) THEN buf[i] ELSE inbox[i - Len(buf)]
    BY <2>1, ConcatProperties DEF Current
  <2>3. Len(buf) \in Nat /\ Len(buf) >= 1 /\ Len(inbox) \in Nat /\ Len(inbox) >= 1
    BY <1>4, <1>6, <2>1, EmptySeq
  <2>4. \A p \in 1 .. Len(Current) : Current[p].msg = Current[1].msg /\ Current[p].at = p
    BY <1>4, <2>1, WholeBytes
  <2>5. /\ Len(buf) + 1 \in 1 .. Len(Current) /\ Len(buf) + 1 \in 1 .. Len(buf) + Len(inbox)
        /\ ~(Len(buf) + 1 <= Len(buf)) /\ (Len(buf) + 1) - Len(buf) = 1 /\ Len(buf) + 1 # 1
    BY <2>2, <2>3
  <2>6. Current[Len(buf) + 1] = inbox[1]
    BY <2>2, <2>5
  <2>7. inbox[1].msg = Current[1].msg /\ inbox[1].at # 1
    BY <2>4, <2>5, <2>6
  <2>8. ~Ordinary(script[inbox[1].msg])
    BY <1>4, <1>6, <2>7 DEF OfOrdinary
  <2>9. Left(inbox)'
    BY <1>1, <1>6, <2>7, <2>8 DEF Left
  <2> QED BY <2>9 DEF Waiting
<1> QED BY <1>5, <1>6

(* What is left of a message stays in front of what is sent behind it. *)
LEMMA LeftGrows ==
  ASSUME NEW a \in Seq(AllBytes), NEW b \in Seq(AllBytes), Left(a)
  PROVE  Left(a \o b)
<1>1. Len(a) \in Nat /\ Len(a) >= 1 /\ Len(b) \in Nat
  BY EmptySeq, LenProperties DEF Left
<1>2. \A i \in 1 .. Len(a) + Len(b) : (a \o b)[i] = IF i <= Len(a) THEN a[i] ELSE b[i - Len(a)]
  BY ConcatProperties
<1>3. (a \o b)[1] = a[1]
  BY <1>1, <1>2
<1>4. a \o b # <<>>
  BY ConcatEqualIffEmpty DEF Left
<1> QED BY <1>3, <1>4 DEF Left

LEMMA SendMessageTurn ==
  ASSUME MessagesInv, Turn, SendMessage
  PROVE  Turn'
<1> DEFINE L == MsgLen(wire[1].msg)
           x == SubSeq(wire, 1, L)
<1>1. patient /\ taken = due /\ pc # "closed" /\ wire # <<>> /\ ~eof
  BY DEF SendMessage, Sending
<1>2. /\ Head(wire) = wire[1] /\ wire[1].msg \in 1 .. Len(script)
      /\ Len(Bytes(wire[1].msg)) = L /\ L \in 1 .. Len(wire)
      /\ \A p \in 1 .. L : wire[p] = [msg |-> wire[1].msg, at |-> p]
  BY <1>1, WholeMessage
<1>3. /\ UNCHANGED <<patient, script, eof, pc, buf, result, outbox, due>>
      /\ inbox' = inbox \o x /\ taken' = 0
  BY <1>2 DEF SendMessage, Sending, loop
<1>4. /\ wire \in Seq(AllBytes) /\ inbox \in Seq(AllBytes) /\ buf \in Seq(AllBytes)
      /\ Len(wire) \in Nat /\ L \in Nat /\ L >= 1
  <2>1. wire \in Seq(AllBytes) /\ inbox \in Seq(AllBytes) /\ buf \in Seq(AllBytes)
    BY DEF MessagesInv, Sequences
  <2>2. Len(wire) \in Nat
    BY <2>1, LenProperties
  <2> QED BY <1>2, <2>1, <2>2
<1>5. x \in Seq(AllBytes) /\ Len(x) = L /\ x[1] = wire[1]
  <2>1. \A i \in 1 .. L : wire[i] \in AllBytes
    BY <1>2, <1>4, ElementOfSeq
  <2>2. x \in Seq(AllBytes) /\ (Len(x) = IF 1 <= L THEN L - 1 + 1 ELSE 0)
        /\ \A i \in 1 .. L - 1 + 1 : x[i] = wire[1 + i - 1]
    BY <1>4, <2>1, SubSeqProperties
  <2> HIDE DEF x, L
  <2> QED BY <1>4, <2>2
<1>6. wire[1].at = 1
  BY <1>1 DEF MessagesInv, AtMessage
<1>7. Whole(x)
  <2>1. x # <<>>
    <3> HIDE DEF x, L
    <3>1. Len(x) # 0
      BY <1>4, <1>5
    <3> QED BY <3>1, EmptySeq
  <2> QED BY <1>5, <1>6, <2>1 DEF Whole
<1>8. taken # 0 /\ ~Quiet /\ taken \in Nat /\ outbox \in Nat /\ due \in Nat
  BY <1>1, MessagesAssumption DEF Quiet, MessagesInv, Fields
<1> HIDE DEF x, L
<1>10. CASE pc = "wait"
  <2>1. CASE inbox = <<>> /\ taken + outbox <= due
    <3>1. outbox = 0
      BY <1>1, <1>8, <2>1
    <3>2. inbox' = x
      BY <1>3, <1>5, <2>1, ConcatEmptySeq
    <3>3. Whole(inbox)'
      BY <1>3, <1>7, <3>2 DEF Whole, MsgLen
    <3>4. Waiting'
      BY <1>3, <3>1, <3>3 DEF Waiting, Quiet
    <3> QED BY <1>3, <1>10, <3>4 DEF Turn
  <2>2. CASE Left(inbox)
    <3>1. Left(inbox \o x)
      BY <1>4, <1>5, <2>2, LeftGrows
    <3>2. Left(inbox)'
      BY <1>3, <3>1 DEF Left
    <3>3. Waiting'
      BY <3>2 DEF Waiting
    <3> QED BY <1>3, <1>10, <3>3 DEF Turn
  <2>3. Waiting
    BY <1>1, <1>10 DEF Turn
  <2> QED BY <1>8, <2>1, <2>2, <2>3 DEF Waiting
<1>11. CASE pc \in {"recv", "parse", "respond"}
  <2>1. Left(Current)
    BY <1>1, <1>8, <1>11 DEF Turn, Receiving, Filled
  <2>11. buf \in Seq(AllBytes) /\ inbox \in Seq(AllBytes) /\ x \in Seq(AllBytes)
    BY <1>4, <1>5
  <2>2. (buf \o inbox) \o x = buf \o (inbox \o x)
    BY <2>11, JoinedBytes, Zenon
  <2>3. PICK c : c = Current' /\ c = Current \o x
    BY <1>3, <2>2 DEF Current
  <2>4. Left(c)
    BY <1>5, <2>1, <2>3, CurrentPiece, LeftGrows
  <2>5. Left(Current)' /\ ~Whole(Current)'
    <3>1. ~Whole(c)
      BY <2>4 DEF Whole, Left
    <3> QED BY <1>3, <2>3, <2>4, <3>1, SameMessage
  <2>6. pc = "respond" => result.outcome # "ok"
    BY <1>1, <2>1 DEF Turn, Answered
  <2>7. pc # "recv" => buf # <<>>
    BY <1>1, <1>11 DEF Turn, Filled
  <2>8. Receiving'
    BY <2>5 DEF Receiving
  <2>9. pc # "recv" => Filled'
    BY <1>3, <2>5, <2>7 DEF Filled
  <2>10. pc = "respond" => Answered'
    BY <1>3, <2>5, <2>6 DEF Answered
  <2> QED BY <1>3, <1>11, <2>8, <2>9, <2>10 DEF Turn
<1> QED BY <1>1, <1>10, <1>11 DEF MessagesInv, Fields

LEMMA SendPieceTurn ==
  ASSUME MessagesInv, Turn, SendPiece
  PROVE  Turn'
<1>1. ~patient /\ patient' = patient
  BY DEF SendPiece, Sending
<1> QED BY <1>1 DEF Turn

(* A step that leaves the worker where it is. *)
LEMMA SameTurn ==
  ASSUME Turn, UNCHANGED <<patient, script, wire, inbox, pc, buf, body_start, stale,
                           result, outbox, taken, due>>, eof => eof'
  PROVE  /\ patient' /\ pc' = "wait" => Waiting'
         /\ patient' /\ pc' = "recv" => Receiving'
         /\ patient' /\ pc' \in {"parse", "respond"} => Filled'
         /\ patient' /\ pc' = "respond" => Answered'
<1>1. PICK c : c = Current /\ c = Current'
  BY DEF Current
<1>2. /\ Whole(Current)' <=> Whole(c)
      /\ Left(Current)' <=> Left(c)
      /\ OfOrdinary' <=> Ordinary(script[c[1].msg])
  BY <1>1, SameMessage
<1>3. Waiting => Waiting'
  BY DEF Waiting, Whole, Left, Quiet, MsgLen
<1>4. Receiving => Receiving'
  BY <1>1, <1>2 DEF Receiving, Quiet, OfOrdinary
<1>5. Filled => Filled'
  BY <1>1, <1>2 DEF Filled, Quiet, OfOrdinary
<1>6. Served => Served'
  BY <1>1 DEF Served, BodyOf, Bytes
<1>7. Answered => Answered'
  BY <1>1, <1>2, <1>6 DEF Answered, OfOrdinary
<1> QED BY <1>3, <1>4, <1>5, <1>7 DEF Turn

LEMMA ReadTurn ==
  ASSUME MessagesInv, Turn, Read
  PROVE  Turn'
<1>1. /\ UNCHANGED <<patient, script, wire, eof, inbox, pc, buf, body_start, stale, result, due>>
      /\ outbox > 0 /\ taken' = taken + outbox /\ outbox' = 0
  BY DEF Read, peer, loop
<1>2. outbox \in Nat /\ taken \in Nat /\ ~Quiet
  BY <1>1, MessagesAssumption DEF MessagesInv, Fields, Quiet
<1> SUFFICES ASSUME patient
             PROVE  /\ pc' = "wait" => Waiting'
                    /\ pc' = "recv" => Receiving'
                    /\ pc' \in {"parse", "respond"} => Filled'
                    /\ pc' = "respond" => Answered'
  BY <1>1 DEF Turn
<1>3. PICK c : c = Current /\ c = Current'
  BY <1>1 DEF Current
<1>4. /\ Whole(Current)' <=> Whole(c)
      /\ Left(Current)' <=> Left(c)
      /\ OfOrdinary' <=> Ordinary(script[c[1].msg])
  BY <1>1, <1>3, SameMessage
<1>5. Waiting => Waiting'
  <2>1. inbox = <<>> /\ taken + outbox <= due => Waiting'
    BY <1>1, <1>2 DEF Waiting
  <2>2. Left(inbox) => Waiting'
    BY <1>1 DEF Waiting, Left
  <2> QED BY <1>2, <2>1, <2>2 DEF Waiting
<1>6. Receiving => Receiving'
  BY <1>1, <1>2, <1>3, <1>4 DEF Receiving
<1>7. Filled => Filled'
  BY <1>1, <1>2, <1>3, <1>4 DEF Filled
<1>8. Served => Served'
  BY <1>1, <1>3 DEF Served, BodyOf, Bytes
<1>9. Answered => Answered'
  BY <1>1, <1>3, <1>4, <1>8 DEF Answered, OfOrdinary
<1> QED BY <1>1, <1>5, <1>6, <1>7, <1>9 DEF Turn

LEMMA StillTurn ==
  ASSUME Turn, Close \/ UNCHANGED vars
  PROVE  Turn'
<1>1. /\ UNCHANGED <<patient, script, wire, inbox, pc, buf, body_start, stale, result,
                     outbox, taken, due>>
      /\ eof => eof'
  BY DEF Turn, Close, vars, peer, loop, reply
<1> QED BY <1>1, SameTurn DEF Turn

(* A sender that waits has one message on its way, which is in the buffer  *)
(* and the kernel between them; what it is at depends on where             *)
(* worker_callback is (http.c:349-394, worker_loop.c).                     *)
THEOREM TurnInvariant == Spec => [](MessagesInv /\ Turn)
<1>1. Init => Turn
  BY InitTurn
<1>2. MessagesInv /\ Turn /\ [Next]_vars => Turn'
  <2> SUFFICES ASSUME MessagesInv, Turn, [Next]_vars PROVE Turn'
    OBVIOUS
  <2>1. CASE ServerStep
    BY <2>1, ReadableTurn, RecvTurn, RecvDryTurn, ParseTurn, RespondTurn DEF ServerStep
  <2>2. CASE SendPiece
    BY <2>2, SendPieceTurn
  <2>3. CASE SendMessage
    BY <2>3, SendMessageTurn
  <2>4. CASE Read
    BY <2>4, ReadTurn
  <2>5. CASE Close \/ Closed \/ UNCHANGED vars
    BY <2>5, StillTurn DEF Closed
  <2> QED BY <2>1, <2>2, <2>3, <2>4, <2>5 DEF Next
<1> QED BY <1>1, <1>2, MessagesInvariant, PTL DEF Spec

(* Whatever messages there are, and however large the buffer: a sender     *)
(* that waits for its answers is served, each of its messages in turn and  *)
(* with the whole of its body (http.c:349-394, http.c:183-189).            *)
THEOREM PatientSendersServed == Spec => []PatientServed
<1>1. MessagesInv /\ Turn => PatientServed
  <2> SUFFICES ASSUME MessagesInv, Turn, patient, pc = "respond",
                      \A n \in DOMAIN script : Ordinary(script[n])
               PROVE  /\ result.outcome = "ok"
                      /\ result.body = BodyOf(result.msg)
                      /\ wire # <<>> => Head(wire).msg = result.msg + 1
                      /\ inbox = <<>>
    BY DEF PatientServed
  <2>1. buf # <<>> /\ Filled /\ Answered
    BY DEF Turn, Filled
  <2>2. Script /\ Current # <<>> /\ Piece(Current) /\ Current \in Seq(AllBytes)
        /\ Piece(Current \o wire) /\ wire \in Seq(AllBytes)
    BY <2>1, CurrentPiece DEF MessagesInv, Sequences
  <2>3. OfOrdinary
    <3>1. 1 \in 1 .. Len(Current)
      BY <2>2, EmptySeq
    <3>2. Current[1].msg \in DOMAIN script
      BY <2>2, <3>1 DEF Piece
    <3> QED BY <3>2 DEF OfOrdinary
  <2>4. Whole(Current) /\ inbox = <<>>
    BY <2>1, <2>3 DEF Filled, Left, OfOrdinary
  <2>5. Served
    BY <2>1, <2>3, <2>4 DEF Answered
  <2>6. ASSUME wire # <<>> PROVE Head(wire).msg = result.msg + 1
    <3>1. Follows(Current[Len(Current)], wire[1])
      BY <2>2, <2>6, PieceSplit
    <3>2. Len(Current) \in 1 .. Len(Current)
      BY <2>2, EmptySeq
    <3>3. /\ Current[Len(Current)].msg = Current[1].msg /\ Current[Len(Current)].at = Len(Current)
          /\ Len(Current) = MsgLen(Current[1].msg) /\ Len(Current) \in Nat
      BY <2>2, <2>4, <3>2, WholeBytes DEF Whole
    <3>4. wire[1].at = 1
      BY <2>6 DEF MessagesInv, AtMessage
    <3>5. Len(Current) >= 1 /\ Len(Current) + 1 # 1
      BY <3>2, <3>3
    <3>6. wire[1].msg = Current[1].msg + 1
      BY <3>1, <3>3, <3>4, <3>5 DEF Follows
    <3>7. Head(wire) = wire[1]
      BY <2>2, <2>6
    <3> QED BY <2>5, <3>6, <3>7 DEF Served
  <2> QED BY <2>4, <2>5, <2>6 DEF Served
<1> QED BY <1>1, TurnInvariant, PTL

(* recv is not called again for a message that the loop can delimit, which *)
(* would hold the worker for the whole timeout of a backend                *)
(* (worker_loop.c:181, http.c:379-384).                                    *)
THEOREM NoTimeoutSpent == Spec => NoNeedlessWait
<1> DEFINE Dry == patient /\ pc = "recv" /\ pc' = "parse" /\ buf' = buf
                     => \/ script[buf[1].msg].blank = "lf"
                        \/ ~Ordinary(script[buf[1].msg])
<1>1. MessagesInv /\ Turn /\ [Next]_vars => [Dry]_vars
  <2> SUFFICES ASSUME MessagesInv, Turn, Next, patient, pc = "recv", pc' = "parse", buf' = buf
               PROVE  \/ script[buf[1].msg].blank = "lf"
                      \/ ~Ordinary(script[buf[1].msg])
    OBVIOUS
  <2>1. RecvDry
    <3>1. ~Recv
      BY RecvCurrent
    <3> QED BY <3>1 DEF Next, ServerStep, Readable, Parse, Respond, SendPiece, SendMessage,
                        Sending, Read, Close, Closed
  <2>2. buf # <<>>
    BY <2>1 DEF RecvDry, AfterDry
  <2>3. Current # <<>> /\ Current[1] = buf[1]
    BY <2>2, CurrentPiece
  <2>4. Receiving
    BY DEF Turn
  <2> QED BY <2>2, <2>3, <2>4 DEF Receiving, Left, OfOrdinary
<1> QED BY <1>1, TurnInvariant, PTL DEF Spec, NoNeedlessWait
=============================================================================
