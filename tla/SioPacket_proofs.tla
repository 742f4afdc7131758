-------------------------- MODULE SioPacket_proofs --------------------------
(***************************************************************************)
(* What put_payload makes of the payloads of encode, for every set of      *)
(* packets and of threads of which one sends parts, and any number of lost *)
(* connections: first what parse and parse_buffer make of one packet, then *)
(* what the payloads that threads and losses leave on the wire come to.    *)
(***************************************************************************)
EXTENDS SioPacket, SequenceTheorems, TLAPS

-----------------------------------------------------------------------------
\* Texts.

\* The first place is where the search says it is.
LEMMA FoundAt ==
  ASSUME NEW s, Len(s) \in Nat, NEW K, NEW pos \in Nat, NEW k \in pos .. Len(s),
         s[k].is \in K, \A i \in pos .. Len(s) : i < k => s[i].is \notin K
  PROVE  FindFirstOf(s, K, pos) = k
<1> DEFINE at == {i \in pos .. Len(s) : s[i].is \in K}
<1>1. k \in at /\ at # {}
  OBVIOUS
<1>2. \A j \in at : k <= j
  <2> SUFFICES ASSUME NEW j \in at PROVE k <= j
    OBVIOUS
  <2>1. j \in pos .. Len(s) /\ ~(j < k)
    OBVIOUS
  <2> QED
    BY <2>1
<1>3. \A j \in at : (\A y \in at : j <= y) => j = k
  BY <1>1, <1>2
<1>4. Min(at) = k
  <2> HIDE DEF at
  <2> QED
    BY <1>1, <1>2, <1>3 DEF Min
<1> QED
  BY <1>1, <1>4 DEF FindFirstOf

LEMMA FoundNowhere ==
  ASSUME NEW s, NEW K, NEW pos, \A i \in pos .. Len(s) : s[i].is \notin K
  PROVE  FindFirstOf(s, K, pos) = 0
  BY DEF FindFirstOf

LEMMA Pair == \A S : \A x, y \in S : \A s : s = <<x, y>> => s \in Seq(S)
  OBVIOUS

\* A token that may be left out.
LEMMA MayAdd ==
  ASSUME NEW S, NEW s \in Seq(S), NEW x \in S, NEW left \in BOOLEAN,
         NEW u, u = s \o (IF left THEN <<>> ELSE <<x>>)
  PROVE  /\ u \in Seq(S)
         /\ Len(u) = Len(s) + (IF left THEN 0 ELSE 1)
         /\ \A i \in 1 .. Len(s) : u[i] = s[i]
         /\ ~left => u[Len(s) + 1] = x
<1>1. Len(s) \in Nat
  BY LenProperties
<1>2. CASE left
  <2>1. u = s
    BY <1>2, ConcatEmptySeq
  <2> QED
    BY <1>1, <1>2, <2>1
<1>3. CASE ~left
  <2>1. PICK t : t = <<x>>
    OBVIOUS
  <2>2. t \in Seq(S) /\ Len(t) = 1 /\ t[1] = x
    BY <2>1
  <2>3. u = s \o t
    BY <1>3, <2>1
  <2>4. /\ u \in Seq(S) /\ Len(u) = Len(s) + 1
        /\ \A i \in 1 .. Len(s) + 1 : u[i] = IF i <= Len(s) THEN s[i] ELSE t[i - Len(s)]
    <3>1. /\ s \o t \in Seq(S) /\ Len(s \o t) = Len(s) + Len(t)
          /\ \A i \in 1 .. Len(s) + Len(t) :
               (s \o t)[i] = IF i <= Len(s) THEN s[i] ELSE t[i - Len(s)]
      BY ONLY s \in Seq(S), <2>2, ConcatProperties
    <3> QED
      BY <2>2, <2>3, <3>1
  <2>5. /\ \A i \in 1 .. Len(s) : i <= Len(s) /\ i \in 1 .. Len(s) + 1
        /\ ~(Len(s) + 1 <= Len(s)) /\ Len(s) + 1 \in 1 .. Len(s) + 1
        /\ Len(s) + 1 - Len(s) = 1
    BY <1>1
  <2> QED
    BY <1>3, <2>2, <2>4, <2>5
<1> QED
  BY <1>2, <1>3

Count(p) == Len(Parts(p))
Val(p) == AcceptMessage(p.message).val

\* A packet with a text of its own; the others are one token.
IsMessage(p) == p.frame = "4"

\* How many tokens of each kind the text of a packet has.
Header(p) == IF Parts(p) = <<>> THEN 2 ELSE 4
NspToken(p) == IF p.nsp = "/" THEN 0 ELSE 1
CommaToken(p) == IF p.nsp # "/" /\ p.message # NoMessage THEN 1 ELSE 0
IdToken(p) == IF p.id = NoId THEN 0 ELSE 1
JsonToken(p) == IF p.message = NoMessage THEN 0 ELSE 1

SentType(p) == IF Parts(p) = <<>> THEN p.type ELSE BinaryType(p.type)

\* s holds a header of h tokens, and n, c, i and m times the others.
Sizes(p, h, n, c, i, m) ==
  /\ h \in {2, 4} /\ n \in {0, 1} /\ c \in {0, 1} /\ i \in {0, 1} /\ m \in {0, 1}
  /\ (h = 4 <=> Parts(p) # <<>>) /\ (n = 1 <=> p.nsp # "/")
  /\ (i = 1 <=> p.id # NoId) /\ (m = 1 <=> p.message # NoMessage)
  /\ c = 1 <=> n = 1 /\ m = 1
  /\ i = 1 => m = 1

Shape(s, p, h, n, c, i, m) ==
  /\ s[1].is = "4" /\ s[2] = Token("type", SentType(p))
  /\ h = 4 => s[3] = Token("count", Count(p)) /\ s[4].is = "-"
  /\ n = 1 => s[h + 1] = Token("nsp", p.nsp)
  /\ c = 1 => s[h + n + 1].is = "comma"
  /\ i = 1 => s[h + n + c + 1] = Token("id", p.id)
  /\ m = 1 => s[h + n + c + i + 1] = Token("json", Val(p))

HasShape(s, p, h, n, c, i, m) ==
  Sizes(p, h, n, c, i, m) /\ Len(s) = h + n + c + i + m /\ Shape(s, p, h, n, c, i, m)

LEMMA TextSizes ==
  ASSUME NEW p, Encodable(p)
  PROVE  Sizes(p, Header(p), NspToken(p), CommaToken(p), IdToken(p), JsonToken(p))
  BY DEF Sizes, Header, NspToken, CommaToken, IdToken, JsonToken, Encodable

LEMMA TextShape ==
  ASSUME NEW p, Encodable(p),
         NEW s, s = accept(p),
         NEW h, h = Header(p), NEW n, n = NspToken(p), NEW c, c = CommaToken(p),
         NEW i, i = IdToken(p), NEW m, m = JsonToken(p)
  PROVE  Len(s) = h + n + c + i + m /\ Shape(s, p, h, n, c, i, m)
<1> DEFINE t1 == Token("4", "")
           t2 == Token("type", SentType(p))
           t3 == Token("count", Len(Parts(p)))
           t4 == Token("-", "")
           tn == Token("nsp", p.nsp)
           tc == Token("comma", "")
           ti == Token("id", p.id)
           tm == Token("json", AcceptMessage(p.message).val)
           S == {t1, t2, t3, t4, tn, tc, ti, tm}
           base == <<t1, t2>>
           head == base \o (IF Parts(p) = <<>> THEN <<>> ELSE <<t3, t4>>)
           named == head \o (IF p.nsp = "/" THEN <<>> ELSE <<tn>>)
           comma == ~(p.nsp # "/" /\ (p.message # NoMessage \/ p.id # NoId))
           parted == named \o (IF comma THEN <<>> ELSE <<tc>>)
           numbered == parted \o (IF p.id = NoId THEN <<>> ELSE <<ti>>)
           whole == numbered \o (IF p.message = NoMessage THEN <<>> ELSE <<tm>>)
<1>1. s = whole
  BY DEF accept, SentType
<1>2. /\ head \in Seq(S) /\ Len(head) = h
      /\ head[1] = t1 /\ head[2] = t2
      /\ h = 4 => head[3] = t3 /\ head[4] = t4
  <2>1. PICK b, d : b = base /\ d = <<t3, t4>>
    OBVIOUS
  <2>0. t1 \in S /\ t2 \in S /\ t3 \in S /\ t4 \in S
    OBVIOUS
  <2> HIDE DEF t1, t2, t3, t4, S
  <2>2. b \in Seq(S) /\ Len(b) = 2 /\ b[1] = t1 /\ b[2] = t2
    <3>1. b \in Seq(S)
      BY <2>0, <2>1, Pair
    <3> QED
      BY <2>1, <3>1
  <2>3. d \in Seq(S) /\ Len(d) = 2 /\ d[1] = t3 /\ d[2] = t4
    <3>1. d \in Seq(S)
      BY <2>0, <2>1, Pair
    <3> QED
      BY <2>1, <3>1
  <2>4. CASE Parts(p) = <<>>
    <3>1. head = b
      BY <2>1, <2>2, <2>4, ConcatEmptySeq
    <3> QED
      BY <2>2, <2>4, <3>1 DEF Header
  <2>5. CASE Parts(p) # <<>>
    <3>1. head = b \o d
      BY <2>1, <2>5
    <3>2. /\ head \in Seq(S) /\ Len(head) = 4
          /\ \A k \in 1 .. 4 : head[k] = IF k <= 2 THEN b[k] ELSE d[k - 2]
      BY <2>2, <2>3, <3>1, ConcatProperties
    <3>3. head[1] = b[1] /\ head[2] = b[2] /\ head[3] = d[1] /\ head[4] = d[2]
      BY <3>2
    <3> QED
      BY <2>2, <2>3, <2>5, <3>2, <3>3 DEF Header
  <2> QED
    BY <2>4, <2>5
<1>3. tn \in S /\ tc \in S /\ ti \in S /\ tm \in S
  OBVIOUS
<1>4. (p.nsp = "/") \in BOOLEAN /\ comma \in BOOLEAN /\ (p.id = NoId) \in BOOLEAN
      /\ (p.message = NoMessage) \in BOOLEAN
  OBVIOUS
<1>5. comma <=> c = 0
  BY DEF CommaToken, Encodable
<1>6. h \in Nat /\ n \in {0, 1} /\ c \in {0, 1} /\ i \in {0, 1} /\ m \in {0, 1} /\ h \in {2, 4}
  BY DEF Header, NspToken, CommaToken, IdToken, JsonToken
<1> HIDE DEF t1, t2, t3, t4, tn, tc, ti, tm, S, head, comma
<1>7. /\ named \in Seq(S) /\ Len(named) = h + n
      /\ \A k \in 1 .. h : named[k] = head[k]
      /\ n = 1 => named[h + 1] = tn
  <2>1. /\ named \in Seq(S) /\ Len(named) = Len(head) + (IF p.nsp = "/" THEN 0 ELSE 1)
        /\ \A k \in 1 .. Len(head) : named[k] = head[k]
        /\ p.nsp # "/" => named[Len(head) + 1] = tn
    BY <1>2, <1>3, <1>4, MayAdd
  <2> QED
    BY <1>2, <2>1 DEF NspToken
<1> HIDE DEF named
<1>8. /\ parted \in Seq(S) /\ Len(parted) = h + n + c
      /\ \A k \in 1 .. h + n : parted[k] = named[k]
      /\ c = 1 => parted[h + n + 1] = tc
  <2>1. /\ parted \in Seq(S) /\ Len(parted) = Len(named) + (IF comma THEN 0 ELSE 1)
        /\ \A k \in 1 .. Len(named) : parted[k] = named[k]
        /\ ~comma => parted[Len(named) + 1] = tc
    BY <1>3, <1>4, <1>7, MayAdd
  <2> QED
    BY <1>5, <1>6, <1>7, <2>1
<1> HIDE DEF parted
<1>9. /\ numbered \in Seq(S) /\ Len(numbered) = h + n + c + i
      /\ \A k \in 1 .. h + n + c : numbered[k] = parted[k]
      /\ i = 1 => numbered[h + n + c + 1] = ti
  <2>1. /\ numbered \in Seq(S) /\ Len(numbered) = Len(parted) + (IF p.id = NoId THEN 0 ELSE 1)
        /\ \A k \in 1 .. Len(parted) : numbered[k] = parted[k]
        /\ p.id # NoId => numbered[Len(parted) + 1] = ti
    BY <1>3, <1>4, <1>8, MayAdd
  <2> QED
    BY <1>8, <2>1 DEF IdToken
<1> HIDE DEF numbered
<1>10. /\ Len(whole) = h + n + c + i + m
       /\ \A k \in 1 .. h + n + c + i : whole[k] = numbered[k]
       /\ m = 1 => whole[h + n + c + i + 1] = tm
  <2>1. /\ Len(whole) = Len(numbered) + (IF p.message = NoMessage THEN 0 ELSE 1)
        /\ \A k \in 1 .. Len(numbered) : whole[k] = numbered[k]
        /\ p.message # NoMessage => whole[Len(numbered) + 1] = tm
    BY <1>3, <1>4, <1>9, MayAdd
  <2> QED
    BY <1>9, <2>1 DEF JsonToken
<1> HIDE DEF whole
<1>11. \A k \in 1 .. h : s[k] = head[k]
  <2> SUFFICES ASSUME NEW k \in 1 .. h PROVE s[k] = head[k]
    OBVIOUS
  <2>1. k \in 1 .. h + n /\ k \in 1 .. h + n + c /\ k \in 1 .. h + n + c + i
    BY <1>6
  <2> QED
    BY <1>1, <1>7, <1>8, <1>9, <1>10, <2>1
<1>12. n = 1 => s[h + 1] = tn
  <2> SUFFICES ASSUME n = 1 PROVE s[h + 1] = tn
    OBVIOUS
  <2>1. h + 1 \in 1 .. h + n /\ h + 1 \in 1 .. h + n + c /\ h + 1 \in 1 .. h + n + c + i
    BY <1>6
  <2> QED
    BY <1>1, <1>7, <1>8, <1>9, <1>10, <2>1
<1>13. c = 1 => s[h + n + 1] = tc
  <2> SUFFICES ASSUME c = 1 PROVE s[h + n + 1] = tc
    OBVIOUS
  <2>1. h + n + 1 \in 1 .. h + n + c /\ h + n + 1 \in 1 .. h + n + c + i
    BY <1>6
  <2> QED
    BY <1>1, <1>8, <1>9, <1>10, <2>1
<1>14. i = 1 => s[h + n + c + 1] = ti
  <2> SUFFICES ASSUME i = 1 PROVE s[h + n + c + 1] = ti
    OBVIOUS
  <2>1. h + n + c + 1 \in 1 .. h + n + c + i
    BY <1>6
  <2> QED
    BY <1>1, <1>9, <1>10, <2>1
<1>15. s[1] = t1 /\ s[2] = t2 /\ (h = 4 => s[3] = t3 /\ s[4] = t4)
  BY <1>2, <1>6, <1>11
<1>16. /\ t1.is = "4" /\ t4.is = "-" /\ tc.is = "comma"
  BY DEF t1, t4, tc, Token
<1>17. m = 1 => s[h + n + c + i + 1] = tm
  BY <1>1, <1>10
<1>18. Len(s) = h + n + c + i + m
  BY <1>1, <1>10
<1>19. /\ t2 = Token("type", SentType(p)) /\ t3 = Token("count", Count(p))
       /\ tn = Token("nsp", p.nsp) /\ ti = Token("id", p.id) /\ tm = Token("json", Val(p))
  BY DEF Count, Val, t2, t3, tn, ti, tm
<1> HIDE DEF t1, t2, t3, t4, tn, tc, ti, tm
<1> QED
  BY <1>12, <1>13, <1>14, <1>15, <1>16, <1>17, <1>18, <1>19 DEF Shape

\* Only what has parts waits for them.
LEMMA PartedType ==
  ASSUME NEW p, Encodable(p), IsMessage(p)
  PROVE  /\ SentType(p) \in HasParts <=> Parts(p) # <<>>
         /\ Parts(p) # <<>> => SentType(p) = BinaryType(p.type) /\ p.message # NoMessage
         /\ Parts(p) = <<>> => SentType(p) = p.type
<1>1. Parts(p) = AcceptMessage(p.message).parts
  BY DEF Parts, IsMessage
<1>2. CASE Parts(p) = <<>>
  BY <1>2 DEF Encodable, IsMessage, SentType, HasParts
<1>3. CASE Parts(p) # <<>>
  BY <1>1, <1>3 DEF Encodable, IsMessage, SentType, HasParts, BinaryType
<1> QED
  BY <1>2, <1>3

\* What the searches of parse find in the text of a packet.
LEMMA TextFound ==
  ASSUME NEW s, NEW p, NEW h, NEW n, NEW c, NEW i, NEW m, HasShape(s, p, h, n, c, i, m)
  PROVE  /\ FindFirstOf(s, {"json", "nsp"}, h + 1) =
              IF n = 1 THEN h + 1 ELSE IF m = 1 THEN h + i + 1 ELSE 0
         /\ FindFirstOf(s, {"comma"}, 1) = IF c = 1 THEN h + n + 1 ELSE 0
         /\ n = c => FindFirstOf(s, {"json"}, h + n + c + 1) =
              IF m = 1 THEN h + n + c + i + 1 ELSE 0
<1>0. Len(s) = h + n + c + i + m
  BY DEF HasShape
<1>1. /\ s[1].is = "4" /\ s[2].is = "type"
      /\ h = 4 => s[3].is = "count" /\ s[4].is = "-"
      /\ n = 1 => s[h + 1].is = "nsp"
      /\ c = 1 => s[h + n + 1].is = "comma"
      /\ i = 1 => s[h + n + c + 1].is = "id"
      /\ m = 1 => s[h + n + c + i + 1].is = "json"
  <2>1. \A kind, v : Token(kind, v).is = kind
    BY DEF Token
  <2>2. s[2].is = "type"
    BY <2>1 DEF HasShape, Shape
  <2>3. h = 4 => s[3].is = "count"
    BY <2>1 DEF HasShape, Shape
  <2>4. n = 1 => s[h + 1].is = "nsp"
    BY <2>1 DEF HasShape, Shape
  <2>5. i = 1 => s[h + n + c + 1].is = "id"
    BY <2>1 DEF HasShape, Shape
  <2>6. m = 1 => s[h + n + c + i + 1].is = "json"
    BY <2>1 DEF HasShape, Shape
  <2> QED
    BY <2>2, <2>3, <2>4, <2>5, <2>6 DEF HasShape, Shape
<1>2. /\ h \in {2, 4} /\ n \in {0, 1} /\ c \in {0, 1} /\ i \in {0, 1} /\ m \in {0, 1}
      /\ c = 1 <=> n = 1 /\ m = 1
      /\ i = 1 => m = 1
  BY DEF HasShape, Sizes
<1>3. h \in Nat /\ n \in Nat /\ c \in Nat /\ i \in Nat /\ m \in Nat /\ Len(s) \in Nat
  BY <1>0, <1>2
<1>4. FindFirstOf(s, {"json", "nsp"}, h + 1) =
        IF n = 1 THEN h + 1 ELSE IF m = 1 THEN h + i + 1 ELSE 0
  <2>1. CASE n = 1
    <3>1. h + 1 \in h + 1 .. Len(s) /\ \A k \in h + 1 .. Len(s) : ~(k < h + 1)
      BY <1>0, <1>2, <1>3, <2>1
    <3>2. h + 1 \in Nat
      BY <1>3
    <3>3. s[h + 1].is \in {"json", "nsp"}
      BY <1>1, <2>1
    <3>4. FindFirstOf(s, {"json", "nsp"}, h + 1) = h + 1
      BY <1>3, <3>1, <3>2, <3>3, FoundAt
    <3> QED
      BY <2>1, <3>4
  <2>2. CASE n = 0 /\ m = 1
    <3>1. c = 0 /\ h + n + c + 1 = h + 1 /\ h + n + c + i + 1 = h + i + 1
      BY <1>2, <1>3, <2>2
    <3>2. h + i + 1 \in h + 1 .. Len(s) /\ h + 1 \in Nat
      BY <1>0, <1>2, <1>3, <2>2
    <3>3. \A k \in h + 1 .. Len(s) : k < h + i + 1 => i = 1 /\ k = h + 1
      BY <1>2, <1>3
    <3>4. \A k \in h + 1 .. Len(s) : k < h + i + 1 => s[k].is \notin {"json", "nsp"}
      BY <1>1, <3>1, <3>3
    <3>5. s[h + i + 1].is \in {"json", "nsp"}
      BY <1>1, <2>2, <3>1
    <3>6. FindFirstOf(s, {"json", "nsp"}, h + 1) = h + i + 1
      BY <1>3, <3>2, <3>4, <3>5, FoundAt
    <3> QED
      BY <2>2, <3>6
  <2>3. CASE n = 0 /\ m = 0
    <3>1. h + 1 .. Len(s) = {}
      BY <1>0, <1>2, <1>3, <2>3
    <3> QED
      BY <2>3, <3>1, FoundNowhere
  <2> QED
    BY <1>2, <2>1, <2>2, <2>3
<1>5. FindFirstOf(s, {"comma"}, 1) = IF c = 1 THEN h + n + 1 ELSE 0
  <2>1. \A k \in 1 .. h : s[k].is # "comma"
    <3>1. \A k \in 1 .. h : k = 1 \/ k = 2 \/ (h = 4 /\ k = 3) \/ (h = 4 /\ k = 4)
      BY <1>2
    <3> QED
      BY <1>1, <3>1
  <2>2. CASE c = 1
    <3>1. n = 1 /\ h + n + 1 \in 1 .. Len(s) /\ 1 \in Nat
      BY <1>0, <1>2, <1>3, <2>2
    <3>2. \A k \in 1 .. Len(s) : k < h + n + 1 => k \in 1 .. h \/ k = h + 1
      BY <1>2, <1>3
    <3>3. \A k \in 1 .. Len(s) : k < h + n + 1 => s[k].is \notin {"comma"}
      BY <1>1, <2>1, <3>1, <3>2
    <3>4. s[h + n + 1].is \in {"comma"}
      BY <1>1, <2>2
    <3>5. FindFirstOf(s, {"comma"}, 1) = h + n + 1
      BY <1>3, <3>1, <3>3, <3>4, FoundAt
    <3> QED
      BY <2>2, <3>5
  <2>3. CASE c = 0
    <3>1. \A k \in 1 .. Len(s) :
            \/ k \in 1 .. h \/ (n = 1 /\ k = h + 1)
            \/ (i = 1 /\ k = h + n + c + 1) \/ (m = 1 /\ k = h + n + c + i + 1)
      BY <1>0, <1>2, <1>3, <2>3
    <3>2. \A k \in 1 .. Len(s) : s[k].is \notin {"comma"}
      BY <1>1, <2>1, <3>1
    <3>3. FindFirstOf(s, {"comma"}, 1) = 0
      BY <3>2, FoundNowhere
    <3>4. c # 1
      BY <2>3
    <3> QED
      BY <3>3, <3>4
  <2> QED
    BY <1>2, <2>2, <2>3
<1>6. n = c => FindFirstOf(s, {"json"}, h + n + c + 1) =
        IF m = 1 THEN h + n + c + i + 1 ELSE 0
  <2> DEFINE pos == h + n + c + 1
  <2>1. CASE m = 1
    <3>1. h + n + c + i + 1 \in pos .. Len(s) /\ pos \in Nat
      BY <1>0, <1>2, <1>3, <2>1
    <3>2. \A k \in pos .. Len(s) : k < h + n + c + i + 1 => i = 1 /\ k = pos
      BY <1>2, <1>3
    <3>3. \A k \in pos .. Len(s) : k < h + n + c + i + 1 => s[k].is \notin {"json"}
      BY <1>1, <3>2
    <3>4. s[h + n + c + i + 1].is \in {"json"}
      BY <1>1, <2>1
    <3>5. FindFirstOf(s, {"json"}, pos) = h + n + c + i + 1
      BY <1>3, <3>1, <3>3, <3>4, FoundAt
    <3> QED
      BY <2>1, <3>5
  <2>2. CASE m = 0
    <3>1. pos .. Len(s) = {}
      BY <1>0, <1>2, <1>3, <2>2
    <3>2. FindFirstOf(s, {"json"}, pos) = 0
      BY <3>1, FoundNowhere
    <3> QED
      BY <2>2, <3>2
  <2> QED
    BY <1>2, <2>1, <2>2
<1> QED
  BY <1>4, <1>5, <1>6

-----------------------------------------------------------------------------
\* What parse makes of a text.

\* A packet is the sum of its fields.
LEMMA EncodableIsPacket ==
  ASSUME NEW p, Encodable(p)
  PROVE  /\ p = Packet(p.frame, p.type, p.nsp, p.id, p.message)
         /\ p.buffers = <<>> /\ p.pending = 0
<1>1. p = Packet(p.frame, p.type, p.nsp, p.id, p.message)
  BY DEF Encodable
<1>2. \A frame, type, nsp, id, message :
        /\ Packet(frame, type, nsp, id, message).buffers = <<>>
        /\ Packet(frame, type, nsp, id, message).pending = 0
  BY DEF Packet
<1> QED
  BY <1>1, <1>2

\* What the fields of a packet come to when parse has set them one by one.
Fields(frame, type, nsp, id, message, buffers, pending) ==
  [frame |-> frame, type |-> type, nsp |-> nsp, id |-> id, message |-> message,
   buffers |-> buffers, pending |-> pending]

LEMMA FieldsSet ==
  ASSUME NEW f, NEW type, NEW nsp, NEW id, NEW msg, NEW b, NEW count,
         NEW r, r = Fields(f, type, nsp, id, msg, b, count)
  PROVE  /\ \A t : [r EXCEPT !.type = t] = Fields(f, t, nsp, id, msg, b, count)
         /\ \A i : [r EXCEPT !.id = i] = Fields(f, type, nsp, i, msg, b, count)
         /\ \A m : [r EXCEPT !.message = m] = Fields(f, type, nsp, id, m, b, count)
         /\ \A c : [r EXCEPT !.buffers = c] = Fields(f, type, nsp, id, msg, c, count)
         /\ \A k : [r EXCEPT !.pending = k] = Fields(f, type, nsp, id, msg, b, k)
  BY DEF Fields

LEMMA TwoFieldsSet ==
  ASSUME NEW r, NEW c, NEW k
  PROVE  [r EXCEPT !.buffers = c, !.pending = k] =
           [[r EXCEPT !.buffers = c] EXCEPT !.pending = k]
  OBVIOUS

LEMMA PacketFields ==
  \A f, type, nsp, id, msg :
    Packet(f, type, nsp, id, msg) = Fields(f, type, nsp, id, msg, <<>>, 0)
  BY DEF Packet, Fields

\* parse, when the places it looks for are known.
ParsedAt(s, frame, type, first, at, comma) ==
  LET binary == type \in HasParts
      named  == at # 0 /\ s[at].is = "nsp"
      pos    == IF named THEN comma + 1 ELSE first
      json   == IF named /\ comma = 0 THEN 0 ELSE FindFirstOf(s, {"json"}, pos)
      bare   == [Packet(frame, type, IF named THEN s[at].val ELSE "/", NoId, NoMessage)
                   EXCEPT !.pending = IF binary THEN s[3].val ELSE 0]
      numbered == [bare EXCEPT !.id = IF pos < json THEN s[pos].val ELSE NoId]
  IN IF json = 0 THEN bare
     ELSE IF binary THEN [numbered EXCEPT !.buffers = <<s[json].val>>]
     ELSE [numbered EXCEPT !.message = FromJson(s[json].val, <<>>)]

TypeOf(s) == IF is_text_message(s) THEN s[2].val ELSE "undetermined"
FirstOf(s) == CASE ~is_text_message(s) -> 2 [] TypeOf(s) \in HasParts -> 5 [] OTHER -> 3

LEMMA ParseIs ==
  ASSUME NEW s
  PROVE  parse(s) = ParsedAt(s, s[1].is, TypeOf(s), FirstOf(s),
                             FindFirstOf(s, {"json", "nsp"}, FirstOf(s)),
                             FindFirstOf(s, {"comma"}, 1))
  BY Zenon DEF parse, ParsedAt, TypeOf, FirstOf

Parsed(p) ==
  IF Parts(p) = <<>> THEN p
  ELSE Fields("4", BinaryType(p.type), p.nsp, p.id, NoMessage, <<Val(p)>>, Count(p))

LEMMA ShapeParsed ==
  ASSUME NEW p, Encodable(p), IsMessage(p),
         NEW s, NEW h, NEW n, NEW c, NEW i, NEW m, HasShape(s, p, h, n, c, i, m)
  PROVE  ~is_binary_message(s) /\ parse(s) = Parsed(p)
<1>0. PICK type, val : type = SentType(p) /\ val = Val(p)
  OBVIOUS
<1>1. PICK at, comma, json :
        /\ at = IF n = 1 THEN h + 1 ELSE IF m = 1 THEN h + i + 1 ELSE 0
        /\ comma = IF c = 1 THEN h + n + 1 ELSE 0
        /\ json = IF m = 1 THEN h + n + c + i + 1 ELSE 0
  OBVIOUS
<1>2. Sizes(p, h, n, c, i, m) /\ Shape(s, p, h, n, c, i, m)
  BY DEF HasShape
<1> DEFINE binary == type \in HasParts
           bare == [Packet("4", type, p.nsp, NoId, NoMessage)
                      EXCEPT !.pending = IF binary THEN Count(p) ELSE 0]
           numbered == [bare EXCEPT !.id = p.id]
<1>3. /\ FindFirstOf(s, {"json", "nsp"}, h + 1) = at
      /\ FindFirstOf(s, {"comma"}, 1) = comma
      /\ n = c => FindFirstOf(s, {"json"}, h + n + c + 1) = json
  <2>1. /\ FindFirstOf(s, {"json", "nsp"}, h + 1) =
             IF n = 1 THEN h + 1 ELSE IF m = 1 THEN h + i + 1 ELSE 0
        /\ FindFirstOf(s, {"comma"}, 1) = IF c = 1 THEN h + n + 1 ELSE 0
        /\ n = c => FindFirstOf(s, {"json"}, h + n + c + 1) =
             IF m = 1 THEN h + n + c + i + 1 ELSE 0
    BY TextFound
  <2> QED
    BY <1>1, <2>1
<1>4. /\ binary <=> Parts(p) # <<>>
      /\ Parts(p) # <<>> => type = BinaryType(p.type) /\ p.message # NoMessage
      /\ Parts(p) = <<>> => type = p.type
  BY <1>0, PartedType
<1>5. h = IF binary THEN 4 ELSE 2
  BY <1>2, <1>4 DEF Sizes
<1>6. /\ (n = 1 <=> p.nsp # "/") /\ (i = 1 <=> p.id # NoId) /\ (m = 1 <=> p.message # NoMessage)
      /\ (n = 1 /\ m = 1 <=> c = 1)
  BY <1>2 DEF Sizes
<1>7. /\ h \in Nat /\ n \in {0, 1} /\ c \in {0, 1} /\ i \in {0, 1} /\ m \in {0, 1}
      /\ i = 1 => m = 1
  BY <1>2 DEF Sizes
<1>8. /\ is_text_message(s) /\ ~is_binary_message(s)
      /\ s[2].val = type
      /\ binary => s[3].val = Count(p)
      /\ n = 1 => s[h + 1].is = "nsp" /\ s[h + 1].val = p.nsp
      /\ i = 1 => s[h + n + c + 1].val = p.id
      /\ m = 1 => /\ s[h + n + c + i + 1].is = "json"
                  /\ s[h + n + c + i + 1].val = val
  <2>2. s[1].is = "4"
    BY <1>2 DEF Shape
  <2>3. s[2].val = type
    BY <1>0, <1>2 DEF Shape, Token
  <2>4. binary => s[3].val = Count(p)
    BY <1>2, <1>5 DEF Shape, Token
  <2>5. n = 1 => s[h + 1].is = "nsp" /\ s[h + 1].val = p.nsp
    BY <1>2 DEF Shape, Token
  <2>6. i = 1 => s[h + n + c + 1].val = p.id
    BY <1>2 DEF Shape, Token
  <2>7. m = 1 => /\ s[h + n + c + i + 1].is = "json"
                 /\ s[h + n + c + i + 1].val = val
    BY <1>0, <1>2 DEF Shape, Token
  <2> QED
    BY <2>2, <2>3, <2>4, <2>5, <2>6, <2>7 DEF is_text_message, is_binary_message
<1> DEFINE named == at # 0 /\ s[at].is = "nsp"
           pos == IF named THEN comma + 1 ELSE h + 1
           found == IF named /\ comma = 0 THEN 0 ELSE FindFirstOf(s, {"json"}, pos)
           id == IF pos < found THEN s[pos].val ELSE NoId
<1>9. named <=> n = 1
  <2>1. CASE n = 1
    <3>1. at = h + 1 /\ at # 0
      BY <1>1, <1>7, <2>1
    <3> QED
      BY <1>8, <2>1, <3>1
  <2>2. CASE n = 0
    <3>1. c = 0 /\ n # 1
      BY <1>6, <1>7, <2>2
    <3>2. CASE m = 1
      <4>1. at = h + i + 1 /\ h + n + c + i + 1 = h + i + 1
        BY <1>1, <1>7, <2>2, <3>1, <3>2
      <4>2. s[at].is = "json"
        BY <1>8, <3>2, <4>1
      <4> QED
        BY <3>1, <4>2
    <3>3. CASE m = 0
      <4>1. at = 0
        BY <1>1, <3>1, <3>3
      <4> QED
        BY <3>1, <4>1
    <3> QED
      BY <1>7, <3>2, <3>3
  <2> QED
    BY <1>7, <2>1, <2>2
<1>10. found = json
  <2>1. CASE n = 1 /\ c = 0
    <3>1. comma = 0 /\ json = 0
      BY <1>1, <1>6, <1>7, <2>1
    <3> QED
      BY <1>9, <2>1, <3>1
  <2>2. CASE n = c
    <3>1. pos = h + n + c + 1 /\ ~(named /\ comma = 0)
      BY <1>1, <1>7, <1>9, <2>2
    <3> QED
      BY <1>3, <2>2, <3>1
  <2>3. n = 0 => c = 0
    BY <1>6, <1>7
  <2> QED
    BY <1>7, <2>1, <2>2, <2>3
<1>11. json # 0 => id = p.id
  <2> SUFFICES ASSUME json # 0 PROVE id = p.id
    OBVIOUS
  <2>1. m = 1
    BY <1>1
  <2>2. n = c
    BY <1>6, <1>7, <2>1
  <2>3. pos = h + n + c + 1
    BY <1>1, <1>7, <1>9, <2>1, <2>2
  <2>4. json = h + n + c + i + 1
    BY <1>1, <2>1
  <2>5. pos < json <=> i = 1
    BY <1>7, <2>3, <2>4
  <2> HIDE DEF pos, found
  <2> QED
    BY <1>6, <1>8, <1>10, <2>3, <2>5
<1>12. parse(s) = IF json = 0 THEN bare
                  ELSE IF binary THEN [numbered EXCEPT !.buffers = <<val>>]
                  ELSE [numbered EXCEPT !.message = FromJson(val, <<>>)]
  <2>1. parse(s) =
          LET q == [Packet("4", type, IF named THEN s[at].val ELSE "/", NoId, NoMessage)
                      EXCEPT !.pending = IF binary THEN s[3].val ELSE 0]
              r == [q EXCEPT !.id = id]
          IN IF found = 0 THEN q
             ELSE IF binary THEN [r EXCEPT !.buffers = <<s[found].val>>]
             ELSE [r EXCEPT !.message = FromJson(s[found].val, <<>>)]
    <3>1. s[1].is = "4"
      BY <1>8 DEF is_text_message
    <3>2. h + 1 = IF binary THEN 5 ELSE 3
      BY <1>5
    <3>3. TypeOf(s) = type /\ FirstOf(s) = h + 1
      BY <1>8, <3>2 DEF TypeOf, FirstOf
    <3>4. parse(s) = ParsedAt(s, "4", type, h + 1, at, comma)
      BY <1>3, <3>1, <3>3, ParseIs
    <3> QED
      BY <3>4, Zenon DEF ParsedAt
  <2>2. (IF named THEN s[at].val ELSE "/") = p.nsp
    <3>1. n = 1 => at = h + 1
      BY <1>1
    <3> HIDE DEF named
    <3>2. CASE n = 1
      BY <1>8, <1>9, <3>1, <3>2
    <3>3. CASE n # 1
      BY <1>6, <1>9, <3>3
    <3> QED
      BY <3>2, <3>3
  <2>3. (IF binary THEN s[3].val ELSE 0) = (IF binary THEN Count(p) ELSE 0)
    BY <1>8
  <2>4. json # 0 => s[json].val = val
    <3>1. json # 0 => m = 1 /\ json = h + n + c + i + 1
      BY <1>1
    <3> QED
      BY <1>8, <3>1
  <2> HIDE DEF named, pos, found, id, binary
  <2>5. parse(s) =
          IF json = 0 THEN bare
          ELSE IF binary THEN [[bare EXCEPT !.id = id] EXCEPT !.buffers = <<s[json].val>>]
          ELSE [[bare EXCEPT !.id = id] EXCEPT !.message = FromJson(s[json].val, <<>>)]
    BY <1>10, <2>1, <2>2, <2>3
  <2> HIDE DEF bare
  <2> QED
    BY <1>11, <2>4, <2>5
<1>13. json = 0 <=> m = 0
  BY <1>1, <1>7
<1>14. p = Packet("4", p.type, p.nsp, p.id, p.message)
  BY EncodableIsPacket DEF IsMessage
<1>15. CASE Parts(p) # <<>>
  <2>1. binary /\ type = BinaryType(p.type) /\ m = 1
    BY <1>4, <1>6, <1>15
  <2>2. json # 0
    BY <1>7, <1>13, <2>1
  <2>3. parse(s) = [numbered EXCEPT !.buffers = <<val>>]
    BY <1>12, <2>1, <2>2
  <2>4. [numbered EXCEPT !.buffers = <<val>>] =
          Fields("4", BinaryType(p.type), p.nsp, p.id, NoMessage, <<Val(p)>>, Count(p))
    <3>1. bare = Fields("4", type, p.nsp, NoId, NoMessage, <<>>, Count(p))
      BY <2>1, PacketFields, FieldsSet
    <3> HIDE DEF bare
    <3>2. numbered = Fields("4", type, p.nsp, p.id, NoMessage, <<>>, Count(p))
      BY <3>1, FieldsSet
    <3> HIDE DEF numbered
    <3>3. [numbered EXCEPT !.buffers = <<val>>] =
            Fields("4", type, p.nsp, p.id, NoMessage, <<val>>, Count(p))
      BY <3>2, FieldsSet
    <3> QED
      BY <1>0, <2>1, <3>3
  <2> QED
    BY <1>8, <1>15, <2>3, <2>4 DEF Parsed
<1>16. CASE Parts(p) = <<>>
  <2>1. ~binary /\ type = p.type
    BY <1>4, <1>16
  <2>2. CASE m = 1
    <3>1. json # 0 /\ p.message # NoMessage
      BY <1>6, <1>7, <1>13, <2>2
    <3>2. parse(s) = [numbered EXCEPT !.message = FromJson(val, <<>>)]
      BY <1>12, <2>1, <3>1
    <3>3. FromJson(val, <<>>) = p.message
      <4>1. Parts(p) = AcceptMessage(p.message).parts
        BY DEF Parts, IsMessage
      <4> QED
        BY <1>0, <1>16, <3>1, <4>1 DEF Encodable, Val
    <3>4. [numbered EXCEPT !.message = FromJson(val, <<>>)] =
            Packet("4", p.type, p.nsp, p.id, p.message)
      <4>1. bare = Fields("4", type, p.nsp, NoId, NoMessage, <<>>, 0)
        BY <2>1, PacketFields, FieldsSet
      <4> HIDE DEF bare
      <4>2. numbered = Fields("4", type, p.nsp, p.id, NoMessage, <<>>, 0)
        BY <4>1, FieldsSet
      <4> HIDE DEF numbered
      <4>3. [numbered EXCEPT !.message = FromJson(val, <<>>)] =
              Fields("4", type, p.nsp, p.id, p.message, <<>>, 0)
        BY <3>3, <4>2, FieldsSet
      <4> QED
        BY <2>1, <4>3, PacketFields
    <3> QED
      BY <1>8, <1>14, <1>16, <3>2, <3>4 DEF Parsed
  <2>3. CASE m = 0
    <3>1. parse(s) = bare
      BY <1>12, <1>13, <2>3
    <3>2. p.message = NoMessage /\ p.id = NoId
      BY <1>6, <1>7, <2>3
    <3>3. bare = Packet("4", p.type, p.nsp, p.id, p.message)
      BY <2>1, <3>2 DEF Packet
    <3> QED
      BY <1>8, <1>14, <1>16, <3>1, <3>3 DEF Parsed
  <2> QED
    BY <1>7, <2>2, <2>3
<1> QED
  BY <1>15, <1>16

\* A frame that is not a message is one token.
LEMMA FrameParsed ==
  ASSUME NEW p, Encodable(p), ~IsMessage(p)
  PROVE  /\ Parts(p) = <<>>
         /\ ~is_binary_message(Text(p)) /\ parse(Text(p)) = p
<1>1. PICK s : s = Text(p)
  OBVIOUS
<1>2. Len(s) = 1 /\ s[1].is = p.frame
  BY <1>1 DEF Text, IsMessage, Token
<1>3. p.frame # "0x04" /\ p = Packet(p.frame, "undetermined", "/", NoId, NoMessage)
  BY DEF Encodable, IsMessage
<1>4. FindFirstOf(s, {"json", "nsp"}, 2) = 0 /\ FindFirstOf(s, {"json"}, 2) = 0
  <2>1. 2 .. Len(s) = {}
    BY <1>2
  <2> QED
    BY <2>1, FoundNowhere
<1>5. ~is_text_message(s) /\ ~is_binary_message(s)
  BY <1>2, <1>3 DEF is_text_message, is_binary_message, IsMessage
<1>6. parse(s) = [Packet(s[1].is, "undetermined", "/", NoId, NoMessage) EXCEPT !.pending = 0]
  <2>1. TypeOf(s) = "undetermined" /\ FirstOf(s) = 2 /\ "undetermined" \notin HasParts
    BY <1>5 DEF TypeOf, FirstOf, HasParts
  <2>2. parse(s) = ParsedAt(s, s[1].is, "undetermined", 2, 0, FindFirstOf(s, {"comma"}, 1))
    BY <1>4, <2>1, ParseIs
  <2> QED
    BY <1>4, <2>1, <2>2 DEF ParsedAt
<1>7. parse(s) = Packet(p.frame, "undetermined", "/", NoId, NoMessage)
  BY <1>2, <1>6, PacketFields, FieldsSet
<1>8. Parts(p) = <<>>
  BY DEF Parts, IsMessage
<1> QED
  BY <1>1, <1>3, <1>5, <1>7, <1>8

\* The parts of a packet are a sequence, and only a message has any.
LEMMA PartsAre ==
  ASSUME NEW p, Encodable(p)
  PROVE  /\ Parts(p) \in Seq(Range(Parts(p)))
         /\ Count(p) = Len(Parts(p)) /\ Count(p) \in Nat
         /\ PayloadCount(p) = 1 + Count(p)
         /\ Count(p) = 0 <=> Parts(p) = <<>>
         /\ Parts(p) # <<>> =>
              /\ IsMessage(p) /\ p.message # NoMessage
              /\ FromJson(Val(p), Parts(p)) = p.message
              /\ BinaryType(p.type) \in HasParts
<1>1. Parts(p) \in Seq(Range(Parts(p)))
  <2>1. CASE IsMessage(p)
    <3>1. Parts(p) = AcceptMessage(p.message).parts
      BY <2>1 DEF Parts, IsMessage
    <3> QED
      BY <3>1 DEF Encodable
  <2>2. CASE ~IsMessage(p)
    BY <2>2, FrameParsed, EmptySeq
  <2> QED
    BY <2>1, <2>2
<1>2. Len(Parts(p)) \in Nat
  BY <1>1, LenProperties
<1>3. Len(Parts(p)) = 0 <=> Parts(p) = <<>>
  BY <1>1, EmptySeq
<1>4. Parts(p) # <<>> => IsMessage(p)
  BY FrameParsed
<1>5. IsMessage(p) => Parts(p) = AcceptMessage(p.message).parts
  BY DEF Parts, IsMessage
<1>6. Parts(p) # <<>> => p.message # NoMessage /\ p.type \in {"event", "ack"}
                         /\ FromJson(Val(p), Parts(p)) = p.message
  BY <1>4, <1>5 DEF Encodable, Val
<1>7. p.type \in {"event", "ack"} => BinaryType(p.type) \in HasParts
  BY DEF BinaryType, HasParts
<1> QED
  BY <1>1, <1>2, <1>3, <1>4, <1>6, <1>7 DEF Count, PayloadCount

\* The value of the message and k of its parts.
Filled(p, k) == <<Val(p)>> \o SubSeq(Parts(p), 1, k)

LEMMA FilledIs ==
  ASSUME NEW p, Encodable(p), NEW k \in 0 .. Count(p)
  PROVE  /\ Filled(p, k) # <<>>
         /\ k = 0 => Filled(p, k) = <<Val(p)>>
         /\ k < Count(p) => Append(Filled(p, k), Parts(p)[k + 1]) = Filled(p, k + 1)
         /\ k = Count(p) => Head(Filled(p, k)) = Val(p) /\ Tail(Filled(p, k)) = Parts(p)
<1> DEFINE S == {Val(p)} \cup Range(Parts(p))
<1>1. PICK parts, v : parts = Parts(p) /\ v = <<Val(p)>>
  OBVIOUS
<1>2. /\ parts \in Seq(S) /\ v \in Seq(S) /\ Len(v) = 1 /\ v[1] = Val(p)
      /\ Len(parts) = Count(p) /\ Count(p) \in Nat
  <2>1. parts \in Seq(Range(Parts(p))) /\ Len(parts) = Count(p) /\ Count(p) \in Nat
    BY <1>1, PartsAre
  <2>2. v \in Seq(S) /\ Len(v) = 1 /\ v[1] = Val(p)
    BY <1>1
  <2>3. parts \in Seq(S)
    BY <2>1
  <2> QED
    BY <2>1, <2>2, <2>3
<1> HIDE DEF S
<1>3. ASSUME NEW j \in 0 .. Count(p)
      PROVE  /\ Filled(p, j) \in Seq(S) /\ Len(Filled(p, j)) = j + 1
             /\ Filled(p, j)[1] = Val(p)
             /\ \A i \in 2 .. j + 1 : Filled(p, j)[i] = parts[i - 1]
  <2>1. PICK t : t = SubSeq(parts, 1, j)
    OBVIOUS
  <2>2. t \in Seq(S) /\ Len(t) = j /\ \A i \in 1 .. j : t[i] = parts[i]
    <3>1. 1 \in 1 .. Len(parts) + 1 /\ j \in 1 - 1 .. Len(parts)
      BY <1>2
    <3>2. /\ SubSeq(parts, 1, j) \in Seq(S)
          /\ Len(SubSeq(parts, 1, j)) = j - 1 + 1
          /\ \A i \in 1 .. j - 1 + 1 : SubSeq(parts, 1, j)[i] = parts[1 + i - 1]
      BY <1>2, <3>1, SubSeqProperties
    <3>3. j - 1 + 1 = j /\ \A i \in 1 .. j : 1 + i - 1 = i
      OBVIOUS
    <3> QED
      BY <2>1, <3>2, <3>3
  <2>3. Filled(p, j) = v \o t
    BY <1>1, <2>1 DEF Filled
  <2>4. /\ v \o t \in Seq(S) /\ Len(v \o t) = Len(v) + Len(t)
        /\ \A i \in 1 .. Len(v) + Len(t) :
             (v \o t)[i] = IF i <= Len(v) THEN v[i] ELSE t[i - Len(v)]
    BY <1>2, <2>2, ConcatProperties
  <2>5. Len(v) + Len(t) = j + 1
    BY <1>2, <2>2
  <2>6. (v \o t)[1] = v[1]
    <3>1. 1 \in 1 .. Len(v) + Len(t) /\ 1 <= Len(v)
      BY <1>2, <2>2
    <3> QED
      BY <2>4, <3>1
  <2>7. ASSUME NEW i \in 2 .. j + 1 PROVE (v \o t)[i] = parts[i - 1]
    <3>1. i \in 1 .. Len(v) + Len(t) /\ ~(i <= Len(v)) /\ i - Len(v) = i - 1 /\ i - 1 \in 1 .. j
      BY <1>2, <2>2
    <3> QED
      BY <2>2, <2>4, <3>1
  <2> QED
    BY <1>2, <2>3, <2>4, <2>5, <2>6, <2>7
<1>4. Filled(p, k) # <<>>
  BY <1>3, EmptySeq
<1>5. ASSUME k = 0 PROVE Filled(p, k) = v
  <2>1. /\ Filled(p, k) \in Seq(S) /\ v \in Seq(S)
        /\ Len(Filled(p, k)) = 1 /\ Len(v) = 1
        /\ Filled(p, k)[1] = v[1]
    BY <1>2, <1>3, <1>5
  <2>2. \A i \in 1 .. 1 : Filled(p, k)[i] = v[i]
    BY <2>1
  <2> QED
    BY <2>1, <2>2, SeqEqual
<1>6. ASSUME k < Count(p) PROVE Append(Filled(p, k), Parts(p)[k + 1]) = Filled(p, k + 1)
  <2>1. k + 1 \in 1 .. Len(parts) /\ k + 1 \in 0 .. Count(p)
    BY <1>2, <1>6
  <2>2. parts[k + 1] \in S
    BY <1>2, <2>1, ElementOfSeq
  <2>3. PICK a : a = Append(Filled(p, k), parts[k + 1])
    OBVIOUS
  <2>4. PICK b : b = Filled(p, k)
    OBVIOUS
  <2>5. /\ b \in Seq(S) /\ Len(b) = k + 1 /\ b[1] = Val(p)
        /\ \A i \in 2 .. k + 1 : b[i] = parts[i - 1]
    BY <1>3, <2>4
  <2>6. /\ a \in Seq(S) /\ Len(a) = Len(b) + 1
        /\ \A i \in 1 .. Len(b) : a[i] = b[i]
        /\ a[Len(b) + 1] = parts[k + 1]
    BY <2>2, <2>3, <2>4, <2>5, AppendProperties
  <2>7. PICK c : c = Filled(p, k + 1)
    OBVIOUS
  <2>8. /\ c \in Seq(S) /\ Len(c) = k + 1 + 1 /\ c[1] = Val(p)
        /\ \A i \in 2 .. k + 1 + 1 : c[i] = parts[i - 1]
    BY <1>3, <2>1, <2>7
  <2>9. ASSUME NEW i \in 1 .. k + 2 PROVE a[i] = c[i]
    <3>1. CASE i = 1
      <4>1. 1 \in 1 .. Len(b)
        BY <2>5
      <4> QED
        BY <2>5, <2>6, <2>8, <3>1, <4>1
    <3>2. CASE i \in 2 .. k + 1
      <4>1. i \in 1 .. Len(b) /\ i \in 2 .. k + 1 + 1
        BY <2>5, <3>2
      <4> QED
        BY <2>5, <2>6, <2>8, <3>2, <4>1
    <3>3. CASE i = k + 2
      <4>1. i = Len(b) + 1 /\ i \in 2 .. k + 1 + 1 /\ i - 1 = k + 1
        BY <2>5, <3>3
      <4> QED
        BY <2>6, <2>8, <4>1
    <3>4. i = 1 \/ i \in 2 .. k + 1 \/ i = k + 2
      OBVIOUS
    <3> QED
      BY <3>1, <3>2, <3>3, <3>4
  <2>10. Len(a) = k + 2 /\ Len(c) = k + 2
    BY <2>5, <2>6, <2>8
  <2>11. a = c
    BY <2>6, <2>8, <2>9, <2>10, SeqEqual
  <2> QED
    BY <1>1, <2>3, <2>7, <2>11
<1>7. ASSUME k = Count(p)
      PROVE  Head(Filled(p, k)) = Val(p) /\ Tail(Filled(p, k)) = Parts(p)
  <2>1. PICK b : b = Filled(p, k)
    OBVIOUS
  <2>2. /\ b \in Seq(S) /\ Len(b) = k + 1 /\ b[1] = Val(p)
        /\ \A i \in 2 .. k + 1 : b[i] = parts[i - 1]
    BY <1>3, <2>1
  <2>3. b # <<>>
    BY <1>4, <2>1
  <2>4. PICK t : t = Tail(b)
    OBVIOUS
  <2>5. /\ Head(b) = b[1] /\ t \in Seq(S) /\ Len(t) = Len(b) - 1
        /\ \A i \in 1 .. Len(t) : t[i] = b[i + 1]
    BY <2>2, <2>3, <2>4, HeadTailProperties
  <2>6. Len(t) = k /\ Len(parts) = k
    BY <1>2, <1>7, <2>2, <2>5
  <2>7. ASSUME NEW i \in 1 .. k PROVE t[i] = parts[i]
    <3>1. i + 1 \in 2 .. k + 1 /\ i + 1 - 1 = i /\ i \in 1 .. Len(t)
      BY <2>6
    <3> QED
      BY <2>2, <2>5, <3>1
  <2>8. t = parts
    BY <1>2, <2>5, <2>6, <2>7, SeqEqual
  <2> QED
    BY <1>1, <2>1, <2>2, <2>4, <2>5, <2>8
<1> QED
  BY <1>1, <1>4, <1>5, <1>6, <1>7

\* A packet that waits, field by field.
LEMMA PartialIs ==
  ASSUME NEW p, NEW k
  PROVE  Partial(p, k) = Fields("4", BinaryType(p.type), p.nsp, p.id, NoMessage,
                                Filled(p, k - 1), Count(p) - (k - 1))
<1>1. PICK b, n : b = Filled(p, k - 1) /\ n = Count(p) - (k - 1)
  OBVIOUS
<1>2. Partial(p, k) = [Packet("4", BinaryType(p.type), p.nsp, p.id, NoMessage) EXCEPT
                         !.buffers = b, !.pending = n]
  BY <1>1 DEF Partial, Filled, Val, Count
<1>3. Partial(p, k) = Fields("4", BinaryType(p.type), p.nsp, p.id, NoMessage, b, n)
  BY <1>2 DEF Packet, Fields
<1> QED
  BY <1>1, <1>3

\* It waits, and is no other than itself.
LEMMA PartialWaits ==
  ASSUME NEW p, Encodable(p), NEW k \in 1 .. PayloadCount(p), k < PayloadCount(p)
  PROVE  /\ Partial(p, k) # NoPacket
         /\ Partial(p, k).type \in HasParts /\ Partial(p, k).pending > 0
         /\ Partial(p, k).buffers # <<>>
<1>1. Count(p) \in Nat /\ PayloadCount(p) = 1 + Count(p)
  BY PartsAre
<1>2. k - 1 \in 0 .. Count(p) /\ Count(p) - (k - 1) > 0 /\ Count(p) # 0
  BY <1>1
<1>3. Filled(p, k - 1) # <<>>
  BY <1>2, FilledIs
<1>4. BinaryType(p.type) \in HasParts
  BY <1>2, PartsAre
<1>5. PICK b, n, t : /\ b = Filled(p, k - 1) /\ n = Count(p) - (k - 1)
                     /\ t = BinaryType(p.type)
  OBVIOUS
<1>6. Partial(p, k) = Fields("4", t, p.nsp, p.id, NoMessage, b, n)
  BY <1>5, PartialIs
<1>7. /\ Partial(p, k).frame = "4" /\ Partial(p, k).type = t
      /\ Partial(p, k).pending = n /\ Partial(p, k).buffers = b
  BY <1>6 DEF Fields
<1>8. Partial(p, k) # NoPacket
  <2>1. NoPacket.frame = "none"
    BY DEF NoPacket, Packet
  <2> QED
    BY <1>7, <2>1
<1>9. Partial(p, k).type \in HasParts
  BY <1>4, <1>5, <1>7
<1>10. Partial(p, k).pending > 0
  BY <1>2, <1>5, <1>7
<1> QED
  BY <1>3, <1>5, <1>7, <1>8, <1>9, <1>10

\* The text of a packet is the packet, or the packet without its parts.
LEMMA TextParsed ==
  ASSUME NEW p, Encodable(p)
  PROVE  /\ ~is_binary_message(Payload(p, 1))
         /\ PayloadCount(p) = 1 =>
              parse(Payload(p, 1)) = p /\ p.buffers = <<>> /\ p.pending = 0
         /\ PayloadCount(p) # 1 => parse(Payload(p, 1)) = Partial(p, 1)
<1>1. Payload(p, 1) = Text(p)
  BY DEF Payload
<1>2. Count(p) \in Nat /\ PayloadCount(p) = 1 + Count(p) /\ (Count(p) = 0 <=> Parts(p) = <<>>)
  BY PartsAre
<1>3. PayloadCount(p) = 1 <=> Parts(p) = <<>>
  BY <1>2
<1>4. p.buffers = <<>> /\ p.pending = 0
  BY EncodableIsPacket
<1>5. CASE ~IsMessage(p)
  BY <1>1, <1>3, <1>4, <1>5, FrameParsed
<1>6. CASE IsMessage(p)
  <2>1. Text(p) = accept(p)
    BY <1>6 DEF Text, IsMessage
  <2>2. HasShape(accept(p), p, Header(p), NspToken(p), CommaToken(p), IdToken(p), JsonToken(p))
    BY <1>6, TextShape, TextSizes DEF HasShape
  <2>3. ~is_binary_message(accept(p)) /\ parse(accept(p)) = Parsed(p)
    BY <1>6, <2>2, ShapeParsed
  <2>4. CASE Parts(p) = <<>>
    BY <1>1, <1>3, <1>4, <2>1, <2>3, <2>4 DEF Parsed
  <2>5. CASE Parts(p) # <<>>
    <3>1. Filled(p, 1 - 1) = <<Val(p)>> /\ Count(p) - (1 - 1) = Count(p)
      <4>1. 1 - 1 = 0 /\ 0 \in 0 .. Count(p) /\ Count(p) - (1 - 1) = Count(p)
        BY <1>2
      <4> QED
        BY <4>1, FilledIs
    <3>2. Partial(p, 1) = Parsed(p)
      BY <2>5, <3>1, PartialIs DEF Parsed
    <3> QED
      BY <1>1, <1>3, <2>1, <2>3, <2>5, <3>2
  <2> QED
    BY <2>4, <2>5
<1> QED
  BY <1>5, <1>6

\* parse_buffer, when the packet with one part more is r.
OneMore(r) ==
  IF r.pending > 0 THEN r
  ELSE [r EXCEPT !.message = FromJson(Head(r.buffers), Tail(r.buffers)), !.buffers = <<>>]

LEMMA BufferParsed ==
  ASSUME NEW w, NEW d, NEW r,
         [w EXCEPT !.buffers = Append(@, d), !.pending = @ - 1] = r
  PROVE  parse_buffer(w, d) = OneMore(r)
<1> DEFINE z == [w EXCEPT !.buffers = Append(@, d), !.pending = @ - 1]
<1>1. parse_buffer(w, d) = OneMore(z)
  BY Zenon DEF parse_buffer, OneMore
<1>2. z = r
  OBVIOUS
<1> HIDE DEF z
<1> QED
  BY <1>1, <1>2

\* The next part is one that the packet lacks; with the last the packet is whole.
LEMMA PartParsed ==
  ASSUME NEW p, Encodable(p), NEW k \in 1 .. PayloadCount(p), k < PayloadCount(p),
         NEW q, q = parse_buffer(Partial(p, k), Payload(p, k + 1)[2].val)
  PROVE  /\ is_binary_message(Payload(p, k + 1))
         /\ k + 1 < PayloadCount(p) => q = Partial(p, k + 1)
         /\ k + 1 = PayloadCount(p) =>
              q.buffers = <<>> /\ [q EXCEPT !.pending = 0] = [p EXCEPT !.type = BinaryType(p.type)]
<1>1. Count(p) \in Nat /\ PayloadCount(p) = 1 + Count(p)
  BY PartsAre
<1>2. Payload(p, k + 1) = Part(Parts(p)[k])
  <2>1. k + 1 # 1 /\ k + 1 - 1 = k
    OBVIOUS
  <2> QED
    BY <2>1 DEF Payload
<1>3. Payload(p, k + 1)[2].val = Parts(p)[k] /\ is_binary_message(Payload(p, k + 1))
  <2>1. PICK x, y : x = Token("0x04", "") /\ y = Token("data", Parts(p)[k])
    OBVIOUS
  <2>2. Payload(p, k + 1) = <<x, y>>
    BY <1>2, <2>1 DEF Part
  <2>3. x.is = "0x04" /\ y.val = Parts(p)[k]
    BY <2>1 DEF Token
  <2>4. Payload(p, k + 1)[1] = x /\ Payload(p, k + 1)[2] = y
    BY <2>2
  <2> QED
    BY <2>3, <2>4 DEF is_binary_message
<1>4. PICK b, n, t : /\ b = Filled(p, k - 1) /\ n = Count(p) - (k - 1)
                     /\ t = BinaryType(p.type)
  OBVIOUS
<1>5. /\ k - 1 \in 0 .. Count(p) /\ k - 1 < Count(p) /\ k - 1 + 1 = k /\ k + 1 - 1 = k
      /\ k \in 0 .. Count(p)
      /\ n - 1 = Count(p) - k
      /\ k + 1 < PayloadCount(p) <=> n - 1 > 0
      /\ k + 1 = PayloadCount(p) <=> k = Count(p)
  BY <1>1, <1>4
<1>6. Append(b, Parts(p)[k]) = Filled(p, k)
  BY <1>4, <1>5, FilledIs
<1>7. PICK c : c = Filled(p, k)
  OBVIOUS
<1>8. PICK r : r = Fields("4", t, p.nsp, p.id, NoMessage, c, n - 1)
  OBVIOUS
<1>9. [Partial(p, k) EXCEPT !.buffers = Append(@, Parts(p)[k]), !.pending = @ - 1] = r
  <2>1. PICK w : w = Partial(p, k)
    OBVIOUS
  <2>2. w = Fields("4", t, p.nsp, p.id, NoMessage, b, n)
    BY <1>4, <2>1, PartialIs
  <2>3. w.buffers = b /\ w.pending = n
    BY <2>2 DEF Fields
  <2>4. [w EXCEPT !.buffers = Append(@, Parts(p)[k]), !.pending = @ - 1] =
          [w EXCEPT !.buffers = c, !.pending = n - 1]
    BY <1>6, <1>7, <2>3
  <2>5. [w EXCEPT !.buffers = c, !.pending = n - 1] = r
    <3>1. PICK m : m = n - 1
      OBVIOUS
    <3>2. PICK v : v = [w EXCEPT !.buffers = c]
      OBVIOUS
    <3>3. v = Fields("4", t, p.nsp, p.id, NoMessage, c, n)
      BY <2>2, <3>2, FieldsSet
    <3>4. [v EXCEPT !.pending = m] = Fields("4", t, p.nsp, p.id, NoMessage, c, m)
      BY <3>3, FieldsSet
    <3> QED
      BY <1>8, <3>1, <3>2, <3>4, TwoFieldsSet
  <2> QED
    BY <2>1, <2>4, <2>5
<1>10. r.pending = n - 1 /\ r.buffers = c
  BY <1>8 DEF Fields
<1>11. q = IF n - 1 > 0 THEN r
           ELSE [r EXCEPT !.message = FromJson(Head(c), Tail(c)), !.buffers = <<>>]
  <2>1. PICK w, d : w = Partial(p, k) /\ d = Parts(p)[k]
    OBVIOUS
  <2>2. q = parse_buffer(w, d)
    BY <1>3, <2>1
  <2>3. [w EXCEPT !.buffers = Append(@, d), !.pending = @ - 1] = r
    BY <1>9, <2>1
  <2>4. q = OneMore(r)
    BY <2>2, <2>3, BufferParsed
  <2> QED
    BY <1>10, <2>4 DEF OneMore
<1>12. ASSUME k + 1 < PayloadCount(p) PROVE q = Partial(p, k + 1)
  <2>1. q = r
    BY <1>5, <1>11, <1>12
  <2>2. Partial(p, k + 1) = Fields("4", t, p.nsp, p.id, NoMessage, c, n - 1)
    BY <1>4, <1>5, <1>7, PartialIs
  <2> QED
    BY <1>8, <2>1, <2>2
<1>13. ASSUME k + 1 = PayloadCount(p)
       PROVE  /\ q.buffers = <<>>
              /\ [q EXCEPT !.pending = 0] = [p EXCEPT !.type = BinaryType(p.type)]
  <2>1. k = Count(p) /\ ~(n - 1 > 0) /\ Count(p) # 0
    BY <1>1, <1>5, <1>13
  <2>2. Head(c) = Val(p) /\ Tail(c) = Parts(p)
    BY <1>5, <1>7, <2>1, FilledIs
  <2>3. FromJson(Val(p), Parts(p)) = p.message /\ p.frame = "4"
    BY <2>1, PartsAre DEF IsMessage
  <2>4. q = [r EXCEPT !.message = p.message, !.buffers = <<>>]
    BY <1>11, <2>1, <2>2, <2>3
  <2>5. q = Fields("4", t, p.nsp, p.id, p.message, <<>>, n - 1)
    BY <1>8, <2>4 DEF Fields
  <2>6. [q EXCEPT !.pending = 0] = Fields("4", t, p.nsp, p.id, p.message, <<>>, 0)
    BY <2>5, FieldsSet
  <2>7. p = Fields("4", p.type, p.nsp, p.id, p.message, <<>>, 0)
    BY <2>3, EncodableIsPacket, PacketFields
  <2>8. [p EXCEPT !.type = t] = Fields("4", t, p.nsp, p.id, p.message, <<>>, 0)
    BY <2>7, FieldsSet
  <2>9. q.buffers = <<>>
    BY <2>5 DEF Fields
  <2> QED
    BY <1>4, <2>6, <2>8, <2>9
<1> QED
  BY <1>3, <1>12, <1>13

\* What is decoded says which packet was encoded.
LEMMA SaysOne ==
  ASSUME NEW p, Encodable(p), NEW r, Encodable(r), NEW q, Says(q, p), Says(q, r)
  PROVE  p = r
<1> DEFINE types == {"connect", "disconnect", "event", "ack", "error", "undetermined"}
<1>1. /\ p = Fields(p.frame, p.type, p.nsp, p.id, p.message, <<>>, 0)
      /\ r = Fields(r.frame, r.type, r.nsp, r.id, r.message, <<>>, 0)
  BY EncodableIsPacket, PacketFields
<1>2. p.type \in types /\ r.type \in types
  <2>1. ASSUME NEW x, Encodable(x) PROVE x.type \in types
    <3>1. x.frame # "4" => x.type = "undetermined"
      <4> SUFFICES ASSUME x.frame # "4" PROVE x.type = "undetermined"
        OBVIOUS
      <4>1. x = Packet(x.frame, "undetermined", "/", NoId, NoMessage)
        BY <2>1 DEF Encodable
      <4>2. \A f : Packet(f, "undetermined", "/", NoId, NoMessage).type = "undetermined"
        BY DEF Packet
      <4> QED
        BY <4>1, <4>2
    <3>2. x.frame = "4" => x.type \in types
      BY <2>1 DEF Encodable
    <3> QED
      BY <3>1, <3>2
  <2> QED
    BY <2>1
<1>3. \A t, u \in types : t = u \/ (t # BinaryType(u) /\ BinaryType(t) # u /\ BinaryType(t) # BinaryType(u))
  BY DEF BinaryType
<1>4. PICK pt, rt : q = [p EXCEPT !.type = pt] /\ q = [r EXCEPT !.type = rt]
                    /\ pt \in {p.type, BinaryType(p.type)} /\ rt \in {r.type, BinaryType(r.type)}
  <2>1. ASSUME NEW x, x = Fields(x.frame, x.type, x.nsp, x.id, x.message, <<>>, 0), Says(q, x)
        PROVE  \E t \in {x.type, BinaryType(x.type)} : q = [x EXCEPT !.type = t]
    <3>1. [x EXCEPT !.type = x.type] = x
      BY <2>1, FieldsSet
    <3> QED
      BY <2>1, <3>1 DEF Says
  <2> QED
    BY <1>1, <2>1
<1>5. /\ q = Fields(p.frame, pt, p.nsp, p.id, p.message, <<>>, 0)
      /\ q = Fields(r.frame, rt, r.nsp, r.id, r.message, <<>>, 0)
  <2>1. [p EXCEPT !.type = pt] = Fields(p.frame, pt, p.nsp, p.id, p.message, <<>>, 0)
    BY <1>1, FieldsSet
  <2>2. [r EXCEPT !.type = rt] = Fields(r.frame, rt, r.nsp, r.id, r.message, <<>>, 0)
    BY <1>1, FieldsSet
  <2> QED
    BY <1>4, <2>1, <2>2
<1>6. /\ p.frame = r.frame /\ pt = rt /\ p.nsp = r.nsp /\ p.id = r.id /\ p.message = r.message
  BY <1>5 DEF Fields
<1>7. p.type = r.type
  <2> HIDE DEF types
  <2> QED
    BY <1>2, <1>3, <1>4, <1>6
<1> QED
  BY <1>1, <1>6, <1>7

-----------------------------------------------------------------------------
\* The payloads of the packets emitted.

EmittedOK ==
  /\ DOMAIN emitted = Emitters
  /\ \A e \in Emitters : emitted[e] \in Seq(Sendable[e])

IsPayload(x) ==
  /\ x \in Emitters \X Nat \X Nat
  /\ x[1] \in Emitters /\ x[2] \in Nat /\ x[3] \in Nat
  /\ x = <<x[1], x[2], x[3]>>
  /\ x[2] \in 1 .. Len(emitted[x[1]])
  /\ x[3] \in 1 .. PayloadCount(Source(x))

LEMMA PayloadIs ==
  ASSUME EmittedOK
  PROVE  /\ \A x \in Payloads : IsPayload(x)
         /\ \A e \in Emitters : \A i \in 1 .. Len(emitted[e]) :
              /\ Encodable(emitted[e][i]) /\ emitted[e][i] \in Sendable[e]
              /\ PayloadCount(emitted[e][i]) \in Nat \ {0}
              /\ \A k \in 1 .. PayloadCount(emitted[e][i]) : <<e, i, k>> \in Payloads
<1>1. ASSUME NEW e \in Emitters
      PROVE  /\ Len(emitted[e]) \in Nat /\ DOMAIN emitted[e] = 1 .. Len(emitted[e])
             /\ \A i \in 1 .. Len(emitted[e]) : emitted[e][i] \in Sendable[e]
  <2>1. emitted[e] \in Seq(Sendable[e])
    BY DEF EmittedOK
  <2> QED
    BY <2>1, LenProperties, ElementOfSeq
<1>2. ASSUME NEW e \in Emitters, NEW i \in 1 .. Len(emitted[e])
      PROVE  /\ Encodable(emitted[e][i])
             /\ PayloadCount(emitted[e][i]) \in Nat \ {0}
  <2>1. Encodable(emitted[e][i])
    BY <1>1, PacketAssumption
  <2>2. Count(emitted[e][i]) \in Nat /\ PayloadCount(emitted[e][i]) = 1 + Count(emitted[e][i])
    BY <2>1, PartsAre
  <2> QED
    BY <2>1, <2>2
<1>3. ASSUME NEW e \in Emitters, NEW i \in 1 .. Len(emitted[e]),
             NEW k \in 1 .. PayloadCount(emitted[e][i])
      PROVE  <<e, i, k>> \in Payloads
  BY <1>1 DEF Payloads
<1>4. ASSUME NEW x \in Payloads PROVE IsPayload(x)
  <2>1. PICK e \in Emitters :
          x \in UNION {{<<e, i, k>> : k \in 1 .. PayloadCount(emitted[e][i])} :
                         i \in DOMAIN emitted[e]}
    BY DEF Payloads
  <2>2. PICK i \in 1 .. Len(emitted[e]) :
          x \in {<<e, i, k>> : k \in 1 .. PayloadCount(emitted[e][i])}
    BY <1>1, <2>1
  <2>3. PICK k \in 1 .. PayloadCount(emitted[e][i]) : x = <<e, i, k>>
    BY <2>2
  <2>4. i \in Nat /\ k \in Nat
    BY <1>1, <1>2
  <2>5. x[1] = e /\ x[2] = i /\ x[3] = k
    BY <2>3
  <2> QED
    BY <2>3, <2>4, <2>5 DEF IsPayload, Source
<1> QED
  BY <1>1, <1>2, <1>3, <1>4

PayloadsOK ==
  /\ \A x \in Payloads : IsPayload(x)
  /\ \A f \in Emitters : \A i \in 1 .. Len(emitted[f]) :
       /\ PayloadCount(emitted[f][i]) \in Nat \ {0}
       /\ \A k \in 1 .. PayloadCount(emitted[f][i]) : <<f, i, k>> \in Payloads

LEMMA PayloadsAre == EmittedOK => PayloadsOK
  BY PayloadIs DEF PayloadsOK

\* What is known of a payload.
LEMMA Sourced ==
  ASSUME EmittedOK, NEW x \in Payloads
  PROVE  /\ x[1] \in Emitters /\ x[2] \in Nat /\ x[3] \in Nat /\ x = <<x[1], x[2], x[3]>>
         /\ x[2] \in 1 .. Len(emitted[x[1]]) /\ Len(emitted[x[1]]) \in Nat
         /\ Source(x) = emitted[x[1]][x[2]]
         /\ Source(x) \in Sendable[x[1]] /\ Encodable(Source(x))
         /\ PayloadCount(Source(x)) \in Nat \ {0}
         /\ x[3] \in 1 .. PayloadCount(Source(x))
         /\ PayloadCount(Source(x)) # 1 => Parts(Source(x)) # <<>>
<1>1. IsPayload(x)
  BY PayloadIs
<1>2. /\ Encodable(Source(x)) /\ Source(x) \in Sendable[x[1]]
      /\ PayloadCount(Source(x)) \in Nat \ {0}
  BY <1>1, PayloadIs DEF IsPayload, Source
<1>3. emitted[x[1]] \in Seq(Sendable[x[1]])
  BY <1>1 DEF IsPayload, EmittedOK
<1>4. Len(emitted[x[1]]) \in Nat
  BY <1>3, LenProperties
<1>5. PayloadCount(Source(x)) = 1 + Count(Source(x)) /\ (Count(Source(x)) = 0 <=> Parts(Source(x)) = <<>>)
  BY <1>2, PartsAre
<1> QED
  BY <1>1, <1>2, <1>4, <1>5 DEF IsPayload, Source

\* The order of payloads is one, and nothing is between a payload and the next.
Triple(x) == x[2] \in Nat /\ x[3] \in Nat /\ x = <<x[1], x[2], x[3]>>

LEMMA EarlierOrder ==
  ASSUME NEW x, Triple(x), NEW y, Triple(y), NEW z, Triple(z)
  PROVE  /\ Earlier(x, y) /\ Earlier(y, z) => Earlier(x, z)
         /\ ~Earlier(x, x)
         /\ ~(Earlier(x, y) /\ Earlier(y, x))
         /\ Triple(Succ(x)) /\ Earlier(x, Succ(x)) /\ Succ(x) # x
         /\ Succ(x)[1] = x[1] /\ Succ(x)[2] = x[2] /\ Succ(x)[3] = x[3] + 1
         /\ ~(Earlier(x, y) /\ Earlier(y, Succ(x)))
         /\ Succ(x) = Succ(y) => x = y
<1>1. Succ(x)[1] = x[1] /\ Succ(x)[2] = x[2] /\ Succ(x)[3] = x[3] + 1
  BY DEF Succ
<1>2. Triple(Succ(x))
  BY <1>1 DEF Triple, Succ
<1>3. /\ x[2] \in Nat /\ x[3] \in Nat /\ y[2] \in Nat /\ y[3] \in Nat
      /\ z[2] \in Nat /\ z[3] \in Nat
  BY DEF Triple
<1>4. Earlier(x, Succ(x)) /\ x[3] + 1 # x[3]
  BY <1>1, <1>3 DEF Earlier
<1>5. Succ(x) # x
  BY <1>1, <1>4
<1>6. Earlier(x, y) /\ Earlier(y, z) => Earlier(x, z)
  BY <1>3 DEF Earlier
<1>7. ~Earlier(x, x) /\ ~(Earlier(x, y) /\ Earlier(y, x))
  BY <1>3 DEF Earlier
<1>8. ~(Earlier(x, y) /\ Earlier(y, Succ(x)))
  BY <1>1, <1>3 DEF Earlier
<1>9. Succ(x) = Succ(y) => x = y
  <2> SUFFICES ASSUME Succ(x) = Succ(y) PROVE x = y
    OBVIOUS
  <2>1. Succ(y)[1] = y[1] /\ Succ(y)[2] = y[2] /\ Succ(y)[3] = y[3] + 1
    BY DEF Succ
  <2>2. x[1] = y[1] /\ x[2] = y[2] /\ x[3] + 1 = y[3] + 1
    BY <1>1, <2>1
  <2>3. x[3] = y[3]
    BY <1>3, <2>2
  <2> QED
    BY <2>2, <2>3 DEF Triple
<1> QED
  BY <1>1, <1>2, <1>4, <1>5, <1>6, <1>7, <1>8, <1>9

LEMMA PayloadTriple ==
  ASSUME EmittedOK, NEW x \in Payloads
  PROVE  Triple(x)
  BY Sourced DEF Triple

\* A packet has a payload after each but its last.
LEMMA NextPayload ==
  ASSUME EmittedOK, NEW x \in Payloads, x[3] < PayloadCount(Source(x))
  PROVE  Succ(x) \in Payloads /\ Source(Succ(x)) = Source(x)
<1>1. /\ x[1] \in Emitters /\ x[2] \in 1 .. Len(emitted[x[1]]) /\ x[3] \in Nat
      /\ Source(x) = emitted[x[1]][x[2]] /\ PayloadCount(Source(x)) \in Nat
  BY Sourced
<1>2. x[3] + 1 \in 1 .. PayloadCount(Source(x))
  BY <1>1
<1>3. Succ(x) \in Payloads
  BY <1>1, <1>2, PayloadIs DEF Succ
<1>4. Succ(x)[1] = x[1] /\ Succ(x)[2] = x[2]
  BY DEF Succ
<1> QED
  BY <1>3, <1>4 DEF Source

-----------------------------------------------------------------------------
\* What comes.

LEMMA RangeAppend ==
  ASSUME NEW S, NEW s \in Seq(S), NEW e \in S
  PROVE  /\ Append(s, e) \in Seq(S) /\ Len(Append(s, e)) = Len(s) + 1
         /\ Len(s) \in Nat
         /\ \A i \in 1 .. Len(s) : Append(s, e)[i] = s[i]
         /\ Append(s, e)[Len(s) + 1] = e
         /\ Range(Append(s, e)) = Range(s) \cup {e}
<1>1. Append(s, e) \in Seq(S) /\ Len(Append(s, e)) = Len(s) + 1 /\ Len(s) \in Nat
  BY AppendProperties, LenProperties
<1>2. /\ \A i \in 1 .. Len(s) : Append(s, e)[i] = s[i]
      /\ Append(s, e)[Len(s) + 1] = e
  BY AppendProperties
<1>3. /\ Range(s) = {s[i] : i \in 1 .. Len(s)}
      /\ Range(Append(s, e)) = {Append(s, e)[i] : i \in 1 .. Len(s) + 1}
  BY <1>1, RangeEquality
<1>4. 1 .. Len(s) + 1 = (1 .. Len(s)) \cup {Len(s) + 1}
  BY <1>1
<1>5. Range(Append(s, e)) = Range(s) \cup {e}
  BY <1>1, <1>2, <1>3, <1>4
<1> QED
  BY <1>1, <1>2, <1>5

LEMMA RangeTail ==
  ASSUME NEW S, NEW s \in Seq(S), s # <<>>
  PROVE  /\ Head(s) = s[1] /\ Tail(s) \in Seq(S)
         /\ Len(s) \in Nat \ {0} /\ Len(Tail(s)) = Len(s) - 1
         /\ \A i \in 1 .. Len(s) - 1 : Tail(s)[i] = s[i + 1]
         /\ Range(s) = {s[i] : i \in 1 .. Len(s)}
         /\ Range(Tail(s)) = {s[i] : i \in 2 .. Len(s)}
<1>1. /\ Head(s) \in S /\ Tail(s) \in Seq(S)
      /\ Len(Tail(s)) = Len(s) - 1
      /\ \A i \in 1 .. Len(Tail(s)) : Tail(s)[i] = s[i + 1]
  BY HeadTailProperties
<1>2. Len(s) \in Nat \ {0}
  BY EmptySeq
<1>3. /\ Range(s) = {s[i] : i \in 1 .. Len(s)}
      /\ Range(Tail(s)) = {Tail(s)[i] : i \in 1 .. Len(s) - 1}
  BY <1>1, RangeEquality
<1>4. \A i \in 1 .. Len(s) - 1 : i + 1 \in 2 .. Len(s)
  BY <1>2
<1>5. \A i \in 2 .. Len(s) : i - 1 \in 1 .. Len(s) - 1 /\ i - 1 + 1 = i
  BY <1>2
<1>6. Range(Tail(s)) = {s[i] : i \in 2 .. Len(s)}
  <2>1. ASSUME NEW i \in 2 .. Len(s) PROVE s[i] \in {Tail(s)[j] : j \in 1 .. Len(s) - 1}
    <3>1. Tail(s)[i - 1] = s[i]
      BY <1>1, <1>5
    <3> QED
      BY <1>5, <3>1
  <2>2. ASSUME NEW i \in 1 .. Len(s) - 1 PROVE Tail(s)[i] \in {s[j] : j \in 2 .. Len(s)}
    BY <1>1, <1>4
  <2> QED
    BY <1>3, <2>1, <2>2
<1>7. Head(s) = s[1]
  OBVIOUS
<1> QED
  BY <1>1, <1>2, <1>3, <1>6, <1>7

WireOK ==
  /\ EmittedOK
  /\ encoding \in [Emitters -> Nat]
  /\ wire \in Seq(Emitters \X Nat \X Nat)
  /\ open \in BOOLEAN
  /\ WireInv

\* Of one thread, all that comes comes after the first payload on the wire.
LEMMA HeadFirst ==
  ASSUME WireOK, wire # <<>>, NEW y, y = Head(wire)
  PROVE  /\ y \in Payloads /\ y \in Range(wire) /\ Coming(y) /\ open
         /\ \A z \in Payloads : Coming(z) /\ z[1] = y[1] /\ z # y => Earlier(y, z)
         /\ y \notin Range(Tail(wire)) /\ Range(wire) = Range(Tail(wire)) \cup {y}
         /\ encoding[y[1]] # 0 => y # NextOut(y[1])
<1>1. /\ Len(wire) \in Nat \ {0} /\ y = wire[1]
      /\ Range(wire) = {wire[i] : i \in 1 .. Len(wire)}
      /\ Range(Tail(wire)) = {wire[i] : i \in 2 .. Len(wire)}
      /\ DOMAIN wire = 1 .. Len(wire)
  <2>1. PICK S : wire \in Seq(S)
    BY DEF WireOK
  <2> QED
    BY <2>1, RangeTail, LenProperties
<1>2. 1 \in 1 .. Len(wire) /\ 1 .. Len(wire) = {1} \cup 2 .. Len(wire)
  BY <1>1
<1>3. y \in Range(wire) /\ Coming(y) /\ y \in Payloads /\ open
  <2>1. y \in Range(wire)
    BY <1>1, <1>2
  <2>2. y \in Payloads /\ open
    BY <2>1 DEF WireOK, WireInv
  <2> QED
    BY <2>1, <2>2 DEF Coming
<1>4. Triple(y)
  BY <1>3, PayloadTriple DEF WireOK
<1>5. \A i \in 2 .. Len(wire) : wire[i][1] = y[1] => Earlier(y, wire[i])
  <2> SUFFICES ASSUME NEW i \in 2 .. Len(wire), wire[i][1] = y[1] PROVE Earlier(y, wire[i])
    OBVIOUS
  <2>1. 1 < i /\ i \in DOMAIN wire /\ 1 \in DOMAIN wire
    BY <1>1, <1>2
  <2> QED
    BY <1>1, <2>1 DEF WireOK, WireInv
<1>6. y \notin Range(Tail(wire))
  BY <1>1, <1>4, <1>5, EarlierOrder
<1>7. encoding[y[1]] # 0 => Earlier(y, NextOut(y[1]))
  BY <1>3 DEF WireOK, WireInv
<1>8. ASSUME NEW z \in Payloads, Coming(z), z[1] = y[1], z # y PROVE Earlier(y, z)
  <2>1. CASE z \in Range(wire)
    BY <1>1, <1>2, <1>5, <1>8, <2>1
  <2>2. CASE encoding[z[1]] # 0 /\ z = NextOut(z[1])
    BY <1>7, <1>8, <2>2
  <2> QED
    BY <1>8, <2>1, <2>2 DEF Coming
<1>9. encoding[y[1]] # 0 => y # NextOut(y[1])
  BY <1>4, <1>7, EarlierOrder
<1> QED
  BY <1>1, <1>2, <1>3, <1>6, <1>8, <1>9

-----------------------------------------------------------------------------
\* What a step leaves of the payloads that come.

Kept ==
  /\ WireOK'
  /\ \A x \in Payloads : x \in Payloads' /\ Source(x)' = Source(x) /\ (Gone(x) => Gone(x)')

LEMMA SameEmitted ==
  ASSUME EmittedOK, UNCHANGED emitted
  PROVE  EmittedOK' /\ Payloads' = Payloads /\ \A x : Source(x)' = Source(x)
  BY DEF EmittedOK, Payloads, Source

\* Only what comes after x, or after what comes, may come next.
LEMMA GoneKept ==
  ASSUME EmittedOK, UNCHANGED emitted, NEW x \in Payloads, Gone(x),
         \A y \in Payloads : Coming(y)' =>
           \/ Coming(y)
           \/ \E z \in Payloads : Coming(z) /\ y = Succ(z)
  PROVE  Gone(x)'
<1> SUFFICES ASSUME NEW y \in Payloads, y[1] = x[1], Coming(y)' PROVE Earlier(x, y)
  BY SameEmitted DEF Gone, Earlier
<1>1. CASE Coming(y)
  BY <1>1 DEF Gone
<1>2. ASSUME NEW z \in Payloads, Coming(z), y = Succ(z) PROVE Earlier(x, y)
  <2>1. Triple(x) /\ Triple(z)
    BY PayloadTriple
  <2>2. z[1] = x[1]
    BY <1>2 DEF Succ
  <2>3. Earlier(x, z)
    BY <1>2, <2>2 DEF Gone
  <2>4. Earlier(z, Succ(z)) /\ Triple(Succ(z))
    BY <2>1, EarlierOrder
  <2> QED
    BY <1>2, <2>1, <2>3, <2>4, EarlierOrder
<1> QED
  BY <1>1, <1>2

LEMMA Taken ==
  ASSUME WireOK, Receive, NEW y, y = Head(wire)
  PROVE  /\ Kept
         /\ y \in Payloads /\ Coming(y) /\ open /\ Gone(y)'
         /\ \A z \in Payloads : Coming(z) /\ z[1] = y[1] /\ z # y => Earlier(y, z)
         /\ \A x \in Payloads : Coming(x)' <=> Coming(x) /\ x # y
<1>1. /\ wire # <<>> /\ wire' = Tail(wire)
      /\ UNCHANGED emitted /\ UNCHANGED encoding /\ UNCHANGED open
  BY DEF Receive
<1>2. /\ y \in Payloads /\ y \in Range(wire) /\ Coming(y) /\ open
      /\ \A z \in Payloads : Coming(z) /\ z[1] = y[1] /\ z # y => Earlier(y, z)
      /\ y \notin Range(Tail(wire)) /\ Range(wire) = Range(Tail(wire)) \cup {y}
      /\ encoding[y[1]] # 0 => y # NextOut(y[1])
  BY <1>1, HeadFirst
<1>3. EmittedOK /\ EmittedOK' /\ Payloads' = Payloads /\ \A x : Source(x)' = Source(x)
  BY <1>1, SameEmitted DEF WireOK
<1>4. \A e : NextOut(e)' = NextOut(e)
  BY <1>1 DEF NextOut
<1>5. ASSUME NEW x \in Payloads PROVE Coming(x)' <=> Coming(x) /\ x # y
  <2>1. Coming(x)' <=> x \in Range(Tail(wire)) \/ (encoding[x[1]] # 0 /\ x = NextOut(x[1]))
    BY <1>1, <1>4 DEF Coming
  <2> QED
    BY <1>2, <2>1 DEF Coming
<1>6. ASSUME NEW x \in Payloads, Gone(x) PROVE Gone(x)'
  BY <1>1, <1>3, <1>5, <1>6, GoneKept
<1>7. Gone(y)'
  <2> SUFFICES ASSUME NEW z \in Payloads, z[1] = y[1], Coming(z)' PROVE Earlier(y, z)
    BY <1>3 DEF Gone, Earlier
  <2> QED
    BY <1>2, <1>5
<1>8. /\ Len(wire) \in Nat \ {0} /\ wire' \in Seq(Emitters \X Nat \X Nat)
      /\ Len(wire') = Len(wire) - 1 /\ DOMAIN wire' = 1 .. Len(wire) - 1
      /\ DOMAIN wire = 1 .. Len(wire)
      /\ \A i \in 1 .. Len(wire) - 1 : wire'[i] = wire[i + 1]
  <2>1. wire \in Seq(Emitters \X Nat \X Nat)
    BY DEF WireOK
  <2>2. /\ Len(wire) \in Nat \ {0} /\ Tail(wire) \in Seq(Emitters \X Nat \X Nat)
        /\ Len(Tail(wire)) = Len(wire) - 1
        /\ \A i \in 1 .. Len(wire) - 1 : Tail(wire)[i] = wire[i + 1]
    BY <1>1, <2>1, RangeTail
  <2>3. DOMAIN wire = 1 .. Len(wire) /\ DOMAIN Tail(wire) = 1 .. Len(Tail(wire))
    BY <2>1, <2>2, LenProperties
  <2> QED
    BY <1>1, <2>2, <2>3
<1>9. WireInv'
  <2>1. ~open' => wire' = <<>>
    BY <1>1, <1>2
  <2>2. Range(wire') \subseteq Payloads'
    BY <1>1, <1>2, <1>3 DEF WireOK, WireInv
  <2>3. \A e \in Emitters : encoding'[e] # 0 => NextOut(e)' \in Payloads'
    BY <1>1, <1>3, <1>4 DEF WireOK, WireInv
  <2>4. ASSUME NEW i \in DOMAIN wire', NEW j \in DOMAIN wire', i < j, wire'[i][1] = wire'[j][1]
        PROVE  Earlier(wire'[i], wire'[j])
    <3>1. i \in 1 .. Len(wire) - 1 /\ j \in 1 .. Len(wire) - 1 /\ Len(wire) \in Nat /\ i < j
      BY <1>8, <2>4
    <3>0. i + 1 \in 1 .. Len(wire) /\ j + 1 \in 1 .. Len(wire) /\ i + 1 < j + 1
      BY <3>1
    <3>2. i + 1 \in DOMAIN wire /\ j + 1 \in DOMAIN wire /\ i + 1 < j + 1
      BY <1>8, <3>0
    <3>3. wire'[i] = wire[i + 1] /\ wire'[j] = wire[j + 1]
      BY <1>8, <3>1
    <3>4. wire[i + 1][1] = wire[j + 1][1]
      BY <2>4, <3>3
    <3>5. Earlier(wire[i + 1], wire[j + 1])
      BY <3>2, <3>4 DEF WireOK, WireInv
    <3> QED
      BY <3>3, <3>5
  <2>5. ASSUME NEW x \in Range(wire'), encoding'[x[1]] # 0 PROVE Earlier(x, NextOut(x[1])')
    BY <1>1, <1>2, <1>4, <2>5 DEF WireOK, WireInv
  <2>6. ASSUME NEW x \in Range(wire'), x[3] < PayloadCount(Source(x)') PROVE Coming(Succ(x))'
    <3>1. x \in Range(Tail(wire)) /\ x \in Range(wire) /\ x \in Payloads /\ x # y
      BY <1>1, <1>2, <2>6 DEF WireOK, WireInv
    <3>2. x[3] < PayloadCount(Source(x))
      BY <1>3, <2>6
    <3>3. Coming(Succ(x)) /\ Succ(x) \in Payloads /\ Triple(x) /\ Triple(y)
      BY <1>2, <1>3, <3>1, <3>2, NextPayload, PayloadTriple DEF WireOK, WireInv
    <3>4. Succ(x) # y
      <4> SUFFICES ASSUME Succ(x) = y PROVE FALSE
        OBVIOUS
      <4>1. x[1] = y[1] /\ Earlier(x, y)
        BY <3>3, EarlierOrder
      <4>2. Coming(x)
        BY <3>1 DEF Coming
      <4> QED
        BY <1>2, <3>1, <3>3, <4>1, <4>2, EarlierOrder
    <3> QED
      BY <1>5, <3>3, <3>4
  <2> QED
    BY <1>3, <2>1, <2>2, <2>3, <2>4, <2>5, <2>6 DEF WireInv, Earlier, PayloadCount, Parts, Succ
<1>10. WireOK'
  BY <1>1, <1>3, <1>8, <1>9 DEF WireOK
<1> QED
  BY <1>2, <1>3, <1>5, <1>6, <1>7, <1>10 DEF Kept

LEMMA Added ==
  ASSUME WireOK, NEW e \in Emitters, HandOver(e), NEW y, y = NextOut(e)
  PROVE  /\ Kept
         /\ y \in Payloads /\ Coming(y)
         /\ UNCHANGED emitted
         /\ \A x \in Payloads : Coming(x)' =>
              Coming(x) \/ (x = Succ(y) /\ y[3] < PayloadCount(Source(y)))
         /\ open => \A x \in Payloads : Coming(x) => Coming(x)'
<1>1. /\ encoding[e] # 0
      /\ encoding' = [encoding EXCEPT ![e] = After(y)]
      /\ wire' = IF open THEN Append(wire, y) ELSE wire
      /\ UNCHANGED emitted /\ UNCHANGED open
  BY DEF HandOver
<1>2. EmittedOK /\ EmittedOK' /\ Payloads' = Payloads /\ \A x : Source(x)' = Source(x)
  BY <1>1, SameEmitted DEF WireOK
<1>3. /\ y \in Payloads /\ y[1] = e /\ Triple(y) /\ y[3] = encoding[e]
      /\ PayloadCount(Source(y)) \in Nat /\ y[3] \in 1 .. PayloadCount(Source(y))
  <2>1. y \in Payloads
    BY <1>1 DEF WireOK, WireInv
  <2>2. y[1] = e /\ y[3] = encoding[e]
    BY DEF NextOut
  <2> QED
    BY <1>2, <2>1, <2>2, Sourced, PayloadTriple
<1>4. Coming(y)
  BY <1>1, <1>3 DEF Coming
<1>5. encoding \in [Emitters -> Nat] /\ wire \in Seq(Emitters \X Nat \X Nat)
      /\ y \in Emitters \X Nat \X Nat /\ After(y) \in Nat
  <2>1. y \in Emitters \X Nat \X Nat
    BY <1>2, <1>3, PayloadIs DEF IsPayload
  <2>2. After(y) \in Nat
    BY <1>3 DEF After
  <2> QED
    BY <2>1, <2>2 DEF WireOK
<1>6. /\ encoding' \in [Emitters -> Nat] /\ encoding'[e] = After(y)
      /\ \A f \in Emitters : f # e => encoding'[f] = encoding[f]
  BY <1>1, <1>5
<1>7. \A f \in Emitters : f # e => NextOut(f)' = NextOut(f)
  BY <1>1, <1>6 DEF NextOut
<1>8. encoding'[e] # 0 => /\ y[3] < PayloadCount(Source(y)) /\ NextOut(e)' = Succ(y)
                          /\ Succ(y) \in Payloads
  <2> SUFFICES ASSUME encoding'[e] # 0
               PROVE  /\ y[3] < PayloadCount(Source(y)) /\ NextOut(e)' = Succ(y)
                      /\ Succ(y) \in Payloads
    OBVIOUS
  <2>1. y[3] # PayloadCount(Source(y)) /\ encoding'[e] = y[3] + 1
    BY <1>6 DEF After
  <2>2. y[3] < PayloadCount(Source(y))
    BY <1>3, <2>1
  <2>3. NextOut(e)' = Succ(y)
    BY <1>1, <2>1 DEF NextOut, Succ
  <2> QED
    BY <1>2, <1>3, <2>2, <2>3, NextPayload
<1>9. y[3] < PayloadCount(Source(y)) => encoding'[e] # 0
  <2> SUFFICES ASSUME y[3] < PayloadCount(Source(y)) PROVE encoding'[e] # 0
    OBVIOUS
  <2>1. y[3] # PayloadCount(Source(y)) /\ y[3] + 1 # 0
    BY <1>3
  <2> QED
    BY <1>6, <2>1 DEF After
<1>10. /\ wire' \in Seq(Emitters \X Nat \X Nat)
       /\ Range(wire') = IF open THEN Range(wire) \cup {y} ELSE Range(wire)
  <2>1. /\ Append(wire, y) \in Seq(Emitters \X Nat \X Nat)
        /\ Range(Append(wire, y)) = Range(wire) \cup {y}
    <3>1. PICK S : S = Emitters \X Nat \X Nat
      OBVIOUS
    <3> QED
      BY <1>5, <3>1, RangeAppend
  <2>2. CASE open
    BY <1>1, <2>1, <2>2
  <2>3. CASE ~open
    BY <1>1, <1>5, <2>3
  <2> QED
    BY <2>2, <2>3
<1>11. \A x \in Range(wire) : x \in Payloads /\ x[1] \in Emitters
  BY <1>2, Sourced DEF WireOK, WireInv
<1>12. ASSUME NEW x \in Payloads, Coming(x)'
       PROVE  Coming(x) \/ (x = Succ(y) /\ y[3] < PayloadCount(Source(y)))
  <2>0. x[1] \in Emitters
    BY <1>2, Sourced
  <2>1. CASE x \in Range(wire')
    <3>1. x \in Range(wire) \/ x = y
      BY <1>10, <2>1
    <3> QED
      BY <1>4, <3>1 DEF Coming
  <2>2. CASE encoding'[x[1]] # 0 /\ x = NextOut(x[1])'
    <3>1. CASE x[1] = e
      BY <1>8, <2>2, <3>1
    <3>2. CASE x[1] # e
      BY <1>6, <1>7, <2>0, <2>2, <3>2 DEF Coming
    <3> QED
      BY <3>1, <3>2
  <2> QED
    BY <1>12, <2>1, <2>2 DEF Coming
<1>13. ASSUME open, NEW x \in Payloads, Coming(x) PROVE Coming(x)'
  <2>0. x[1] \in Emitters
    BY <1>2, Sourced
  <2>1. CASE x \in Range(wire)
    BY <1>10, <1>13, <2>1 DEF Coming
  <2>2. CASE encoding[x[1]] # 0 /\ x = NextOut(x[1])
    <3>1. CASE x[1] = e
      BY <1>10, <1>13, <2>2, <3>1 DEF Coming
    <3>2. CASE x[1] # e
      BY <1>6, <1>7, <2>0, <2>2, <3>2 DEF Coming
    <3> QED
      BY <3>1, <3>2
  <2> QED
    BY <1>13, <2>1, <2>2 DEF Coming
<1>14. ASSUME NEW x \in Payloads, Gone(x) PROVE Gone(x)'
  BY <1>1, <1>2, <1>4, <1>3, <1>12, <1>14, GoneKept
<1>15. WireInv'
  <2>1. ~open' => wire' = <<>>
    BY <1>1 DEF WireOK, WireInv
  <2>2. Range(wire') \subseteq Payloads'
    BY <1>2, <1>3, <1>10, <1>11
  <2>3. ASSUME NEW f \in Emitters, encoding'[f] # 0 PROVE NextOut(f)' \in Payloads'
    <3>1. CASE f = e
      BY <1>2, <1>8, <2>3, <3>1
    <3>2. CASE f # e
      BY <1>2, <1>6, <1>7, <2>3, <3>2 DEF WireOK, WireInv
    <3> QED
      BY <3>1, <3>2
  <2>4. ASSUME NEW i \in DOMAIN wire', NEW j \in DOMAIN wire', i < j, wire'[i][1] = wire'[j][1]
        PROVE  Earlier(wire'[i], wire'[j])
    <3>1. CASE ~open
      <4>1. wire' = wire
        BY <1>1, <3>1
      <4> QED
        BY <2>4, <4>1 DEF WireOK, WireInv
    <3>2. CASE open
      <4>1. /\ Len(wire) \in Nat /\ Len(wire') = Len(wire) + 1
            /\ \A k \in 1 .. Len(wire) : wire'[k] = wire[k]
            /\ wire'[Len(wire) + 1] = y
            /\ DOMAIN wire' = 1 .. Len(wire')
            /\ DOMAIN wire = 1 .. Len(wire)
        BY <1>1, <1>5, <1>10, <3>2, RangeAppend, LenProperties
      <4>2. i \in 1 .. Len(wire) + 1 /\ j \in 1 .. Len(wire) + 1 /\ i < j
        BY <2>4, <4>1
      <4>3. i \in 1 .. Len(wire) /\ (j \in 1 .. Len(wire) \/ j = Len(wire) + 1)
        BY <4>1, <4>2
      <4>4. CASE j \in 1 .. Len(wire)
        <5>1. wire'[i] = wire[i] /\ wire'[j] = wire[j]
          BY <4>1, <4>3, <4>4
        <5> QED
          BY <2>4, <4>1, <4>3, <4>4, <5>1 DEF WireOK, WireInv
      <4>5. CASE j = Len(wire) + 1
        <5>1. wire'[i] = wire[i] /\ wire'[j] = y
          BY <4>1, <4>3, <4>5
        <5>2. wire[i] \in Range(wire)
          BY <4>1, <4>3 DEF Range
        <5>3. wire[i][1] = e
          BY <1>3, <2>4, <5>1
        <5>4. Earlier(wire[i], NextOut(e))
          BY <1>1, <5>2, <5>3 DEF WireOK, WireInv
        <5> QED
          BY <5>1, <5>4
      <4> QED
        BY <4>3, <4>4, <4>5
    <3> QED
      BY <3>1, <3>2
  <2>5. ASSUME NEW x \in Range(wire'), encoding'[x[1]] # 0 PROVE Earlier(x, NextOut(x[1])')
    <3>1. x \in Range(wire) \/ x = y
      BY <1>10
    <3>2. CASE x[1] = e
      <4>1. NextOut(e)' = Succ(y) /\ Triple(Succ(y)) /\ Earlier(y, Succ(y))
        BY <1>3, <1>8, <2>5, <3>2, EarlierOrder
      <4>2. CASE x = y
        BY <3>2, <4>1, <4>2
      <4>3. CASE x \in Range(wire)
        <5>1. Earlier(x, y) /\ Triple(x)
          BY <1>1, <1>2, <1>11, <3>2, <4>3, PayloadTriple DEF WireOK, WireInv
        <5>2. Earlier(x, Succ(y))
          BY <1>3, <4>1, <5>1, EarlierOrder
        <5> QED
          BY <3>2, <4>1, <5>2
      <4> QED
        BY <3>1, <4>2, <4>3
    <3>3. CASE x[1] # e
      <4>1. x \in Range(wire) /\ x[1] \in Emitters
        BY <1>3, <1>11, <3>1, <3>3
      <4>2. encoding[x[1]] # 0 /\ NextOut(x[1])' = NextOut(x[1])
        BY <1>6, <1>7, <2>5, <3>3, <4>1
      <4> QED
        BY <4>1, <4>2 DEF WireOK, WireInv
    <3> QED
      BY <3>2, <3>3
  <2>6. ASSUME NEW x \in Range(wire'), x[3] < PayloadCount(Source(x)') PROVE Coming(Succ(x))'
    <3>1. x[3] < PayloadCount(Source(x))
      BY <1>2, <2>6
    <3>2. CASE x = y
      <4>1. encoding'[e] # 0 /\ NextOut(e)' = Succ(y) /\ Succ(y)[1] = e
        BY <1>3, <1>8, <1>9, <3>1, <3>2, EarlierOrder
      <4> QED
        BY <3>2, <4>1 DEF Coming
    <3>3. CASE x \in Range(wire)
      <4>1. Coming(Succ(x)) /\ Succ(x) \in Payloads
        BY <1>2, <1>11, <3>1, <3>3, NextPayload DEF WireOK, WireInv
      <4>2. open
        BY <3>3 DEF WireOK, WireInv, Range
      <4> QED
        BY <1>13, <4>1, <4>2
    <3> QED
      BY <1>10, <3>2, <3>3
  <2> QED
    BY <1>2, <2>1, <2>2, <2>3, <2>4, <2>5, <2>6 DEF WireInv, Earlier, PayloadCount, Parts, Succ
<1>16. WireOK'
  BY <1>1, <1>2, <1>6, <1>10, <1>15 DEF WireOK
<1> QED
  BY <1>1, <1>2, <1>3, <1>4, <1>12, <1>13, <1>14, <1>16 DEF Kept

\* The first payload of a packet comes after all that its thread handed over.
LEMMA Begun ==
  ASSUME WireOK, NEW e \in Emitters, NEW p \in Sendable[e], Encode(e, p)
  PROVE  /\ Kept
         /\ \A x \in Payloads : Coming(x) => Coming(x)'
         /\ \A x \in Payloads' : Coming(x)' =>
              (x \in Payloads /\ Coming(x)) \/ x[3] = 1
         /\ Len(emitted'[e]) = Len(emitted[e]) + 1 /\ emitted'[e][Len(emitted[e]) + 1] = p
         /\ \A i \in 1 .. Len(emitted[e]) : emitted'[e][i] = emitted[e][i]
         /\ \A f \in Emitters \ {e} : emitted'[f] = emitted[f]
         /\ \E x \in Payloads' : x[1] = e /\ x[2] = Len(emitted[e]) + 1 /\ Coming(x)'
<1> DEFINE n == Len(emitted[e])
<1>1. /\ encoding[e] = 0
      /\ emitted' = [emitted EXCEPT ![e] = Append(emitted[e], p)]
      /\ encoding' = [encoding EXCEPT ![e] = 1]
      /\ UNCHANGED wire /\ UNCHANGED open
  BY DEF Encode
<1>2. /\ DOMAIN emitted = Emitters /\ emitted[e] \in Seq(Sendable[e])
      /\ encoding \in [Emitters -> Nat] /\ wire \in Seq(Emitters \X Nat \X Nat)
      /\ open \in BOOLEAN /\ EmittedOK
  BY DEF WireOK, EmittedOK
<1>3. /\ DOMAIN emitted' = Emitters /\ emitted'[e] = Append(emitted[e], p)
      /\ \A f \in Emitters : f # e => emitted'[f] = emitted[f]
      /\ encoding' \in [Emitters -> Nat] /\ encoding'[e] = 1
      /\ \A f \in Emitters : f # e => encoding'[f] = encoding[f]
  BY <1>1, <1>2
<1>4. /\ n \in Nat /\ emitted'[e] \in Seq(Sendable[e]) /\ Len(emitted'[e]) = n + 1
      /\ emitted'[e][n + 1] = p
      /\ \A i \in 1 .. n : emitted'[e][i] = emitted[e][i]
  BY <1>2, <1>3, RangeAppend
<1>5. EmittedOK'
  <2>1. ASSUME NEW f \in Emitters PROVE emitted'[f] \in Seq(Sendable[f])
    <3>1. CASE f = e
      BY <1>4, <3>1
    <3>2. CASE f # e
      BY <1>2, <1>3, <3>2 DEF EmittedOK
    <3> QED
      BY <3>1, <3>2
  <2> QED
    BY <1>3, <2>1 DEF EmittedOK
<1>6. /\ \A x \in Payloads : IsPayload(x)
      /\ \A f \in Emitters : \A i \in 1 .. Len(emitted[f]) :
           \A k \in 1 .. PayloadCount(emitted[f][i]) : <<f, i, k>> \in Payloads
  BY <1>2, PayloadIs
<1>7. EmittedOK' => PayloadsOK'
  BY PayloadsAre, PTL
<1>8. /\ \A x \in Payloads' : IsPayload(x)'
      /\ \A f \in Emitters : \A i \in 1 .. Len(emitted'[f]) :
           /\ PayloadCount(emitted'[f][i]) \in Nat \ {0}
           /\ \A k \in 1 .. PayloadCount(emitted'[f][i]) : <<f, i, k>> \in Payloads'
  BY <1>5, <1>7 DEF PayloadsOK
<1>10. ASSUME NEW x \in Payloads PROVE x \in Payloads' /\ Source(x)' = Source(x)
  <2>1. /\ x[1] \in Emitters /\ x[2] \in 1 .. Len(emitted[x[1]])
        /\ x[3] \in 1 .. PayloadCount(Source(x)) /\ x = <<x[1], x[2], x[3]>>
    BY <1>2, Sourced
  <2>2. x[2] \in 1 .. Len(emitted'[x[1]]) /\ emitted'[x[1]][x[2]] = emitted[x[1]][x[2]]
    <3>1. CASE x[1] = e
      <4>1. x[2] \in 1 .. n
        BY <2>1, <3>1
      <4>2. x[2] \in 1 .. n + 1
        BY <1>4, <4>1
      <4> QED
        BY <1>4, <3>1, <4>1, <4>2
    <3>2. CASE x[1] # e
      BY <1>3, <2>1, <3>2
    <3> QED
      BY <3>1, <3>2
  <2>3. Source(x)' = Source(x)
    BY <2>2 DEF Source
  <2>4. x[3] \in 1 .. PayloadCount(emitted'[x[1]][x[2]])
    BY <2>1, <2>2 DEF Source
  <2> QED
    BY <1>5, <1>8, <2>1, <2>2, <2>3, <2>4
<1>11. PICK y : y = <<e, n + 1, 1>>
  OBVIOUS
<1>12. /\ y[1] = e /\ y[2] = n + 1 /\ y[3] = 1 /\ NextOut(e)' = y
       /\ y \in Payloads' /\ Coming(y)'
  <2>1. y[1] = e /\ y[2] = n + 1 /\ y[3] = 1
    BY <1>11
  <2>2. NextOut(e)' = y
    BY <1>3, <1>4, <1>11 DEF NextOut
  <2>3. n + 1 \in 1 .. Len(emitted'[e])
    BY <1>4
  <2>4. PayloadCount(emitted'[e][n + 1]) \in Nat \ {0}
    BY <1>5, <1>8, <2>3
  <2>5. 1 \in 1 .. PayloadCount(emitted'[e][n + 1])
    BY <2>4
  <2>6. y \in Payloads'
    BY <1>5, <1>8, <1>11, <2>3, <2>5
  <2>7. Coming(y)'
    BY <1>3, <2>1, <2>2 DEF Coming
  <2> QED
    BY <2>1, <2>2, <2>6, <2>7
<1>13. \A f \in Emitters : f # e => NextOut(f)' = NextOut(f)
  BY <1>3 DEF NextOut
<1>14. \A x \in Range(wire) : x \in Payloads /\ x[1] \in Emitters
  BY <1>2, Sourced DEF WireOK, WireInv
<1>15. ASSUME NEW x \in Payloads, Coming(x) PROVE Coming(x)'
  <2>1. x[1] \in Emitters
    BY <1>2, Sourced
  <2>2. CASE x \in Range(wire)
    BY <1>1, <2>2 DEF Coming
  <2>3. CASE encoding[x[1]] # 0 /\ x = NextOut(x[1])
    BY <1>1, <1>3, <1>13, <2>1, <2>3 DEF Coming
  <2> QED
    BY <1>15, <2>2, <2>3 DEF Coming
<1>16. ASSUME NEW x \in Payloads', Coming(x)' PROVE (x \in Payloads /\ Coming(x)) \/ x = y
  <2>1. x[1] \in Emitters
    BY <1>5, <1>8 DEF IsPayload
  <2>2. CASE x \in Range(wire')
    BY <1>1, <1>14, <2>2 DEF Coming
  <2>3. CASE encoding'[x[1]] # 0 /\ x = NextOut(x[1])'
    <3>1. CASE x[1] = e
      BY <1>12, <2>3, <3>1
    <3>2. CASE x[1] # e
      <4>1. encoding[x[1]] # 0 /\ x = NextOut(x[1])
        BY <1>3, <1>13, <2>1, <2>3, <3>2
      <4>2. x \in Payloads
        BY <2>1, <4>1 DEF WireOK, WireInv
      <4> QED
        BY <4>1, <4>2 DEF Coming
    <3> QED
      BY <3>1, <3>2
  <2> QED
    BY <1>16, <2>2, <2>3 DEF Coming
<1>17. ASSUME NEW x \in Payloads, x[1] = e PROVE Earlier(x, y)
  <2>1. x[2] \in 1 .. n
    BY <1>2, <1>17, Sourced
  <2>2. x[2] < n + 1
    BY <1>4, <2>1
  <2> QED
    BY <1>12, <1>17, <2>2 DEF Earlier
<1>18. ASSUME NEW x \in Payloads, Gone(x) PROVE Gone(x)'
  <2> SUFFICES ASSUME NEW z \in Payloads', z[1] = x[1], Coming(z)' PROVE Earlier(x, z)
    BY DEF Gone, Earlier
  <2>1. CASE z \in Payloads /\ Coming(z)
    BY <1>18, <2>1 DEF Gone
  <2>2. CASE z = y
    BY <1>12, <1>17, <2>2
  <2> QED
    BY <1>16, <2>1, <2>2
<1>19. WireInv'
  <2>1. ~open' => wire' = <<>>
    BY <1>1 DEF WireOK, WireInv
  <2>2. Range(wire') \subseteq Payloads'
    BY <1>1, <1>10, <1>14
  <2>3. ASSUME NEW f \in Emitters, encoding'[f] # 0 PROVE NextOut(f)' \in Payloads'
    <3>1. CASE f = e
      BY <1>12, <3>1
    <3>2. CASE f # e
      <4>1. NextOut(f) \in Payloads /\ NextOut(f)' = NextOut(f)
        BY <1>3, <1>13, <2>3, <3>2 DEF WireOK, WireInv
      <4> QED
        BY <1>10, <4>1
    <3> QED
      BY <3>1, <3>2
  <2>4. ASSUME NEW i \in DOMAIN wire', NEW j \in DOMAIN wire', i < j, wire'[i][1] = wire'[j][1]
        PROVE  Earlier(wire'[i], wire'[j])
    BY <1>1, <2>4 DEF WireOK, WireInv
  <2>5. ASSUME NEW x \in Range(wire'), encoding'[x[1]] # 0 PROVE Earlier(x, NextOut(x[1])')
    <3>1. x \in Range(wire) /\ x \in Payloads /\ x[1] \in Emitters
      BY <1>1, <1>14
    <3>2. CASE x[1] = e
      BY <1>12, <1>17, <3>1, <3>2
    <3>3. CASE x[1] # e
      <4>1. encoding[x[1]] # 0 /\ NextOut(x[1])' = NextOut(x[1])
        BY <1>3, <1>13, <2>5, <3>1, <3>3
      <4> QED
        BY <3>1, <4>1 DEF WireOK, WireInv
    <3> QED
      BY <3>2, <3>3
  <2>6. ASSUME NEW x \in Range(wire'), x[3] < PayloadCount(Source(x)') PROVE Coming(Succ(x))'
    <3>1. x \in Range(wire) /\ x \in Payloads /\ x[3] < PayloadCount(Source(x))
      BY <1>1, <1>10, <1>14, <2>6
    <3>2. Coming(Succ(x)) /\ Succ(x) \in Payloads
      BY <1>2, <3>1, NextPayload DEF WireOK, WireInv
    <3> QED
      BY <1>15, <3>2
  <2> QED
    BY <2>1, <2>2, <2>3, <2>4, <2>5, <2>6 DEF WireInv, Earlier, PayloadCount, Parts, Succ
<1>20. WireOK'
  BY <1>1, <1>2, <1>3, <1>5, <1>19 DEF WireOK
<1>21. Kept
  BY <1>10, <1>18, <1>20 DEF Kept
<1>22. \A x \in Payloads' : Coming(x)' => (x \in Payloads /\ Coming(x)) \/ x[3] = 1
  BY <1>12, <1>16
<1> QED
  BY <1>3, <1>4, <1>12, <1>15, <1>21, <1>22

LEMMA Lost ==
  ASSUME WireOK, Lose
  PROVE  Kept
<1>1. UNCHANGED emitted /\ UNCHANGED encoding /\ open' = FALSE /\ wire' = <<>>
  BY DEF Lose
<1>2. EmittedOK /\ EmittedOK' /\ Payloads' = Payloads /\ \A x : Source(x)' = Source(x)
  BY <1>1, SameEmitted DEF WireOK
<1>3. \A e : NextOut(e)' = NextOut(e)
  BY <1>1 DEF NextOut
<1>4. Range(wire') = {} /\ wire' \in Seq(Emitters \X Nat \X Nat) /\ DOMAIN wire' = {}
  <2>1. Range(<<>>) = {}
    BY DEF Range
  <2> QED
    BY <1>1, <2>1
<1>5. \A x \in Payloads : Coming(x)' => Coming(x)
  BY <1>1, <1>3, <1>4 DEF Coming
<1>6. ASSUME NEW x \in Payloads, Gone(x) PROVE Gone(x)'
  BY <1>1, <1>2, <1>5, <1>6, GoneKept
<1>7. WireInv'
  <2>1. \A e \in Emitters : encoding'[e] # 0 => NextOut(e)' \in Payloads'
    BY <1>1, <1>2, <1>3 DEF WireOK, WireInv
  <2> QED
    BY <1>1, <1>4, <2>1 DEF WireInv
<1>8. WireOK'
  BY <1>1, <1>2, <1>4, <1>7 DEF WireOK
<1> QED
  BY <1>2, <1>6, <1>8 DEF Kept

LEMMA IsReset ==
  ASSUME WireOK, Reset
  PROVE  Kept
<1>1. UNCHANGED emitted /\ UNCHANGED encoding /\ UNCHANGED wire /\ open' = TRUE
  BY DEF Reset
<1>2. EmittedOK /\ EmittedOK' /\ Payloads' = Payloads /\ \A x : Source(x)' = Source(x)
  BY <1>1, SameEmitted DEF WireOK
<1>3. \A e : NextOut(e)' = NextOut(e)
  BY <1>1 DEF NextOut
<1>4. \A x : Coming(x)' <=> Coming(x)
  BY <1>1, <1>3 DEF Coming
<1>5. ASSUME NEW x \in Payloads, Gone(x) PROVE Gone(x)'
  BY <1>1, <1>2, <1>4, <1>5, GoneKept
<1>6. WireInv'
  <2>1. \A e \in Emitters : encoding'[e] # 0 => NextOut(e)' \in Payloads'
    BY <1>1, <1>2, <1>3 DEF WireOK, WireInv
  <2>2. Range(wire') \subseteq Payloads'
    BY <1>1, <1>2 DEF WireOK, WireInv
  <2>3. \A i, j \in DOMAIN wire' :
          i < j /\ wire'[i][1] = wire'[j][1] => Earlier(wire'[i], wire'[j])
    BY <1>1 DEF WireOK, WireInv
  <2>4. \A x \in Range(wire') : encoding'[x[1]] # 0 => Earlier(x, NextOut(x[1])')
    BY <1>1, <1>3 DEF WireOK, WireInv
  <2>5. \A x \in Range(wire') : x[3] < PayloadCount(Source(x)') => Coming(Succ(x))'
    BY <1>1, <1>2, <1>4 DEF WireOK, WireInv
  <2> QED
    BY <1>1, <2>1, <2>2, <2>3, <2>4, <2>5 DEF WireInv, Earlier, PayloadCount, Parts, Succ
<1>7. WireOK'
  BY <1>1, <1>2, <1>6 DEF WireOK
<1> QED
  BY <1>2, <1>5, <1>7 DEF Kept

-----------------------------------------------------------------------------
\* What becomes of a payload that is taken.

\* The packet that waits is the one whose parts come.
LEMMA WaitsForFirst ==
  ASSUME WireOK, OneSendsParts, wire # <<>>, NEW y, y = Head(wire),
         PayloadCount(Source(y)) # 1, NEW x \in Payloads, Waits(x)
  PROVE  y = Succ(x)
<1>1. /\ y \in Payloads /\ Coming(y) /\ open
      /\ \A z \in Payloads : Coming(z) /\ z[1] = y[1] /\ z # y => Earlier(y, z)
  BY HeadFirst
<1>2. EmittedOK
  BY DEF WireOK
<1>3. x[3] < PayloadCount(Source(x)) /\ Gone(x) /\ Coming(Succ(x))
  BY <1>1 DEF Waits
<1>4. PayloadCount(Source(x)) # 1
  <2>1. x[3] \in 1 .. PayloadCount(Source(x)) /\ PayloadCount(Source(x)) \in Nat
    BY <1>2, Sourced
  <2> QED
    BY <1>3, <2>1
<1>5. x[1] = y[1]
  <2>1. /\ x[1] \in Emitters /\ Source(x) \in Sendable[x[1]] /\ Parts(Source(x)) # <<>>
        /\ y[1] \in Emitters /\ Source(y) \in Sendable[y[1]] /\ Parts(Source(y)) # <<>>
    BY <1>1, <1>2, <1>4, Sourced
  <2> QED
    BY <2>1 DEF OneSendsParts
<1>6. Earlier(x, y)
  BY <1>1, <1>3, <1>5 DEF Gone
<1>7. Succ(x) \in Payloads /\ Triple(x) /\ Triple(y) /\ Succ(x)[1] = x[1]
  BY <1>1, <1>2, <1>3, NextPayload, PayloadTriple DEF Succ
<1>8. Succ(x) # y => Earlier(y, Succ(x))
  BY <1>1, <1>3, <1>5, <1>7
<1> QED
  BY <1>6, <1>7, <1>8, EarlierOrder

IsDecoded(y) ==
  /\ y[3] = PayloadCount(Source(y))
  /\ \E q : Says(q, Source(y)) /\ decoded' = Append(decoded, q)
  /\ \/ y[3] = 1 /\ UNCHANGED m_partial_packet
     \/ y[3] # 1 /\ m_partial_packet' = NoPacket

IsKept(y) ==
  /\ y[3] < PayloadCount(Source(y))
  /\ m_partial_packet' = Partial(Source(y), y[3])
  /\ UNCHANGED decoded

IsDropped(y) ==
  /\ y[3] # 1
  /\ m_partial_packet = NoPacket
  /\ UNCHANGED m_partial_packet /\ UNCHANGED decoded

LEMMA Outcome ==
  ASSUME WireOK, PartialInv, OneSendsParts, put_payload, NEW y, y = Head(wire)
  PROVE  Receive /\ (IsDecoded(y) \/ IsKept(y) \/ IsDropped(y))
<1>1. Receive /\ wire # <<>>
  BY DEF put_payload, PutText, PutBinary, Receive
<1>2. y \in Payloads /\ EmittedOK
  BY <1>1, HeadFirst DEF WireOK
<1>3. PICK p : p = Source(y)
  OBVIOUS
<1>4. /\ Encodable(p) /\ PayloadCount(p) \in Nat \ {0} /\ y[3] \in 1 .. PayloadCount(p)
  BY <1>2, <1>3, Sourced
<1>5. Received = Payload(p, y[3])
  BY <1>3 DEF Received
<1>6. CASE PutText
  <2>1. ~is_binary_message(Payload(p, y[3]))
    BY <1>5, <1>6 DEF PutText
  <2>2. y[3] = 1
    <3> SUFFICES ASSUME y[3] # 1 PROVE FALSE
      OBVIOUS
    <3>1. PICK k : k = y[3] - 1
      OBVIOUS
    <3>2. k \in 1 .. PayloadCount(p) /\ k < PayloadCount(p) /\ y[3] = k + 1
      BY <1>4, <3>1
    <3>3. is_binary_message(Payload(p, k + 1))
      BY <1>4, <3>2, PartParsed
    <3> QED
      BY <2>1, <3>2, <3>3
  <2>3. PICK q : q = parse(Payload(p, 1))
    OBVIOUS
  <2>4. IF q.buffers # <<>>
        THEN m_partial_packet' = q /\ UNCHANGED decoded
        ELSE Decode(q) /\ UNCHANGED m_partial_packet
    BY <1>5, <1>6, <2>2, <2>3 DEF PutText
  <2>5. CASE PayloadCount(p) = 1
    <3>1. q = p /\ q.buffers = <<>> /\ q.pending = 0
      BY <1>4, <2>3, <2>5, TextParsed
    <3>2. [q EXCEPT !.pending = 0] = p
      <4>1. p = Fields(p.frame, p.type, p.nsp, p.id, p.message, <<>>, 0)
        BY <1>4, EncodableIsPacket, PacketFields
      <4>2. [p EXCEPT !.pending = 0] = Fields(p.frame, p.type, p.nsp, p.id, p.message, <<>>, 0)
        BY <4>1, FieldsSet
      <4> QED
        BY <3>1, <4>1, <4>2
    <3>3. decoded' = Append(decoded, p) /\ UNCHANGED m_partial_packet
      BY <2>4, <3>1, <3>2 DEF Decode
    <3>4. Says(p, p)
      BY DEF Says
    <3> QED
      BY <1>1, <1>3, <2>2, <2>5, <3>3, <3>4 DEF IsDecoded
  <2>6. CASE PayloadCount(p) # 1
    <3>1. q = Partial(p, 1) /\ 1 \in 1 .. PayloadCount(p) /\ 1 < PayloadCount(p)
      BY <1>4, <2>3, <2>6, TextParsed
    <3>2. q.buffers # <<>>
      BY <1>4, <3>1, PartialWaits
    <3> QED
      BY <1>1, <1>3, <2>2, <2>4, <3>1, <3>2 DEF IsKept
  <2> QED
    BY <2>5, <2>6
<1>7. CASE PutBinary
  <2>1. is_binary_message(Payload(p, y[3]))
    BY <1>5, <1>7 DEF PutBinary
  <2>2. y[3] # 1
    BY <1>4, <2>1, TextParsed
  <2>3. CASE m_partial_packet = NoPacket
    BY <1>1, <1>7, <2>2, <2>3 DEF PutBinary, IsDropped
  <2>4. CASE m_partial_packet # NoPacket
    <3>1. PICK x \in Payloads : Waits(x)
      BY <2>4 DEF PartialInv
    <3>2. PayloadCount(p) # 1
      BY <1>4, <2>2
    <3>3. y = Succ(x)
      BY <1>1, <1>3, <3>1, <3>2, WaitsForFirst
    <3>4. x[3] < PayloadCount(Source(x)) /\ m_partial_packet = Partial(Source(x), x[3])
      BY <3>1 DEF Waits
    <3>5. Source(x) = p /\ y[3] = x[3] + 1 /\ x[3] \in 1 .. PayloadCount(p)
      BY <1>2, <1>3, <3>1, <3>3, <3>4, NextPayload, Sourced DEF Succ
    <3>6. PICK k : k = x[3]
      OBVIOUS
    <3>7. k \in 1 .. PayloadCount(p) /\ k < PayloadCount(p) /\ y[3] = k + 1
          /\ m_partial_packet = Partial(p, k)
      BY <3>4, <3>5, <3>6
    <3>8. PICK q : q = parse_buffer(Partial(p, k), Payload(p, k + 1)[2].val)
      OBVIOUS
    <3>9. IF q.buffers # <<>>
          THEN m_partial_packet' = q /\ UNCHANGED decoded
          ELSE m_partial_packet' = NoPacket /\ Decode(q)
      BY <1>5, <1>7, <2>4, <3>7, <3>8 DEF PutBinary
    <3>10. /\ k + 1 < PayloadCount(p) => q = Partial(p, k + 1)
           /\ k + 1 = PayloadCount(p) =>
                /\ q.buffers = <<>>
                /\ [q EXCEPT !.pending = 0] = [p EXCEPT !.type = BinaryType(p.type)]
      BY <1>4, <3>7, <3>8, PartParsed
    <3>11. k + 1 \in 1 .. PayloadCount(p) /\ (k + 1 < PayloadCount(p) \/ k + 1 = PayloadCount(p))
      BY <1>4, <3>7
    <3>12. CASE k + 1 < PayloadCount(p)
      <4>1. q = Partial(p, k + 1) /\ q.buffers # <<>>
        BY <1>4, <3>10, <3>11, <3>12, PartialWaits
      <4> QED
        BY <1>1, <1>3, <3>7, <3>9, <3>12, <4>1 DEF IsKept
    <3>13. CASE k + 1 = PayloadCount(p)
      <4>1. PICK r : r = [q EXCEPT !.pending = 0]
        OBVIOUS
      <4>2. m_partial_packet' = NoPacket /\ decoded' = Append(decoded, r)
        BY <3>9, <3>10, <3>13, <4>1 DEF Decode
      <4>3. Says(r, p)
        BY <3>10, <3>13, <4>1 DEF Says
      <4> QED
        BY <1>1, <1>3, <2>2, <3>7, <3>13, <4>2, <4>3 DEF IsDecoded
    <3> QED
      BY <3>11, <3>12, <3>13
  <2> QED
    BY <2>3, <2>4
<1> QED
  BY <1>6, <1>7 DEF put_payload

-----------------------------------------------------------------------------
\* The invariants.

LEMMA DecodedKept ==
  ASSUME DecodedInv, Kept, UNCHANGED decoded
  PROVE  DecodedInv'
<1> SUFFICES ASSUME NEW j \in DOMAIN decoded
             PROVE  \E x \in Payloads' : /\ x[3] = PayloadCount(Source(x)')
                                         /\ Says(decoded[j], Source(x)') /\ Gone(x)'
  BY DEF DecodedInv, PayloadCount, Parts, Says
<1>1. PICK x \in Payloads :
        x[3] = PayloadCount(Source(x)) /\ Says(decoded[j], Source(x)) /\ Gone(x)
  BY DEF DecodedInv
<1> QED
  BY <1>1 DEF Kept

LEMMA WaitsKept ==
  ASSUME Kept, NEW x \in Payloads, Waits(x), UNCHANGED m_partial_packet,
         open' => Coming(Succ(x))'
  PROVE  x \in Payloads' /\ Waits(x)'
<1>1. x \in Payloads' /\ Source(x)' = Source(x) /\ Gone(x)'
  BY DEF Kept, Waits
<1>2. x[3] < PayloadCount(Source(x)') /\ m_partial_packet' = Partial(Source(x)', x[3])
  BY <1>1 DEF Waits
<1> QED
  BY <1>1, <1>2 DEF Waits, PayloadCount, Parts, Partial, Succ

\* Where there is a payload to come, the packet is one that was emitted.
LEMMA TakenDecoded ==
  ASSUME WireOK, DecodedInv, decoded \in Seq(Range(decoded)), Receive,
         NEW y, y = Head(wire), IsDecoded(y)
  PROVE  DecodedInv' /\ decoded' \in Seq(Range(decoded'))
<1>1. Kept /\ y \in Payloads /\ Gone(y)'
  BY Taken
<1>2. y[3] = PayloadCount(Source(y))
  BY DEF IsDecoded
<1>3. PICK q : Says(q, Source(y)) /\ decoded' = Append(decoded, q)
  BY DEF IsDecoded
<1>4. decoded \in Seq(Range(decoded) \cup {q})
  OBVIOUS
<1>5. /\ decoded' \in Seq(Range(decoded) \cup {q}) /\ Len(decoded') = Len(decoded) + 1
      /\ Len(decoded) \in Nat
      /\ \A i \in 1 .. Len(decoded) : decoded'[i] = decoded[i]
      /\ decoded'[Len(decoded) + 1] = q
      /\ Range(decoded') = Range(decoded) \cup {q}
  <2>1. PICK S : S = Range(decoded) \cup {q}
    OBVIOUS
  <2> QED
    BY <1>3, <1>4, <2>1, RangeAppend
<1>6. DOMAIN decoded' = 1 .. Len(decoded) + 1 /\ DOMAIN decoded = 1 .. Len(decoded)
  BY <1>4, <1>5, LenProperties
<1>7. ASSUME NEW j \in DOMAIN decoded'
      PROVE  \E x \in Payloads' : /\ x[3] = PayloadCount(Source(x)')
                                  /\ Says(decoded'[j], Source(x)') /\ Gone(x)'
  <2>1. j \in 1 .. Len(decoded) \/ j = Len(decoded) + 1
    BY <1>5, <1>6
  <2>2. CASE j \in 1 .. Len(decoded)
    <3>1. PICK x \in Payloads :
            x[3] = PayloadCount(Source(x)) /\ Says(decoded[j], Source(x)) /\ Gone(x)
      BY <1>6, <2>2 DEF DecodedInv
    <3>2. decoded'[j] = decoded[j]
      BY <1>5, <2>2
    <3> QED
      BY <1>1, <3>1, <3>2 DEF Kept
  <2>3. CASE j = Len(decoded) + 1
    <3>1. decoded'[j] = q
      BY <1>5, <2>3
    <3> QED
      BY <1>1, <1>2, <1>3, <3>1 DEF Kept
  <2> QED
    BY <2>1, <2>2, <2>3
<1>8. DecodedInv'
  BY <1>7 DEF DecodedInv, PayloadCount, Parts, Says
<1> QED
  BY <1>5, <1>8

\* What the invariants say together.
Invariants ==
  /\ WireOK
  /\ losses \in 0 .. MaxLosses
  /\ decoded \in Seq(Range(decoded))
  /\ EmittedInv /\ PartialInv /\ DecodedInv

\* The packet of a payload that is kept waits for the next.
LEMMA KeptWaits ==
  ASSUME WireOK, Receive, NEW y, y = Head(wire), IsKept(y)
  PROVE  y \in Payloads' /\ Waits(y)'
<1>1. /\ Kept /\ y \in Payloads /\ Gone(y)' /\ open
      /\ \A x \in Payloads : Coming(x)' <=> Coming(x) /\ x # y
  BY Taken
<1>2. EmittedOK /\ wire # <<>>
  BY DEF WireOK, Receive
<1>3. y[3] < PayloadCount(Source(y)) /\ m_partial_packet' = Partial(Source(y), y[3])
  BY DEF IsKept
<1>4. Succ(y) \in Payloads /\ Succ(y) # y
  BY <1>1, <1>2, <1>3, NextPayload, PayloadTriple, EarlierOrder
<1>5. Coming(Succ(y))
  BY <1>2, <1>3, HeadFirst DEF WireOK, WireInv
<1>6. Coming(Succ(y))'
  BY <1>1, <1>4, <1>5
<1>7. y \in Payloads' /\ Source(y)' = Source(y)
  BY <1>1 DEF Kept
<1>8. Waits(y)'
  BY <1>1, <1>3, <1>6, <1>7 DEF Waits, PayloadCount, Parts, Partial, Succ
<1> QED
  BY <1>7, <1>8

LEMMA PartialStep ==
  ASSUME WireOK, PartialInv, OneSendsParts, Next
  PROVE  PartialInv'
<1> SUFFICES ASSUME m_partial_packet' # NoPacket
             PROVE  \E x \in Payloads' : Waits(x)'
  BY DEF PartialInv, NoPacket, Packet
<1>1. ASSUME NEW e \in Emitters, HandOver(e) PROVE \E x \in Payloads' : Waits(x)'
  <2>1. UNCHANGED m_partial_packet /\ UNCHANGED open
    BY <1>1 DEF HandOver
  <2>2. PICK x \in Payloads : Waits(x)
    BY <2>1 DEF PartialInv
  <2>3. Kept /\ (open => \A z \in Payloads : Coming(z) => Coming(z)')
    <3>1. PICK y : y = NextOut(e)
      OBVIOUS
    <3> QED
      BY <1>1, <3>1, Added
  <2>4. Succ(x) \in Payloads /\ (open => Coming(Succ(x)))
    BY <2>2, NextPayload DEF Waits, WireOK
  <2> QED
    BY <2>1, <2>2, <2>3, <2>4, WaitsKept
<1>2. ASSUME NEW e \in Emitters, NEW p \in Sendable[e], Encode(e, p)
      PROVE  \E x \in Payloads' : Waits(x)'
  <2>1. UNCHANGED m_partial_packet /\ UNCHANGED open
    BY <1>2 DEF Encode
  <2>2. PICK x \in Payloads : Waits(x)
    BY <2>1 DEF PartialInv
  <2>3. Kept /\ \A z \in Payloads : Coming(z) => Coming(z)'
    BY <1>2, Begun
  <2>4. Succ(x) \in Payloads /\ (open => Coming(Succ(x)))
    BY <2>2, NextPayload DEF Waits, WireOK
  <2> QED
    BY <2>1, <2>2, <2>3, <2>4, WaitsKept
<1>3. CASE put_payload
  <2>1. PICK y : y = Head(wire)
    OBVIOUS
  <2>2. Receive /\ (IsDecoded(y) \/ IsKept(y) \/ IsDropped(y))
    BY <1>3, <2>1, Outcome
  <2>3. /\ Kept /\ y \in Payloads /\ Gone(y)' /\ open
        /\ \A x \in Payloads : Coming(x)' <=> Coming(x) /\ x # y
    BY <2>1, <2>2, Taken
  <2>4. EmittedOK /\ wire # <<>>
    BY <2>2 DEF WireOK, Receive
  <2>5. CASE IsKept(y)
    BY <2>1, <2>2, <2>5, KeptWaits DEF WireOK
  <2>6. CASE y[3] = 1 /\ UNCHANGED m_partial_packet
    <3>1. PICK x \in Payloads : Waits(x)
      BY <2>6 DEF PartialInv
    <3>2. Succ(x) \in Payloads /\ Coming(Succ(x)) /\ x[3] \in Nat
      BY <2>3, <2>4, <3>1, NextPayload, Sourced DEF Waits
    <3>3. Succ(x) # y
      <4>1. Succ(x)[3] = x[3] + 1 /\ x[3] \in 1 .. PayloadCount(Source(x))
        BY <2>4, <3>1, Sourced DEF Succ
      <4>2. x[3] + 1 # 1
        BY <4>1
      <4> QED
        BY <2>6, <4>1, <4>2
    <3>4. Coming(Succ(x))'
      BY <2>3, <3>2, <3>3
    <3> QED
      BY <2>3, <2>6, <3>1, <3>4, WaitsKept
  <2> QED
    BY <2>2, <2>5, <2>6 DEF IsDecoded, IsDropped
<1>4. CASE Lose
  <2>1. UNCHANGED m_partial_packet /\ open' = FALSE
    BY <1>4 DEF Lose
  <2>2. PICK x \in Payloads : Waits(x)
    BY <2>1 DEF PartialInv
  <2> QED
    BY <1>4, <2>1, <2>2, Lost, WaitsKept
<1>5. CASE Reset
  BY <1>5 DEF Reset
<1>6. CASE UNCHANGED vars
  <2>1. PICK x \in Payloads : Waits(x)
    BY <1>6 DEF PartialInv, vars
  <2> QED
    BY <1>6, <2>1 DEF vars, Waits, Payloads, Source, Gone, Coming, NextOut
<1> QED
  BY <1>1, <1>2, <1>3, <1>4, <1>5, <1>6 DEF Next

\* Each packet is encoded once.
LEMMA EmittedStep ==
  ASSUME EmittedOK, EmittedInv, NEW e \in Emitters, NEW p \in Sendable[e], Encode(e, p), WireOK
  PROVE  EmittedInv'
<1>1. /\ Len(emitted'[e]) = Len(emitted[e]) + 1 /\ emitted'[e][Len(emitted[e]) + 1] = p
      /\ \A i \in 1 .. Len(emitted[e]) : emitted'[e][i] = emitted[e][i]
      /\ \A f \in Emitters \ {e} : emitted'[f] = emitted[f]
      /\ EmittedOK'
  BY Begun DEF Kept, WireOK
<1>2. p \notin Range(emitted[e])
  BY DEF Encode
<1>3. /\ DOMAIN emitted[e] = 1 .. Len(emitted[e]) /\ Len(emitted[e]) \in Nat
      /\ DOMAIN emitted'[e] = 1 .. Len(emitted[e]) + 1
  BY <1>1, LenProperties DEF EmittedOK
<1>4. \A i \in 1 .. Len(emitted[e]) : emitted[e][i] # p
  BY <1>2, <1>3 DEF Range
<1>5. ASSUME NEW f \in Emitters, NEW i \in DOMAIN emitted'[f], NEW j \in DOMAIN emitted'[f],
             emitted'[f][i] = emitted'[f][j]
      PROVE  i = j
  <2>1. CASE f # e
    BY <1>1, <1>5, <2>1 DEF EmittedInv
  <2>2. CASE f = e
    <3>1. /\ i \in 1 .. Len(emitted[e]) \/ i = Len(emitted[e]) + 1
          /\ j \in 1 .. Len(emitted[e]) \/ j = Len(emitted[e]) + 1
      BY <1>3, <2>2
    <3>2. CASE i \in 1 .. Len(emitted[e]) /\ j \in 1 .. Len(emitted[e])
      BY <1>1, <1>3, <1>5, <2>2, <3>2 DEF EmittedInv
    <3> QED
      BY <1>1, <1>4, <1>5, <2>2, <3>1, <3>2
  <2> QED
    BY <2>1, <2>2
<1> QED
  BY <1>5 DEF EmittedInv

LEMMA InvariantsInit == Init => Invariants
<1> SUFFICES ASSUME Init PROVE Invariants
  OBVIOUS
<1>1. /\ emitted = [e \in Emitters |-> <<>>] /\ encoding = [e \in Emitters |-> 0]
      /\ open = TRUE /\ wire = <<>> /\ m_partial_packet = NoPacket /\ decoded = <<>> /\ losses = 0
  BY DEF Init
<1>2. EmittedOK /\ EmittedInv
  <2>1. \A e \in Emitters : emitted[e] = <<>> /\ emitted[e] \in Seq(Sendable[e])
    BY <1>1
  <2>2. DOMAIN emitted = Emitters /\ \A e \in Emitters : DOMAIN emitted[e] = {}
    BY <1>1, <2>1
  <2> QED
    BY <2>1, <2>2 DEF EmittedOK, EmittedInv
<1>3. encoding \in [Emitters -> Nat] /\ \A e \in Emitters : encoding[e] = 0
  BY <1>1
<1>4. /\ wire \in Seq(Emitters \X Nat \X Nat) /\ decoded \in Seq(Range(decoded))
      /\ DOMAIN wire = {} /\ DOMAIN decoded = {} /\ Range(wire) = {}
  BY <1>1 DEF Range
<1>5. WireInv /\ DecodedInv /\ PartialInv
  BY <1>1, <1>3, <1>4 DEF WireInv, DecodedInv, PartialInv
<1>6. losses \in 0 .. MaxLosses
  BY <1>1, PacketAssumption
<1> QED
  BY <1>1, <1>2, <1>3, <1>4, <1>5, <1>6 DEF Invariants, WireOK

LEMMA InvariantsStep ==
  ASSUME OneSendsParts, Invariants, [Next]_vars
  PROVE  Invariants'
<1> USE DEF Invariants
<1>1. ASSUME NEW e \in Emitters, HandOver(e) PROVE Invariants'
  <2>1. UNCHANGED emitted /\ UNCHANGED losses /\ UNCHANGED decoded
    BY <1>1 DEF HandOver
  <2>2. Kept
    <3>1. PICK y : y = NextOut(e)
      OBVIOUS
    <3> QED
      BY <1>1, <3>1, Added
  <2>3. Next
    BY <1>1 DEF Next
  <2>4. PartialInv' /\ DecodedInv'
    BY <2>1, <2>2, <2>3, PartialStep, DecodedKept
  <2> QED
    BY <2>1, <2>2, <2>4 DEF Kept, EmittedInv
<1>2. ASSUME NEW e \in Emitters, NEW p \in Sendable[e], Encode(e, p) PROVE Invariants'
  <2>1. UNCHANGED losses /\ UNCHANGED decoded
    BY <1>2 DEF Encode
  <2>2. Kept
    BY <1>2, Begun
  <2>3. Next
    BY <1>2 DEF Next
  <2>4. PartialInv' /\ DecodedInv' /\ EmittedInv'
    BY <1>2, <2>1, <2>2, <2>3, PartialStep, DecodedKept, EmittedStep DEF WireOK
  <2> QED
    BY <2>1, <2>2, <2>4 DEF Kept
<1>3. CASE put_payload
  <2>1. PICK y : y = Head(wire)
    OBVIOUS
  <2>2. Receive /\ (IsDecoded(y) \/ IsKept(y) \/ IsDropped(y))
    BY <1>3, <2>1, Outcome
  <2>3. UNCHANGED emitted /\ UNCHANGED losses
    BY <2>2 DEF Receive
  <2>4. Kept
    BY <2>1, <2>2, Taken
  <2>5. Next
    BY <1>3 DEF Next
  <2>6. PartialInv'
    BY <2>5, PartialStep
  <2>7. DecodedInv' /\ decoded' \in Seq(Range(decoded'))
    <3>1. CASE IsDecoded(y)
      BY <2>1, <2>2, <3>1, TakenDecoded
    <3>2. CASE UNCHANGED decoded
      BY <2>4, <3>2, DecodedKept
    <3> QED
      BY <2>2, <3>1, <3>2 DEF IsKept, IsDropped
  <2> QED
    BY <2>3, <2>4, <2>6, <2>7 DEF Kept, EmittedInv
<1>4. CASE Lose
  <2>1. /\ UNCHANGED emitted /\ UNCHANGED decoded
        /\ losses < MaxLosses /\ losses' = losses + 1
    BY <1>4 DEF Lose
  <2>2. losses' \in 0 .. MaxLosses
    BY <2>1, PacketAssumption
  <2>3. Next
    BY <1>4 DEF Next
  <2>4. Kept
    BY <1>4, Lost
  <2>5. PartialInv' /\ DecodedInv'
    BY <2>1, <2>3, <2>4, PartialStep, DecodedKept
  <2> QED
    BY <2>1, <2>2, <2>4, <2>5 DEF Kept, EmittedInv
<1>5. CASE Reset
  <2>1. UNCHANGED emitted /\ UNCHANGED decoded /\ UNCHANGED losses
    BY <1>5 DEF Reset
  <2>2. Kept
    BY <1>5, IsReset
  <2>3. Next
    BY <1>5 DEF Next
  <2>4. PartialInv' /\ DecodedInv'
    BY <2>1, <2>2, <2>3, PartialStep, DecodedKept
  <2> QED
    BY <2>1, <2>2, <2>4 DEF Kept, EmittedInv
<1>6. CASE UNCHANGED vars
  BY <1>6 DEF vars, WireOK, EmittedOK, WireInv, EmittedInv, PartialInv, DecodedInv, Waits,
              Payloads, Source, Gone, Coming, NextOut
<1> QED
  BY <1>1, <1>2, <1>3, <1>4, <1>5, <1>6 DEF Next

LEMMA InvariantsHold == OneSendsParts => (Spec => []Invariants)
<1>1. OneSendsParts /\ Invariants /\ [Next]_vars => Invariants'
  BY InvariantsStep
<1>2. SUFFICES ASSUME OneSendsParts PROVE Spec => []Invariants
  OBVIOUS
<1> QED
  BY <1>1, <1>2, InvariantsInit, PTL DEF Spec

-----------------------------------------------------------------------------
\* Types, whichever threads send parts.

\* A packet that waits has parts, and one at least is to come.
PartialTyped ==
  m_partial_packet # NoPacket =>
    \E f, type, nsp, id, msg, b, n :
      /\ m_partial_packet = Fields(f, type, nsp, id, msg, b, n)
      /\ type \in HasParts /\ n \in Nat \ {0}

LEMMA PartialTypedStep ==
  ASSUME WireOK, PartialTyped, [Next]_vars
  PROVE  PartialTyped'
<1> SUFFICES ASSUME m_partial_packet' # NoPacket
             PROVE  \E f, type, nsp, id, msg, b, n :
                      /\ m_partial_packet' = Fields(f, type, nsp, id, msg, b, n)
                      /\ type \in HasParts /\ n \in Nat \ {0}
  BY DEF PartialTyped, NoPacket, Packet, Fields, HasParts
<1>1. CASE UNCHANGED m_partial_packet
  BY <1>1 DEF PartialTyped
<1>2. ASSUME PutText, m_partial_packet' # m_partial_packet
      PROVE  \E f, type, nsp, id, msg, b, n :
               /\ m_partial_packet' = Fields(f, type, nsp, id, msg, b, n)
               /\ type \in HasParts /\ n \in Nat \ {0}
  <2>1. PICK y : y = Head(wire)
    OBVIOUS
  <2>2. PICK p : p = Source(y)
    OBVIOUS
  <2>3. Receive /\ y \in Payloads /\ EmittedOK
    BY <1>2, <2>1, HeadFirst DEF PutText, Receive, WireOK
  <2>4. /\ Encodable(p) /\ PayloadCount(p) \in Nat \ {0} /\ y[3] \in 1 .. PayloadCount(p)
    BY <2>2, <2>3, Sourced
  <2>5. Received = Payload(p, y[3])
    BY <2>1, <2>2 DEF Received
  <2>6. ~is_binary_message(Payload(p, y[3]))
    BY <1>2, <2>5 DEF PutText
  <2>7. y[3] = 1
    <3> SUFFICES ASSUME y[3] # 1 PROVE FALSE
      OBVIOUS
    <3>1. PICK k : k = y[3] - 1
      OBVIOUS
    <3>2. k \in 1 .. PayloadCount(p) /\ k < PayloadCount(p) /\ y[3] = k + 1
      BY <2>4, <3>1
    <3>3. is_binary_message(Payload(p, k + 1))
      BY <2>4, <3>2, PartParsed
    <3> QED
      BY <2>6, <3>2, <3>3
  <2>8. PICK q : q = parse(Payload(p, 1))
    OBVIOUS
  <2>9. q.buffers # <<>> /\ m_partial_packet' = q
    BY <1>2, <2>5, <2>7, <2>8 DEF PutText
  <2>10. PayloadCount(p) # 1 /\ q = Partial(p, 1)
    BY <2>4, <2>8, <2>9, TextParsed
  <2>11. Count(p) \in Nat /\ PayloadCount(p) = 1 + Count(p) /\ Parts(p) # <<>>
    BY <2>4, <2>10, PartsAre
  <2>12. PICK n : n = Count(p) - (1 - 1)
    OBVIOUS
  <2>13. n \in Nat \ {0}
    BY <2>10, <2>11, <2>12
  <2>14. BinaryType(p.type) \in HasParts
    BY <2>4, <2>11, PartsAre
  <2>15. q = Fields("4", BinaryType(p.type), p.nsp, p.id, NoMessage, Filled(p, 1 - 1), n)
    BY <2>10, <2>12, PartialIs
  <2> QED
    BY <2>9, <2>13, <2>14, <2>15
<1>3. ASSUME PutBinary, m_partial_packet' # m_partial_packet
      PROVE  \E f, type, nsp, id, msg, b, n :
               /\ m_partial_packet' = Fields(f, type, nsp, id, msg, b, n)
               /\ type \in HasParts /\ n \in Nat \ {0}
  <2>1. m_partial_packet # NoPacket
    BY <1>3 DEF PutBinary
  <2>2. PICK f, type, nsp, id, msg, b, n :
          /\ m_partial_packet = Fields(f, type, nsp, id, msg, b, n)
          /\ type \in HasParts /\ n \in Nat \ {0}
    BY <2>1 DEF PartialTyped
  <2>3. PICK w, d : w = m_partial_packet /\ d = Received[2].val
    OBVIOUS
  <2>4. PICK q : q = parse_buffer(w, d)
    OBVIOUS
  <2>5. q.buffers # <<>> /\ m_partial_packet' = q
    BY <1>3, <2>1, <2>3, <2>4 DEF PutBinary
  <2>6. w.buffers = b /\ w.pending = n
    BY <2>2, <2>3 DEF Fields
  <2>7. PICK c, m : c = Append(b, d) /\ m = n - 1
    OBVIOUS
  <2>8. [w EXCEPT !.buffers = Append(@, d), !.pending = @ - 1] =
          [w EXCEPT !.buffers = c, !.pending = m]
    BY <2>6, <2>7
  <2>9. [w EXCEPT !.buffers = c, !.pending = m] = Fields(f, type, nsp, id, msg, c, m)
    <3>1. PICK v : v = [w EXCEPT !.buffers = c]
      OBVIOUS
    <3>2. v = Fields(f, type, nsp, id, msg, c, n)
      BY <2>2, <2>3, <3>1, FieldsSet
    <3>3. [v EXCEPT !.pending = m] = Fields(f, type, nsp, id, msg, c, m)
      BY <3>2, FieldsSet
    <3> QED
      BY <3>1, <3>3, TwoFieldsSet
  <2>10. PICK r : r = Fields(f, type, nsp, id, msg, c, m)
    OBVIOUS
  <2>11. r.pending = m
    BY <2>10 DEF Fields
  <2>12. q = IF r.pending > 0 THEN r
             ELSE [r EXCEPT !.message = FromJson(Head(r.buffers), Tail(r.buffers)),
                            !.buffers = <<>>]
    <3>1. [w EXCEPT !.buffers = Append(@, d), !.pending = @ - 1] = r
      BY <2>8, <2>9, <2>10
    <3>2. q = OneMore(r)
      BY <2>4, <3>1, BufferParsed
    <3> QED
      BY <3>2 DEF OneMore
  <2>13. CASE m > 0
    <3>1. m \in Nat \ {0} /\ q = r
      BY <2>2, <2>7, <2>11, <2>12, <2>13
    <3> QED
      BY <2>2, <2>5, <2>10, <3>1
  <2>14. CASE ~(m > 0)
    <3>1. PICK g : g = FromJson(Head(r.buffers), Tail(r.buffers))
      OBVIOUS
    <3>2. q = [r EXCEPT !.message = g, !.buffers = <<>>]
      BY <2>11, <2>12, <2>14, <3>1
    <3>3. PICK v : v = [r EXCEPT !.message = g]
      OBVIOUS
    <3>4. v = Fields(f, type, nsp, id, g, c, m)
      BY <2>10, <3>3, FieldsSet
    <3>5. [v EXCEPT !.buffers = <<>>] = Fields(f, type, nsp, id, g, <<>>, m)
      BY <3>4, FieldsSet
    <3>6. q = [v EXCEPT !.buffers = <<>>]
      BY <3>2, <3>3
    <3>7. q.buffers = <<>>
      BY <3>5, <3>6 DEF Fields
    <3> QED
      BY <2>5, <3>7
  <2> QED
    BY <2>13, <2>14
<1>4. CASE Reset
  BY <1>4 DEF Reset
<1>5. \/ UNCHANGED m_partial_packet
      \/ PutText /\ m_partial_packet' # m_partial_packet
      \/ PutBinary /\ m_partial_packet' # m_partial_packet
      \/ Reset
  BY DEF Next, HandOver, Encode, put_payload, Lose, vars
<1> QED
  BY <1>1, <1>2, <1>3, <1>4, <1>5

(***************************************************************************)
(* Whatever threads encode and however often the connection is lost, every *)
(* payload on the wire is one of a packet that was encoded, and the packet *)
(* that put_payload keeps is one with parts of which some are missing.     *)
(***************************************************************************)
THEOREM TypeCorrect == Spec => []TypeOK
<1> DEFINE Inv == WireOK /\ PartialTyped /\ losses \in 0 .. MaxLosses
<1>1. Init => Inv
  <2> SUFFICES ASSUME Init PROVE Inv
    OBVIOUS
  <2>1. WireOK /\ losses \in 0 .. MaxLosses
    BY InvariantsInit DEF Invariants
  <2>2. PartialTyped
    BY DEF Init, PartialTyped
  <2> QED
    BY <2>1, <2>2
<1>2. Inv /\ [Next]_vars => Inv'
  <2> SUFFICES ASSUME Inv, [Next]_vars PROVE Inv'
    OBVIOUS
  <2>1. PartialTyped'
    BY PartialTypedStep
  <2>2. WireOK'
    <3>1. ASSUME NEW e \in Emitters, HandOver(e) PROVE WireOK'
      <4>1. PICK y : y = NextOut(e)
        OBVIOUS
      <4> QED
        BY <3>1, <4>1, Added DEF Kept
    <3>2. ASSUME NEW e \in Emitters, NEW p \in Sendable[e], Encode(e, p) PROVE WireOK'
      BY <3>2, Begun DEF Kept
    <3>3. ASSUME Receive PROVE WireOK'
      <4>1. PICK y : y = Head(wire)
        OBVIOUS
      <4> QED
        BY <3>3, <4>1, Taken DEF Kept
    <3>4. CASE Lose
      BY <3>4, Lost DEF Kept
    <3>5. CASE Reset
      BY <3>5, IsReset DEF Kept
    <3>6. CASE UNCHANGED vars
      BY <3>6 DEF vars, WireOK, EmittedOK, WireInv, Payloads, Source, Coming, NextOut
    <3> QED
      BY <3>1, <3>2, <3>3, <3>4, <3>5, <3>6 DEF Next, put_payload, PutText, PutBinary
  <2>3. losses' \in 0 .. MaxLosses
    <3>1. losses' = losses \/ (losses < MaxLosses /\ losses' = losses + 1)
      BY DEF Next, HandOver, Encode, put_payload, PutText, PutBinary, Receive, Lose, Reset, vars
    <3> QED
      BY <3>1, PacketAssumption
  <2> QED
    BY <2>1, <2>2, <2>3
<1>3. Inv => TypeOK
  <2> SUFFICES ASSUME Inv PROVE TypeOK
    OBVIOUS
  <2>1. m_partial_packet # NoPacket =>
          m_partial_packet.type \in HasParts /\ m_partial_packet.pending > 0
    <3> SUFFICES ASSUME m_partial_packet # NoPacket
                 PROVE  m_partial_packet.type \in HasParts /\ m_partial_packet.pending > 0
      OBVIOUS
    <3>1. PICK f, type, nsp, id, msg, b, n :
            /\ m_partial_packet = Fields(f, type, nsp, id, msg, b, n)
            /\ type \in HasParts /\ n \in Nat \ {0}
      BY DEF PartialTyped
    <3>2. m_partial_packet.type = type /\ m_partial_packet.pending = n
      BY <3>1 DEF Fields
    <3>3. n > 0
      BY <3>1
    <3> QED
      BY <3>1, <3>2, <3>3
  <2> QED
    BY <2>1 DEF WireOK, EmittedOK, TypeOK
<1> QED
  BY <1>1, <1>2, <1>3, PTL DEF Spec

-----------------------------------------------------------------------------
\* Theorems.

(***************************************************************************)
(* What put_payload makes is what some encode was given, whichever         *)
(* payloads lost connections took away and whatever texts come between the *)
(* parts of a packet, if one thread only sends parts.                      *)
(***************************************************************************)
THEOREM PartsMeetTheirPacket ==
  ASSUME OneSendsParts
  PROVE  Spec => []DecodedWasEmitted
<1>1. Spec => []Invariants
  BY InvariantsHold
<1>2. Invariants => DecodedWasEmitted
  <2> SUFFICES ASSUME Invariants, NEW i \in DOMAIN decoded
               PROVE  \E e \in Emitters : \E p \in Range(emitted[e]) : Says(decoded[i], p)
    BY DEF DecodedWasEmitted
  <2>1. PICK x \in Payloads : Says(decoded[i], Source(x))
    BY DEF Invariants, DecodedInv
  <2>2. /\ x[1] \in Emitters /\ x[2] \in 1 .. Len(emitted[x[1]])
        /\ Source(x) = emitted[x[1]][x[2]]
        /\ emitted[x[1]] \in Seq(Sendable[x[1]])
    BY <2>1, Sourced DEF Invariants, WireOK, EmittedOK
  <2>3. Source(x) \in Range(emitted[x[1]])
    BY <2>2, LenProperties DEF Range
  <2> QED
    BY <2>1, <2>2, <2>3
<1> QED
  BY <1>1, <1>2, PTL

\* A packet that was decoded is one that was emitted, and one only.
LEMMA SaysSource ==
  ASSUME EmittedOK, EmittedInv, NEW x \in Payloads, NEW q, Says(q, Source(x)),
         NEW e \in Emitters, NEW k \in 1 .. Len(emitted[e]), Says(q, emitted[e][k])
  PROVE  x[1] = e /\ x[2] = k
<1>1. /\ x[1] \in Emitters /\ x[2] \in 1 .. Len(emitted[x[1]])
      /\ Source(x) = emitted[x[1]][x[2]]
      /\ Source(x) \in Sendable[x[1]] /\ Encodable(Source(x))
  BY Sourced
<1>2. Encodable(emitted[e][k]) /\ emitted[e][k] \in Sendable[e]
  BY PayloadIs
<1>3. Source(x) = emitted[e][k]
  BY <1>1, <1>2, SaysOne
<1>4. x[1] = e
  BY <1>1, <1>2, <1>3, PacketAssumption
<1>5. DOMAIN emitted[e] = 1 .. Len(emitted[e])
  BY LenProperties DEF EmittedOK
<1>6. x[2] = k
  BY <1>1, <1>3, <1>4, <1>5 DEF EmittedInv
<1> QED
  BY <1>4, <1>6

\* What was decoded is before what is decoded next.
LEMMA OrderStep ==
  ASSUME Invariants, DecodedInOrder, Receive, NEW y, y = Head(wire), IsDecoded(y)
  PROVE  DecodedInOrder'
<1>1. /\ y \in Payloads /\ Coming(y) /\ UNCHANGED emitted
  BY Taken DEF Invariants, Receive
<1>2. EmittedOK /\ EmittedInv
  BY DEF Invariants, WireOK
<1>3. PICK q : Says(q, Source(y)) /\ decoded' = Append(decoded, q)
  BY DEF IsDecoded
<1>4. /\ Len(decoded) \in Nat /\ DOMAIN decoded = 1 .. Len(decoded)
      /\ DOMAIN decoded' = 1 .. Len(decoded) + 1
      /\ \A i \in 1 .. Len(decoded) : decoded'[i] = decoded[i]
      /\ decoded'[Len(decoded) + 1] = q
  <2>1. PICK S : S = Range(decoded) \cup {q}
    OBVIOUS
  <2>2. decoded \in Seq(S) /\ q \in S
    BY <2>1 DEF Invariants
  <2> QED
    BY <1>3, <2>2, RangeAppend, LenProperties
<1>5. \A e \in Emitters : DOMAIN emitted[e] = 1 .. Len(emitted[e])
  BY <1>2, LenProperties DEF EmittedOK
<1>6. SUFFICES ASSUME NEW e \in Emitters,
                      NEW i \in DOMAIN decoded', NEW j \in DOMAIN decoded',
                      NEW k \in DOMAIN emitted[e], NEW l \in DOMAIN emitted[e],
                      i < j, Says(decoded'[i], emitted[e][k]), Says(decoded'[j], emitted[e][l])
               PROVE  k < l
  BY <1>1 DEF DecodedInOrder, Says
<1>7. i \in 1 .. Len(decoded) /\ (j \in 1 .. Len(decoded) \/ j = Len(decoded) + 1)
  <2>1. Len(decoded) \in Nat /\ i \in 1 .. Len(decoded) + 1 /\ j \in 1 .. Len(decoded) + 1 /\ i < j
    BY <1>4, <1>6
  <2> QED
    BY <2>1
<1>8. decoded'[i] = decoded[i]
  BY <1>4, <1>7
<1>9. CASE j \in 1 .. Len(decoded)
  <2>1. decoded'[j] = decoded[j]
    BY <1>4, <1>9
  <2> QED
    BY <1>4, <1>6, <1>7, <1>8, <1>9, <2>1 DEF DecodedInOrder
<1>10. CASE j = Len(decoded) + 1
  <2>1. PICK x \in Payloads :
          x[3] = PayloadCount(Source(x)) /\ Says(decoded[i], Source(x)) /\ Gone(x)
    BY <1>4, <1>7 DEF Invariants, DecodedInv
  <2>2. k \in 1 .. Len(emitted[e]) /\ l \in 1 .. Len(emitted[e])
    BY <1>5
  <2>3. x[1] = e /\ x[2] = k
    BY <1>2, <1>6, <1>8, <2>1, <2>2, SaysSource
  <2>4. y[1] = e /\ y[2] = l
    <3>1. decoded'[j] = q
      BY <1>4, <1>10
    <3> QED
      BY <1>1, <1>2, <1>3, <1>6, <2>2, <3>1, SaysSource
  <2>5. Earlier(x, y)
    BY <1>1, <2>1, <2>3, <2>4 DEF Gone
  <2>6. k # l
    <3> SUFFICES ASSUME k = l PROVE FALSE
      OBVIOUS
    <3>1. Source(x) = Source(y)
      BY <2>3, <2>4 DEF Source
    <3>2. /\ y[3] \in 1 .. PayloadCount(Source(x)) /\ PayloadCount(Source(x)) \in Nat
      BY <1>1, <1>2, <3>1, Sourced
    <3>3. ~(x[3] < y[3])
      BY <2>1, <3>2
    <3>4. k \in Nat /\ ~(x[2] < y[2])
      BY <2>2, <2>3, <2>4
    <3> QED
      BY <2>5, <3>3, <3>4 DEF Earlier
  <2> QED
    BY <2>3, <2>4, <2>5, <2>6 DEF Earlier
<1> QED
  BY <1>7, <1>9, <1>10

\* Nothing else is decoded.
LEMMA OrderEmitted ==
  ASSUME Invariants, DecodedInOrder, NEW e \in Emitters, NEW p \in Sendable[e], Encode(e, p),
         EmittedInv'
  PROVE  DecodedInOrder'
<1>1. /\ Len(emitted'[e]) = Len(emitted[e]) + 1 /\ emitted'[e][Len(emitted[e]) + 1] = p
      /\ \A i \in 1 .. Len(emitted[e]) : emitted'[e][i] = emitted[e][i]
      /\ \A f \in Emitters \ {e} : emitted'[f] = emitted[f]
      /\ EmittedOK'
  BY Begun DEF Invariants, Kept, WireOK
<1>2. EmittedOK /\ EmittedInv /\ UNCHANGED decoded
  BY DEF Invariants, WireOK, Encode
<1>3. \A f \in Emitters : /\ DOMAIN emitted[f] = 1 .. Len(emitted[f])
                          /\ DOMAIN emitted'[f] = 1 .. Len(emitted'[f])
                          /\ Len(emitted[f]) \in Nat
  BY <1>1, <1>2, LenProperties DEF EmittedOK
<1>4. p \notin Range(emitted[e]) /\ Encodable(p)
  BY PacketAssumption DEF Encode
<1>5. ASSUME NEW f \in Emitters, NEW i \in DOMAIN decoded, NEW k \in DOMAIN emitted'[f],
             Says(decoded[i], emitted'[f][k])
      PROVE  k \in DOMAIN emitted[f] /\ emitted'[f][k] = emitted[f][k]
  <2>1. CASE f # e
    BY <1>1, <2>1
  <2>2. CASE f = e
    <3>1. k \in 1 .. Len(emitted[e]) \/ k = Len(emitted[e]) + 1
      <4>1. k \in 1 .. Len(emitted[e]) + 1 /\ Len(emitted[e]) \in Nat
        BY <1>1, <1>3, <2>2
      <4> QED
        BY <4>1
    <3>2. k # Len(emitted[e]) + 1
      <4> SUFFICES ASSUME k = Len(emitted[e]) + 1 PROVE FALSE
        OBVIOUS
      <4>1. Says(decoded[i], p)
        BY <1>1, <1>5, <2>2
      <4>2. PICK x \in Payloads : Says(decoded[i], Source(x))
        BY DEF Invariants, DecodedInv
      <4>3. /\ x[1] \in Emitters /\ x[2] \in 1 .. Len(emitted[x[1]])
            /\ Source(x) = emitted[x[1]][x[2]]
            /\ Source(x) \in Sendable[x[1]] /\ Encodable(Source(x))
        BY <1>2, <4>2, Sourced
      <4>4. Source(x) = p
        BY <1>4, <4>1, <4>2, <4>3, SaysOne
      <4>5. x[1] = e
        BY <4>3, <4>4, PacketAssumption
      <4>6. p \in Range(emitted[e])
        BY <1>3, <4>3, <4>4, <4>5 DEF Range
      <4> QED
        BY <1>4, <4>6
    <3> QED
      BY <1>1, <1>3, <2>2, <3>1, <3>2
  <2> QED
    BY <2>1, <2>2
<1>6. SUFFICES ASSUME NEW f \in Emitters,
                      NEW i \in DOMAIN decoded, NEW j \in DOMAIN decoded,
                      NEW k \in DOMAIN emitted'[f], NEW l \in DOMAIN emitted'[f],
                      i < j, Says(decoded[i], emitted'[f][k]), Says(decoded[j], emitted'[f][l])
               PROVE  k < l
  BY <1>2 DEF DecodedInOrder, Says
<1>7. /\ k \in DOMAIN emitted[f] /\ emitted'[f][k] = emitted[f][k]
      /\ l \in DOMAIN emitted[f] /\ emitted'[f][l] = emitted[f][l]
  BY <1>5, <1>6
<1> QED
  BY <1>6, <1>7 DEF DecodedInOrder

(***************************************************************************)
(* The packets of one thread are decoded in the order in which it encoded  *)
(* them, and none of them twice, if one thread only sends parts.           *)
(***************************************************************************)
THEOREM PacketsKeepTheirOrder ==
  ASSUME OneSendsParts
  PROVE  Spec => []DecodedInOrder
<1>1. Spec => []Invariants
  BY InvariantsHold
<1>2. Init => DecodedInOrder
  <2>1. DOMAIN <<>> = {}
    OBVIOUS
  <2> QED
    BY <2>1 DEF Init, DecodedInOrder
<1>3. Invariants /\ Invariants' /\ DecodedInOrder /\ [Next]_vars => DecodedInOrder'
  <2> SUFFICES ASSUME Invariants, Invariants', DecodedInOrder, [Next]_vars PROVE DecodedInOrder'
    OBVIOUS
  <2>1. CASE put_payload
    <3>1. PICK y : y = Head(wire)
      OBVIOUS
    <3>2. Receive /\ (IsDecoded(y) \/ IsKept(y) \/ IsDropped(y))
      BY <2>1, <3>1, Outcome DEF Invariants
    <3>3. CASE IsDecoded(y)
      BY <3>1, <3>2, <3>3, OrderStep
    <3>4. CASE UNCHANGED decoded
      BY <3>2, <3>4 DEF Receive, DecodedInOrder
    <3> QED
      BY <3>2, <3>3, <3>4 DEF IsKept, IsDropped
  <2>2. ASSUME NEW e \in Emitters, NEW p \in Sendable[e], Encode(e, p) PROVE DecodedInOrder'
    BY <2>2, OrderEmitted DEF Invariants
  <2>3. CASE UNCHANGED emitted /\ UNCHANGED decoded
    BY <2>3 DEF DecodedInOrder
  <2> QED
    BY <2>1, <2>2, <2>3 DEF Next, HandOver, Lose, Reset, vars
<1> QED
  BY <1>1, <1>2, <1>3, PTL DEF Spec

-----------------------------------------------------------------------------
\* Nothing is lost with no connection.

\* No part comes but after the payload before it.
NoPartAlone ==
  \A y \in Payloads : Coming(y) /\ y[3] > 1 =>
    \E x \in Payloads : y = Succ(x) /\ (Coming(x) \/ Waits(x))

\* The i-th packet of e is decoded, or there is something of it to come.
Arrives(e, i) ==
  \/ \E j \in DOMAIN decoded : Says(decoded[j], emitted[e][i])
  \/ \E x \in Payloads : x[1] = e /\ x[2] = i /\ Coming(x)

AllArrive == \A e \in Emitters : \A i \in DOMAIN emitted[e] : Arrives(e, i)

LEMMA NoLossIs == NoLossInv <=> (losses = 0 => open /\ NoPartAlone /\ AllArrive)
  BY DEF NoLossInv, NoPartAlone, AllArrive, Arrives

\* A part follows the payload that it followed, when none is taken.
LEMMA PartsFollow ==
  ASSUME Kept, NoPartAlone, UNCHANGED m_partial_packet,
         \A x \in Payloads : Coming(x) => Coming(x)',
         NEW y \in Payloads, Coming(y), y[3] > 1
  PROVE  \E x \in Payloads' : y = Succ(x) /\ (Coming(x)' \/ Waits(x)')
<1>1. PICK x \in Payloads : y = Succ(x) /\ (Coming(x) \/ Waits(x))
  BY DEF NoPartAlone
<1>2. x \in Payloads' /\ Coming(y)'
  BY <1>1 DEF Kept
<1>3. CASE Coming(x)
  BY <1>1, <1>2, <1>3
<1>4. CASE Waits(x)
  BY <1>1, <1>2, <1>4, WaitsKept
<1> QED
  BY <1>1, <1>3, <1>4

LEMMA NoLossHandOver ==
  ASSUME WireOK, open, NoPartAlone, AllArrive, NEW e \in Emitters, HandOver(e)
  PROVE  NoPartAlone' /\ AllArrive'
<1>1. PICK y : y = NextOut(e)
  OBVIOUS
<1>2. /\ Kept /\ UNCHANGED emitted /\ y \in Payloads /\ Coming(y)
      /\ \A x \in Payloads : Coming(x)' => Coming(x) \/ x = Succ(y)
      /\ \A x \in Payloads : Coming(x) => Coming(x)'
  BY <1>1, Added
<1>3. UNCHANGED m_partial_packet /\ UNCHANGED decoded
  BY DEF HandOver
<1>4. Payloads' = Payloads
  BY <1>2, SameEmitted DEF WireOK
<1>5. NoPartAlone'
  <2> SUFFICES ASSUME NEW z \in Payloads, Coming(z)', z[3] > 1
               PROVE  \E x \in Payloads' : z = Succ(x) /\ (Coming(x)' \/ Waits(x)')
    BY <1>4 DEF NoPartAlone, Succ
  <2>1. CASE Coming(z)
    BY <1>2, <1>3, <2>1, PartsFollow
  <2>2. CASE z = Succ(y)
    BY <1>2, <1>4, <2>2
  <2> QED
    BY <1>2, <2>1, <2>2
<1>6. AllArrive'
  BY <1>2, <1>3, <1>4 DEF AllArrive, Arrives
<1> QED
  BY <1>5, <1>6

LEMMA NoLossEncode ==
  ASSUME WireOK, NoPartAlone, AllArrive,
         NEW e \in Emitters, NEW p \in Sendable[e], Encode(e, p)
  PROVE  NoPartAlone' /\ AllArrive'
<1> DEFINE n == Len(emitted[e])
<1>1. /\ Kept
      /\ \A x \in Payloads : Coming(x) => Coming(x)'
      /\ \A x \in Payloads' : Coming(x)' => (x \in Payloads /\ Coming(x)) \/ x[3] = 1
      /\ Len(emitted'[e]) = n + 1
      /\ \A i \in 1 .. n : emitted'[e][i] = emitted[e][i]
      /\ \A f \in Emitters \ {e} : emitted'[f] = emitted[f]
      /\ \E x \in Payloads' : x[1] = e /\ x[2] = n + 1 /\ Coming(x)'
  BY Begun
<1>2. UNCHANGED m_partial_packet /\ UNCHANGED decoded
  BY DEF Encode
<1>3. EmittedOK /\ EmittedOK'
  BY <1>1 DEF Kept, WireOK
<1>4. /\ DOMAIN emitted[e] = 1 .. n /\ n \in Nat
      /\ DOMAIN emitted'[e] = 1 .. n + 1
  BY <1>1, <1>3, LenProperties DEF EmittedOK
<1>5. NoPartAlone'
  <2> SUFFICES ASSUME NEW z \in Payloads', Coming(z)', z[3] > 1
               PROVE  \E x \in Payloads' : z = Succ(x) /\ (Coming(x)' \/ Waits(x)')
    BY DEF NoPartAlone, Succ
  <2>1. z \in Payloads /\ Coming(z)
    BY <1>1
  <2> QED
    BY <1>1, <1>2, <2>1, PartsFollow
<1>6. ASSUME NEW f \in Emitters, NEW i \in DOMAIN emitted'[f] PROVE Arrives(f, i)'
  <2>1. CASE f = e /\ i = n + 1
    BY <1>1, <2>1 DEF Arrives
  <2>2. CASE ~(f = e /\ i = n + 1)
    <3>1. i \in DOMAIN emitted[f] /\ emitted'[f][i] = emitted[f][i]
      BY <1>1, <1>4, <2>2
    <3>2. Arrives(f, i)
      BY <3>1 DEF AllArrive
    <3> QED
      BY <1>1, <1>2, <3>1, <3>2 DEF Arrives, Kept
  <2> QED
    BY <2>1, <2>2
<1> QED
  BY <1>5, <1>6 DEF AllArrive, Arrives

\* A part is not dropped.
LEMMA NotDropped ==
  ASSUME WireOK, NoPartAlone, Receive, NEW y, y = Head(wire)
  PROVE  ~IsDropped(y)
<1> SUFFICES ASSUME y[3] # 1, m_partial_packet = NoPacket PROVE FALSE
  BY DEF IsDropped
<1>1. /\ y \in Payloads /\ Coming(y) /\ EmittedOK /\ wire # <<>>
      /\ \A z \in Payloads : Coming(z) /\ z[1] = y[1] /\ z # y => Earlier(y, z)
  BY HeadFirst DEF WireOK, Receive
<1>2. y[3] > 1
  <2>1. y[3] \in 1 .. PayloadCount(Source(y)) /\ PayloadCount(Source(y)) \in Nat
    BY <1>1, Sourced
  <2> QED
    BY <2>1
<1>3. PICK x \in Payloads : y = Succ(x) /\ (Coming(x) \/ Waits(x))
  BY <1>1, <1>2 DEF NoPartAlone
<1>4. /\ Triple(x) /\ Triple(y)
      /\ Earlier(x, y) /\ ~(Earlier(x, y) /\ Earlier(y, x)) /\ y # x /\ y[1] = x[1]
  BY <1>1, <1>3, PayloadTriple, EarlierOrder
<1>5. CASE Coming(x)
  BY <1>1, <1>3, <1>4, <1>5
<1>6. CASE Waits(x)
  <2>1. /\ Encodable(Source(x)) /\ x[3] \in 1 .. PayloadCount(Source(x))
        /\ x[3] < PayloadCount(Source(x)) /\ m_partial_packet = Partial(Source(x), x[3])
    BY <1>1, <1>3, <1>6, Sourced DEF Waits
  <2>2. Partial(Source(x), x[3]) # NoPacket
    BY <2>1, PartialWaits
  <2> QED
    BY <2>1, <2>2
<1> QED
  BY <1>3, <1>5, <1>6

\* The last payload of a packet has none after it.
LEMMA LastPayload ==
  ASSUME EmittedOK, NEW x \in Payloads, x[3] = PayloadCount(Source(x))
  PROVE  Succ(x) \notin Payloads
<1> SUFFICES ASSUME Succ(x) \in Payloads PROVE FALSE
  OBVIOUS
<1>1. PICK z : z = Succ(x)
  OBVIOUS
<1>2. z[1] = x[1] /\ z[2] = x[2] /\ z[3] = x[3] + 1
  BY <1>1 DEF Succ
<1>3. PICK c : c = PayloadCount(Source(x))
  OBVIOUS
<1>4. z[3] \in 1 .. c /\ c \in Nat
  <2>1. z \in Payloads /\ Source(z) = Source(x)
    BY <1>1, <1>2 DEF Source
  <2> QED
    BY <1>3, <2>1, Sourced
<1> QED
  BY <1>2, <1>3, <1>4

LEMMA NoPartAloneTaken ==
  ASSUME WireOK, OneSendsParts, NoPartAlone, Receive, NEW y, y = Head(wire),
         IsDecoded(y) \/ IsKept(y)
  PROVE  NoPartAlone'
<1>1. /\ Kept /\ y \in Payloads /\ EmittedOK /\ wire # <<>> /\ UNCHANGED emitted
      /\ \A x \in Payloads : Coming(x)' <=> Coming(x) /\ x # y
  BY Taken DEF WireOK, Receive
<1>2. Payloads' = Payloads
  BY <1>1, SameEmitted
<1> SUFFICES ASSUME NEW z \in Payloads, Coming(z)', z[3] > 1
             PROVE  \E x \in Payloads' : z = Succ(x) /\ (Coming(x)' \/ Waits(x)')
  BY <1>2 DEF NoPartAlone, Succ
<1>3. Coming(z) /\ z # y
  BY <1>1
<1>4. PICK x \in Payloads : z = Succ(x) /\ (Coming(x) \/ Waits(x))
  BY <1>3 DEF NoPartAlone
<1>5. CASE Coming(x) /\ x # y
  BY <1>1, <1>2, <1>4, <1>5
<1>6. CASE x = y
  <2>1. y[3] # PayloadCount(Source(y))
    BY <1>1, <1>4, <1>6, LastPayload
  <2>2. IsKept(y)
    BY <2>1 DEF IsDecoded
  <2>3. Waits(y)'
    BY <2>2, KeptWaits
  <2> QED
    BY <1>2, <1>4, <1>6, <2>3
<1>7. CASE Waits(x)
  <2>1. CASE UNCHANGED m_partial_packet
    <3>1. Waits(x)'
      BY <1>1, <1>4, <1>7, <2>1, WaitsKept
    <3> QED
      BY <1>2, <1>4, <3>1
  <2>2. CASE PayloadCount(Source(y)) # 1
    BY <1>1, <1>3, <1>4, <1>7, <2>2, WaitsForFirst
  <2>3. PayloadCount(Source(y)) # 1 \/ UNCHANGED m_partial_packet
    <3>1. PICK c : c = PayloadCount(Source(y))
      OBVIOUS
    <3>2. y[3] \in 1 .. c /\ c \in Nat
      BY <1>1, <3>1, Sourced
    <3>3. CASE IsKept(y)
      <4>1. y[3] < c
        BY <3>1, <3>3 DEF IsKept
      <4> QED
        BY <3>1, <3>2, <4>1
    <3>4. CASE IsDecoded(y)
      BY <3>4 DEF IsDecoded
    <3> QED
      BY <3>3, <3>4
  <2> QED
    BY <2>1, <2>2, <2>3
<1> QED
  BY <1>4, <1>5, <1>6, <1>7

LEMMA AllArriveTaken ==
  ASSUME WireOK, AllArrive, decoded \in Seq(Range(decoded)), Receive,
         NEW y, y = Head(wire), IsDecoded(y) \/ IsKept(y)
  PROVE  AllArrive'
<1>1. /\ Kept /\ y \in Payloads /\ EmittedOK /\ wire # <<>> /\ UNCHANGED emitted
      /\ \A x \in Payloads : Coming(x)' <=> Coming(x) /\ x # y
  BY Taken DEF WireOK, Receive
<1>2. Payloads' = Payloads
  BY <1>1, SameEmitted
<1>3. ASSUME NEW j \in DOMAIN decoded PROVE j \in DOMAIN decoded' /\ decoded'[j] = decoded[j]
  <2>1. CASE UNCHANGED decoded
    BY <2>1
  <2>2. CASE IsDecoded(y)
    <3>1. PICK q : decoded' = Append(decoded, q)
      BY <2>2 DEF IsDecoded
    <3> QED
      BY <3>1, AppendProperties, LenProperties
  <2> QED
    BY <2>1, <2>2 DEF IsKept
<1> SUFFICES ASSUME NEW e \in Emitters, NEW i \in DOMAIN emitted[e] PROVE Arrives(e, i)'
  BY <1>1 DEF AllArrive, Arrives
<1>4. Arrives(e, i)
  BY DEF AllArrive
<1>5. CASE \E j \in DOMAIN decoded : Says(decoded[j], emitted[e][i])
  BY <1>1, <1>3, <1>5 DEF Arrives
<1>6. ASSUME NEW x \in Payloads, x[1] = e, x[2] = i, Coming(x) PROVE Arrives(e, i)'
  <2>1. CASE x # y
    BY <1>1, <1>2, <1>6, <2>1 DEF Arrives
  <2>2. CASE x = y /\ IsDecoded(y)
    <3>1. PICK q : Says(q, Source(y)) /\ decoded' = Append(decoded, q)
      BY <2>2 DEF IsDecoded
    <3>2. Source(y) = emitted'[e][i]
      BY <1>1, <1>6, <2>2 DEF Source
    <3>3. Len(decoded) + 1 \in DOMAIN decoded' /\ decoded'[Len(decoded) + 1] = q
      <4>1. Range(decoded) \cup {q} = Range(decoded) \cup {q} /\ decoded \in Seq(Range(decoded) \cup {q})
        BY SeqDef
      <4> QED
        BY <3>1, <4>1, RangeAppend, LenProperties
    <3> QED
      BY <3>1, <3>2, <3>3 DEF Arrives
  <2>3. CASE x = y /\ IsKept(y)
    <3>1. y[3] < PayloadCount(Source(y))
      BY <2>3 DEF IsKept
    <3>2. Succ(y) \in Payloads /\ Succ(y) # y
      BY <1>1, <3>1, NextPayload, PayloadTriple, EarlierOrder
    <3>3. Coming(Succ(y))
      BY <1>1, <3>1, HeadFirst DEF WireOK, WireInv
    <3>4. Succ(y)[1] = e /\ Succ(y)[2] = i
      BY <1>6, <2>3 DEF Succ
    <3> QED
      BY <1>1, <1>2, <3>2, <3>3, <3>4 DEF Arrives
  <2> QED
    BY <2>1, <2>2, <2>3
<1> QED
  BY <1>4, <1>5, <1>6 DEF Arrives

LEMMA NoLossInit == Init => NoLossInv
<1> SUFFICES ASSUME Init PROVE NoLossInv
  OBVIOUS
<1>1. /\ emitted = [e \in Emitters |-> <<>>] /\ encoding = [e \in Emitters |-> 0]
      /\ open = TRUE /\ wire = <<>>
  BY DEF Init
<1>2. EmittedOK /\ \A e \in Emitters : emitted[e] = <<>>
  <2>1. \A e \in Emitters : emitted[e] = <<>> /\ emitted[e] \in Seq(Sendable[e])
    BY <1>1
  <2>2. DOMAIN emitted = Emitters
    BY <1>1
  <2> QED
    BY <2>1, <2>2 DEF EmittedOK
<1>3. \A x \in Payloads : ~Coming(x)
  <2>1. ASSUME NEW x \in Payloads PROVE FALSE
    BY <1>2, <2>1, Sourced
  <2> QED
    BY <2>1
<1>4. AllArrive
  BY <1>2 DEF AllArrive
<1> QED
  BY <1>1, <1>3, <1>4, NoLossIs DEF NoPartAlone

LEMMA NoLossStep ==
  ASSUME OneSendsParts, Invariants, NoLossInv, [Next]_vars
  PROVE  NoLossInv'
<1>1. NoLossInv' <=> (losses' = 0 => open' /\ NoPartAlone' /\ AllArrive')
  BY DEF NoLossInv, NoPartAlone, AllArrive, Arrives, Succ
<1>2. SUFFICES ASSUME losses' = 0 PROVE open' /\ NoPartAlone' /\ AllArrive'
  BY <1>1
<1>3. WireOK /\ PartialInv /\ losses \in 0 .. MaxLosses /\ decoded \in Seq(Range(decoded))
  BY DEF Invariants
<1>4. ~Lose
  BY <1>2, <1>3, PacketAssumption DEF Lose
<1>5. UNCHANGED losses
  BY <1>4 DEF Next, HandOver, Encode, put_payload, PutText, PutBinary, Receive, Reset, vars
<1>6. open /\ NoPartAlone /\ AllArrive
  BY <1>2, <1>5, NoLossIs
<1>7. ASSUME NEW e \in Emitters, HandOver(e) PROVE open' /\ NoPartAlone' /\ AllArrive'
  BY <1>3, <1>6, <1>7, NoLossHandOver DEF HandOver
<1>8. ASSUME NEW e \in Emitters, NEW p \in Sendable[e], Encode(e, p)
      PROVE  open' /\ NoPartAlone' /\ AllArrive'
  BY <1>3, <1>6, <1>8, NoLossEncode DEF Encode
<1>9. CASE put_payload
  <2>1. PICK y : y = Head(wire)
    OBVIOUS
  <2>2. Receive /\ (IsDecoded(y) \/ IsKept(y) \/ IsDropped(y))
    BY <1>3, <1>9, <2>1, Outcome
  <2>3. ~IsDropped(y)
    BY <1>3, <1>6, <2>1, <2>2, NotDropped
  <2> QED
    BY <1>3, <1>6, <2>1, <2>2, <2>3, NoPartAloneTaken, AllArriveTaken DEF Receive
<1>10. ~Reset
  BY <1>6 DEF Reset
<1>11. CASE UNCHANGED vars
  BY <1>6, <1>11 DEF vars, NoPartAlone, AllArrive, Arrives, Waits, Payloads, Source, Gone, Coming,
                     NextOut
<1> QED
  BY <1>4, <1>7, <1>8, <1>9, <1>10, <1>11 DEF Next

\* Where no payload is to come, all are decoded.
LEMMA NoLossMeans ==
  ASSUME WireOK, NoLossInv
  PROVE  NothingMissing
<1> SUFFICES ASSUME losses = 0, wire = <<>>, \A e \in Emitters : encoding[e] = 0,
                    NEW e \in Emitters, NEW k \in DOMAIN emitted[e]
             PROVE  \E i \in DOMAIN decoded : Says(decoded[i], emitted[e][k])
  BY DEF NothingMissing
<1>1. Arrives(e, k)
  BY NoLossIs DEF AllArrive
<1>2. Range(wire) = {}
  BY DEF Range
<1>3. \A x : x[1] = e => ~Coming(x)
  BY <1>2 DEF Coming
<1> QED
  BY <1>1, <1>3 DEF Arrives

(***************************************************************************)
(* As long as no connection was lost, when every payload is handed over    *)
(* and taken, every packet that was encoded has been decoded: none of the  *)
(* texts that come between the parts of another packet, and no part, is    *)
(* dropped, if one thread only sends parts.                                *)
(***************************************************************************)
THEOREM NothingIsMissing ==
  ASSUME OneSendsParts
  PROVE  Spec => []NothingMissing
<1>1. Init => NoLossInv
  BY NoLossInit
<1>2. OneSendsParts /\ Invariants /\ NoLossInv /\ [Next]_vars => NoLossInv'
  BY NoLossStep
<1>3. Invariants /\ NoLossInv => NothingMissing
  BY NoLossMeans DEF Invariants
<1> QED
  BY <1>1, <1>2, <1>3, InvariantsHold, PTL DEF Spec
=============================================================================
