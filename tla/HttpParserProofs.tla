-------------------------- MODULE HttpParserProofs --------------------------
(***************************************************************************)
(* Requests are read as they were sent, for all messages, any number of    *)
(* them, and every way TCP cuts them.                                      *)
(***************************************************************************)
EXTENDS HttpParser, SequenceLemmas

(* What is still to be parsed, and whether it will be.                     *)
Token == UNION { ToSet(Tokens[m]) : m \in Messages }
Rest == buffer \o wire
Reading == link = "open" \/ pc # "idle"

(* A request's headers have different names.                               *)
GoodInfo(r) ==
  /\ DOMAIN r = {"method", "uri", "version", "headers"}
  /\ \A h \in r.headers : h[1] = "header" /\ (h[2] = "CONTENT-LENGTH" => h[3] \in Nat)
  /\ \A g, h \in r.headers : g[2] = h[2] => g = h

Types ==
  /\ TypeOK
  /\ buffer \in Seq(Token) /\ wire \in Seq(Token)
  /\ GoodInfo(requestInfo)
  /\ dispatched \in Seq(ToSet(dispatched))

(* Where onReadyRead can be.  A request without a body leaves it in the    *)
(* loop of the headers.                                                    *)
Control ==
  /\ link = "none" => /\ pc = "idle" /\ state = "line"
                      /\ buffer = << >> /\ requestInfo.headers = {}
  /\ pc = "line" => state = "line"
  /\ pc = "body" => state = "body"
  /\ pc = "headers" /\ state = "line" => ~WithBody(requestInfo.method)

(* A body whose end is not announced in the chunks has its length.         *)
Framed ==
  state = "body" =>
    \/ chunkedEntity # "no" /\ header(requestInfo, "TRANSFER-ENCODING")
    \/ chunkedEntity = "no" /\ header(requestInfo, "CONTENT-LENGTH")

(* What is still to be parsed is the last part of what has been sent, and  *)
(* every body that was dispatched is a part of it.                         *)
Part(d, s) ==
  \E k, n \in Nat : k + n <= Len(s) /\ d.body = SubSeq(s, k + 1, k + n)

WithLength(d) ==
  /\ WithBody(d.method)
  /\ header(d, "CONTENT-LENGTH") /\ ~header(d, "TRANSFER-ENCODING")

Own ==
  /\ Stream(sent) \in Seq(Token)
  /\ link # "none" =>
       \E k \in 0..Len(Stream(sent)) : Rest = Drop(Stream(sent), k)
  /\ \A i \in 1..Len(dispatched) :
       WithLength(dispatched[i]) => Part(dispatched[i], Stream(sent))

(* Before the next header that announces a length there is a request line  *)
(* with a line of its own, which is not taken for a header.                *)
Announces(t) == t[1] = "header" /\ t[2] = "CONTENT-LENGTH"
EndedBefore(r, x, n) == \E y \in x + 1..n : r[y] = Crlf

Ahead(r) ==
  \A q \in 1..Len(r) : Announces(r[q]) =>
    \E p \in 1..q - 1 :
      /\ r[p][1] = "request" /\ r[p + 1] = Crlf
      /\ \A x \in 1..p : r[x][1] = "header" => EndedBefore(r, x, p - 1)

(* What is left begins with headers, or with their end.                    *)
InHeaders(r) ==
  \E k \in Nat :
    /\ 2 * k + 1 <= Len(r)
    /\ \A i \in 1..k : r[2 * i - 1] # Crlf /\ r[2 * i] = Crlf
    /\ r[2 * k + 1] = Crlf
    /\ Ahead(Drop(r, 2 * k + 1))

Ended(r) == \A x \in 1..Len(r) : r[x][1] = "header" => EndedBefore(r, x, Len(r))

Sectioned(r) ==
  \A c \in 1..Len(r) - 1 :
    r[c][1] = "request" /\ r[c + 1] = Crlf =>
      InHeaders(Drop(r, c + 1)) \/ Ahead(Drop(r, c + 1))

KeepingClient == \A n \in 1..Len(sent) : KeepsItsLines(sent[n])

Announced ==
  KeepingClient =>
    /\ state = "body" /\ chunkedEntity = "no" => entitySize = ContentLength(requestInfo)
    /\ \A i \in 1..Len(dispatched) :
         WithLength(dispatched[i]) => Len(dispatched[i].body) = ContentLength(dispatched[i])
    /\ link # "none" => Ended(Rest) /\ Sectioned(Rest)
    /\ Reading /\ state = "headers" => InHeaders(Rest) \/ Ahead(Rest)
    /\ Reading /\ state = "body" /\ pc = "headers" => Ahead(Rest)

(* Where a plain client is: all it sent is served, or its last message is  *)
(* not read, read up to its j-th header, or read up to its body.           *)
HeaderList(m) == SetToSeq(Headers[m])
Serves(m) ==
  /\ requestInfo.method = m.method /\ requestInfo.uri = m.uri
  /\ requestInfo.version = HttpVersion(m.version)

AllRead ==
  /\ Rest = << >> /\ state = "line" /\ pc \in {"idle", "headers"}
  /\ requestInfo.headers = {}

Served == Len(dispatched) = Len(sent) /\ AllRead

Unread(m) ==
  /\ state = "line" /\ Rest = Tokens[m] /\ requestInfo.headers = {}
  /\ pc = "headers" => buffer = << >>

HeadersRead(m, j) ==
  /\ state = "headers" /\ pc \in {"idle", "headers"} /\ Serves(m)
  /\ requestInfo.headers = { HeaderList(m)[i] : i \in 1..j }
  /\ Rest = Drop(Tokens[m], 2 * j + 2)

HeadRead(m) ==
  /\ state = "body" /\ pc \in {"idle", "headers", "body"} /\ Serves(m)
  /\ requestInfo.headers = Headers[m]
  /\ Rest = m.body /\ m.coding = "length"
  /\ chunkedEntity = "no" /\ entitySize = Len(m.body)

Serving(m) ==
  /\ Len(sent) = Len(dispatched) + 1 /\ m = Last(sent)
  /\ \/ Unread(m)
     \/ \E j \in 0..Len(HeaderList(m)) : HeadersRead(m, j)
     \/ HeadRead(m)

Tracked ==
  PlainClient =>
    /\ link # "closing"
    /\ Len(dispatched) <= Len(sent)
    /\ \A i \in 1..Len(dispatched) : dispatched[i] = Request(sent[i])
    /\ link = "open" => Served \/ \E m \in Messages : Serving(m)

IInv == Types /\ Control /\ Framed /\ Own /\ Announced /\ Tracked
-----------------------------------------------------------------------------
(* The tokens of a message, one by one.                                    *)
Alphabet(m) ==
  { Line(m.method, m.uri, m.version), Crlf, ChunkSize(Len(m.body)), ChunkSize(0) }
    \cup Headers[m] \cup ToSet(m.body)

LEMMA HeadersAreFew ==
  ASSUME NEW m \in Messages
  PROVE  /\ IsFiniteSet(Headers[m])
         /\ \A h \in Headers[m] : h[1] = "header" /\ h # Crlf
         /\ \A h \in Headers[m] : h[2] = "CONTENT-LENGTH" => h[3] \in Nat
         /\ \A g, h \in Headers[m] : g[2] = h[2] => g = h
  <1> DEFINE named == { Header(n, n) : n \in m.names }
             framing == CASE m.coding = "none" -> {}
                          [] m.coding = "length" -> { Header("CONTENT-LENGTH", Len(m.body)) }
                          [] m.coding = "chunked" -> { Header("TRANSFER-ENCODING", "chunked") }
  <1>1. Headers[m] = named \cup framing
    BY DEF Headers
  <1>2. IsFiniteSet(m.names) /\ m.coding \in {"none", "length", "chunked"}
        /\ "CONTENT-LENGTH" \notin m.names /\ "TRANSFER-ENCODING" \notin m.names
        /\ Len(m.body) \in Nat
    BY MessageAssumption, LenProperties
  <1>3. IsFiniteSet(named)
    <2>1. \E f : f \in Surjection(m.names, named)
      <3>1. [n \in m.names |-> Header(n, n)] \in Surjection(m.names, named)
        BY DEF Surjection
      <3>2. QED
        BY <3>1
    <2> HIDE DEF named
    <2>2. QED
      BY <1>2, <2>1, FS_Surjection
  <1>4. IsFiniteSet(framing)
    <2>1. IsFiniteSet({}) /\ \A x : IsFiniteSet({x})
      BY FS_EmptySet, FS_Singleton
    <2>2. QED
      BY <1>2, <2>1
  <1>5. IsFiniteSet(Headers[m])
    <2> HIDE DEF named, framing
    <2>1. QED
      BY <1>1, <1>3, <1>4, FS_Union
  <1>6. \A h \in named : \E n \in m.names : h = << "header", n, n >>
    BY DEF Header
  <1>7. \A h \in framing : \/ h = << "header", "CONTENT-LENGTH", Len(m.body) >>
                          \/ h = << "header", "TRANSFER-ENCODING", "chunked" >>
    BY <1>2 DEF Header
  <1>8. \A g, h \in framing : g = h
    BY <1>2
  <1> HIDE DEF named, framing
  <1>9. \A h \in Headers[m] : h[1] = "header" /\ h # Crlf
    BY <1>1, <1>6, <1>7 DEF Crlf
  <1>10. \A h \in Headers[m] : h[2] = "CONTENT-LENGTH" => h[3] \in Nat
    BY <1>1, <1>2, <1>6, <1>7
  <1>11. \A g, h \in Headers[m] : g[2] = h[2] => g = h
    BY <1>1, <1>2, <1>6, <1>7, <1>8
  <1>12. QED
    BY <1>5, <1>9, <1>10, <1>11
LEMMA BodyTokens ==
  ASSUME NEW m \in Messages
  PROVE  /\ m.body \in Seq(Alphabet(m))
         /\ Body(m) \in Seq(Alphabet(m))
         /\ m.coding # "chunked" => Body(m) = m.body
         /\ \A i \in 1..Len(Body(m)) :
              \/ Body(m)[i] \in { Crlf, ChunkSize(Len(m.body)), ChunkSize(0) }
              \/ /\ Body(m)[i] \in ToSet(m.body)
                 /\ \E j \in 1..Len(m.body) :
                      /\ Body(m)[i] = m.body[j]
                      /\ Len(m.body) - j <= Len(Body(m)) - i
                      /\ \A n \in 1..Len(m.body) - j : Body(m)[i + n] = m.body[j + n]
  <1> DEFINE A == Alphabet(m)
             b == m.body
             s == << ChunkSize(Len(b)), Crlf >>
             e == << ChunkSize(0), Crlf, Crlf >>
             c == << Crlf >>
  <1>1. b \in Seq(ToSet(b)) /\ Len(b) \in Nat
    BY MessageAssumption, LenProperties
  <1>2. b \in Seq(A) /\ \A j \in 1..Len(b) : b[j] \in ToSet(b)
    <2>1. \A j \in 1..Len(b) : b[j] \in ToSet(b)
      BY <1>1, ElementOfSeq
    <2>2. b \in [1..Len(b) -> ToSet(b)]
      BY <1>1, LenProperties
    <2>3. b \in [1..Len(b) -> A]
      BY <2>2 DEF Alphabet
    <2>4. QED
      BY <1>1, <2>1, <2>3, SeqDef
  <1>3. /\ s \in Seq(A) /\ Len(s) = 2 /\ s[1] = ChunkSize(Len(b)) /\ s[2] = Crlf
        /\ e \in Seq(A) /\ Len(e) = 3 /\ e[1] = ChunkSize(0) /\ e[2] = Crlf /\ e[3] = Crlf
        /\ c \in Seq(A) /\ Len(c) = 1 /\ c[1] = Crlf
    <2>1. ChunkSize(Len(b)) \in A /\ Crlf \in A /\ ChunkSize(0) \in A
      BY DEF Alphabet
    <2> HIDE DEF A
    <2>2. QED
      BY <2>1
  <1>4. CASE m.coding # "chunked"
    <2>1. Body(m) = b
      BY <1>4 DEF Body
    <2>2. QED
      BY <1>1, <1>2, <1>4, <2>1
  <1>5. CASE m.coding = "chunked" /\ b = << >>
    <2>1. << >> \o e = e
      BY <1>3, ConcatEmptySeq
    <2>2. Body(m) = e
      BY <1>5, <2>1 DEF Body
    <2>3. QED
      BY <1>2, <1>3, <1>5, <2>2
  <1>6. CASE m.coding = "chunked" /\ b # << >>
    <2> DEFINE f == s \o b
               g == f \o c
               t == g \o e
    <2>1. Body(m) = t
      BY <1>6 DEF Body
    <2> HIDE DEF A, b, s, e, c
    <2>2. /\ f \in Seq(A) /\ Len(f) = 2 + Len(b)
          /\ \A i \in 1..2 + Len(b) : f[i] = IF i <= 2 THEN s[i] ELSE b[i - 2]
      <3>1. /\ f \in Seq(A) /\ Len(f) = Len(s) + Len(b)
            /\ \A i \in 1..Len(s) + Len(b) : f[i] = IF i <= Len(s) THEN s[i] ELSE b[i - Len(s)]
        BY <1>2, <1>3, ConcatProperties
      <3> HIDE DEF f
      <3>2. QED
        BY <1>3, <3>1
    <2> HIDE DEF f
    <2>3. /\ g \in Seq(A) /\ Len(g) = 3 + Len(b)
          /\ \A i \in 1..3 + Len(b) : g[i] = IF i <= 2 + Len(b) THEN f[i] ELSE Crlf
      <3>1. /\ g \in Seq(A) /\ Len(g) = Len(f) + Len(c)
            /\ \A i \in 1..Len(f) + Len(c) : g[i] = IF i <= Len(f) THEN f[i] ELSE c[i - Len(f)]
        BY <1>3, <2>2, ConcatProperties
      <3> HIDE DEF g
      <3>2. \A i \in 1..3 + Len(b) : ~(i <= 2 + Len(b)) => i - Len(f) = 1
        BY <1>1, <2>2 DEF b
      <3>3. 2 + Len(b) + 1 = 3 + Len(b)
        BY <1>1 DEF b
      <3>4. QED
        BY <1>3, <2>2, <3>1, <3>2, <3>3
    <2> HIDE DEF g
    <2>4. /\ t \in Seq(A) /\ Len(t) = 6 + Len(b)
          /\ \A i \in 1..6 + Len(b) : t[i] = IF i <= 3 + Len(b) THEN g[i] ELSE e[i - (3 + Len(b))]
      <3>1. /\ t \in Seq(A) /\ Len(t) = Len(g) + Len(e)
            /\ \A i \in 1..Len(g) + Len(e) : t[i] = IF i <= Len(g) THEN g[i] ELSE e[i - Len(g)]
        BY <1>3, <2>3, ConcatProperties
      <3> HIDE DEF t
      <3>2. 3 + Len(b) + 3 = 6 + Len(b)
        BY <1>1 DEF b
      <3>3. QED
        BY <1>3, <2>3, <3>1, <3>2
    <2> HIDE DEF t
    <2>5. \A i \in 1..2 : t[i] \in { Crlf, ChunkSize(Len(b)), ChunkSize(0) }
      <3>1. \A i \in 1..2 : /\ i \in 1..6 + Len(b) /\ i <= 3 + Len(b) /\ i \in 1..3 + Len(b)
                            /\ i <= 2 + Len(b) /\ i \in 1..2 + Len(b) /\ (i = 1 \/ i = 2)
        BY <1>1 DEF b
      <3>2. QED
        BY <1>3, <2>2, <2>3, <2>4, <3>1
    <2>6. \A j \in 1..Len(b) : t[j + 2] = b[j]
      <3>1. SUFFICES ASSUME NEW j \in 1..Len(b) PROVE t[j + 2] = b[j]
        OBVIOUS
      <3> DEFINE i == j + 2
      <3>2. /\ i \in 1..6 + Len(b) /\ i <= 3 + Len(b) /\ i \in 1..3 + Len(b)
            /\ i <= 2 + Len(b) /\ i \in 1..2 + Len(b) /\ ~(i <= 2) /\ i - 2 = j
        BY <1>1 DEF b
      <3> HIDE DEF i
      <3>3. t[i] = b[j]
        BY <2>2, <2>3, <2>4, <3>2
      <3>4. QED
        BY <3>3 DEF i
    <2>7. \A i \in 3 + Len(b)..6 + Len(b) : t[i] \in { Crlf, ChunkSize(Len(b)), ChunkSize(0) }
      <3>1. SUFFICES ASSUME NEW i \in 3 + Len(b)..6 + Len(b)
                     PROVE  t[i] \in { Crlf, ChunkSize(Len(b)), ChunkSize(0) }
        OBVIOUS
      <3>2. i \in 1..6 + Len(b)
        BY <1>1 DEF b
      <3>3. CASE i = 3 + Len(b)
        <4>1. i <= 3 + Len(b) /\ i \in 1..3 + Len(b) /\ ~(i <= 2 + Len(b))
          BY <1>1, <3>3 DEF b
        <4>2. QED
          BY <2>3, <2>4, <3>2, <4>1
      <3>4. CASE i # 3 + Len(b)
        <4>1. ~(i <= 3 + Len(b)) /\ i - (3 + Len(b)) \in 1..3
          BY <1>1, <3>4 DEF b
        <4>2. \A n \in 1..3 : e[n] \in { Crlf, ChunkSize(0) }
          <5>1. \A n \in 1..3 : n = 1 \/ n = 2 \/ n = 3
            OBVIOUS
          <5>2. QED
            BY <1>3, <5>1
        <4>3. QED
          BY <2>4, <3>2, <4>1, <4>2
      <3>5. QED
        BY <3>3, <3>4
    <2>8. \A i \in 1..Len(t) :
            \/ t[i] \in { Crlf, ChunkSize(Len(b)), ChunkSize(0) }
            \/ /\ t[i] \in ToSet(b)
               /\ \E j \in 1..Len(b) :
                    /\ t[i] = b[j]
                    /\ Len(b) - j <= Len(t) - i
                    /\ \A n \in 1..Len(b) - j : t[i + n] = b[j + n]
      <3>1. SUFFICES ASSUME NEW i \in 1..6 + Len(b), ~(i \in 1..2),
                            ~(i \in 3 + Len(b)..6 + Len(b))
                     PROVE  /\ t[i] \in ToSet(b)
                            /\ \E j \in 1..Len(b) :
                                 /\ t[i] = b[j]
                                 /\ Len(b) - j <= Len(t) - i
                                 /\ \A n \in 1..Len(b) - j : t[i + n] = b[j + n]
        BY <2>4, <2>5, <2>7
      <3>2. PICK j \in 1..Len(b) : i = j + 2
        <4>1. i - 2 \in 1..Len(b) /\ i = (i - 2) + 2
          BY <1>1, <3>1 DEF b
        <4>2. QED
          BY <4>1
      <3>3. t[i] = b[j] /\ Len(b) - j <= Len(t) - i
        BY <1>1, <2>4, <2>6, <3>2 DEF b
      <3>4. \A n \in 1..Len(b) - j : t[i + n] = b[j + n]
        <4>1. SUFFICES ASSUME NEW n \in 1..Len(b) - j PROVE t[i + n] = b[j + n]
          OBVIOUS
        <4>2. j + n \in 1..Len(b) /\ i + n = (j + n) + 2
          BY <1>1, <3>2 DEF b
        <4>3. QED
          BY <2>6, <4>2
      <3>5. QED
        BY <1>2, <3>3, <3>4 DEF b
    <2>9. QED
      BY <1>2, <1>6, <2>1, <2>4, <2>8 DEF A, b
  <1>7. QED
    BY <1>4, <1>5, <1>6

LEMMA HeaderListOf ==
  ASSUME NEW m \in Messages
  PROVE  /\ HeaderList(m) \in Seq(Headers[m])
         /\ Len(HeaderList(m)) \in Nat
         /\ \A i \in 1..Len(HeaderList(m)) : HeaderList(m)[i] \in Headers[m]
         /\ Headers[m] = { HeaderList(m)[i] : i \in 1..Len(HeaderList(m)) }
         /\ \A i, j \in 1..Len(HeaderList(m)) :
              HeaderList(m)[i][2] = HeaderList(m)[j][2] => i = j
  <1> DEFINE hs == HeaderList(m)
  <1>1. /\ hs \in Seq(Headers[m])
        /\ \A i, j \in 1..Len(hs) : hs[i] = hs[j] => i = j
        /\ Headers[m] = { hs[i] : i \in 1..Len(hs) }
    BY HeadersAreFew, ListOfSet DEF HeaderList
  <1>2. Len(hs) \in Nat /\ \A i \in 1..Len(hs) : hs[i] \in Headers[m]
    BY <1>1, LenProperties, ElementOfSeq
  <1> HIDE DEF hs
  <1>3. \A i, j \in 1..Len(hs) : hs[i][2] = hs[j][2] => i = j
    BY <1>1, <1>2, HeadersAreFew
  <1>4. QED
    BY <1>1, <1>2, <1>3 DEF hs

LEMMA TokensOf ==
  ASSUME NEW m \in Messages
  PROVE  LET t == Tokens[m]
             k == Len(HeaderList(m))
         IN  /\ t \in Seq(Alphabet(m))
             /\ Len(t) = 2 * k + 3 + Len(Body(m))
             /\ t[1] = Line(m.method, m.uri, m.version) /\ t[2] = Crlf
             /\ \A i \in 1..k : t[2 * i + 1] = HeaderList(m)[i] /\ t[2 * i + 2] = Crlf
             /\ t[2 * k + 3] = Crlf
             /\ Drop(t, 2 * k + 3) = Body(m)
             /\ \A i \in 1..Len(Body(m)) : t[2 * k + 3 + i] = Body(m)[i]
  <1> DEFINE A == Alphabet(m)
             hs == HeaderList(m)
             k == Len(hs)
             l == << Line(m.method, m.uri, m.version), Crlf >>
             f == FlattenSeq([i \in 1..Len(hs) |-> << hs[i], Crlf >>])
             c == << Crlf >>
             b == Body(m)
             g == l \o f
             h == g \o c
             t == h \o b
  <1>1. Tokens[m] = t
    BY DEF Tokens, HeaderList
  <1>2. b \in Seq(A) /\ Len(b) \in Nat
    BY BodyTokens, LenProperties
  <1>3. hs \in Seq(A) /\ k \in Nat
    <2>1. hs \in Seq(Headers[m]) /\ k \in Nat
      BY HeaderListOf
    <2>2. hs \in [1..k -> Headers[m]]
      BY <2>1, LenProperties
    <2>3. hs \in [1..k -> A]
      BY <2>2 DEF Alphabet
    <2>4. QED
      BY <2>1, <2>3, SeqDef
  <1>4. /\ l \in Seq(A) /\ Len(l) = 2 /\ l[2] = Crlf
        /\ l[1] = Line(m.method, m.uri, m.version)
        /\ c \in Seq(A) /\ Len(c) = 1 /\ c[1] = Crlf
    <2>1. Line(m.method, m.uri, m.version) \in A /\ Crlf \in A
      BY DEF Alphabet
    <2> HIDE DEF A
    <2>2. QED
      BY <2>1
  <1>5. /\ f \in Seq(A) /\ Len(f) = 2 * k
        /\ \A i \in 1..k : f[2 * i - 1] = hs[i] /\ f[2 * i] = Crlf
    <2>1. Crlf \in A
      BY DEF Alphabet
    <2> HIDE DEF A, hs
    <2>2. QED
      BY <1>3, <2>1, FlattenOfPairs
  <1> HIDE DEF A, hs, l, f, c, b
  <1>6. /\ g \in Seq(A) /\ Len(g) = 2 + 2 * k
        /\ \A i \in 1..2 + 2 * k : g[i] = IF i <= 2 THEN l[i] ELSE f[i - 2]
    <2>1. /\ g \in Seq(A) /\ Len(g) = Len(l) + Len(f)
          /\ \A i \in 1..Len(l) + Len(f) : g[i] = IF i <= Len(l) THEN l[i] ELSE f[i - Len(l)]
      BY <1>4, <1>5, ConcatProperties
    <2> HIDE DEF g
    <2>2. QED
      BY <1>4, <1>5, <2>1
  <1> HIDE DEF g
  <1>7. /\ h \in Seq(A) /\ Len(h) = 2 * k + 3
        /\ \A i \in 1..2 * k + 3 : h[i] = IF i <= 2 + 2 * k THEN g[i] ELSE Crlf
    <2>1. /\ h \in Seq(A) /\ Len(h) = Len(g) + Len(c)
          /\ \A i \in 1..Len(g) + Len(c) : h[i] = IF i <= Len(g) THEN g[i] ELSE c[i - Len(g)]
      BY <1>4, <1>6, ConcatProperties
    <2> HIDE DEF h
    <2>2. /\ 2 + 2 * k + 1 = 2 * k + 3
          /\ \A i \in 1..2 * k + 3 : ~(i <= 2 + 2 * k) => i - (2 + 2 * k) = 1
      BY <1>3
    <2>3. QED
      BY <1>4, <1>6, <2>1, <2>2
  <1> HIDE DEF h
  <1>8. /\ t \in Seq(A) /\ Len(t) = 2 * k + 3 + Len(b)
        /\ \A i \in 1..2 * k + 3 + Len(b) :
             t[i] = IF i <= 2 * k + 3 THEN h[i] ELSE b[i - (2 * k + 3)]
    <2>1. /\ t \in Seq(A) /\ Len(t) = Len(h) + Len(b)
          /\ \A i \in 1..Len(h) + Len(b) : t[i] = IF i <= Len(h) THEN h[i] ELSE b[i - Len(h)]
      BY <1>2, <1>7, ConcatProperties
    <2> HIDE DEF t
    <2>2. QED
      BY <1>7, <2>1
  <1>9. Drop(t, 2 * k + 3) = b
    <2>1. PICK n \in Nat : n = 2 * k + 3
      BY <1>3
    <2>2. Len(h) \in 0..Len(h) /\ Len(h) = n
      BY <1>7, <2>1
    <2>3. Drop(h, Len(h)) \o b = Drop(h \o b, Len(h))
      BY <1>2, <1>7, <2>2, DropOfConcat
    <2>4. Drop(h, Len(h)) = << >>
      BY <1>7, DropNothing
    <2>5. << >> \o b = b
      BY <1>2, ConcatEmptySeq
    <2>6. QED
      BY <2>1, <2>2, <2>3, <2>4, <2>5
  <1> HIDE DEF t
  <1>10. \A i \in 1..2 : t[i] = l[i]
    <2>1. \A i \in 1..2 : /\ i \in 1..2 * k + 3 + Len(b) /\ i <= 2 * k + 3
                          /\ i \in 1..2 * k + 3 /\ i <= 2 + 2 * k
                          /\ i \in 1..2 + 2 * k /\ i <= 2
      BY <1>2, <1>3
    <2>2. QED
      BY <1>6, <1>7, <1>8, <2>1
  <1>11. \A i \in 1..k : t[2 * i + 1] = hs[i] /\ t[2 * i + 2] = Crlf
    <2>1. SUFFICES ASSUME NEW i \in 1..k PROVE t[2 * i + 1] = hs[i] /\ t[2 * i + 2] = Crlf
      OBVIOUS
    <2>2. \A n \in {2 * i + 1, 2 * i + 2} :
            /\ n \in 1..2 * k + 3 + Len(b) /\ n <= 2 * k + 3
            /\ n \in 1..2 * k + 3 /\ n <= 2 + 2 * k
            /\ n \in 1..2 + 2 * k /\ ~(n <= 2)
      BY <1>2, <1>3
    <2>3. \A n \in {2 * i + 1, 2 * i + 2} : t[n] = f[n - 2]
      BY <1>6, <1>7, <1>8, <2>2
    <2>4. (2 * i + 1) - 2 = 2 * i - 1 /\ (2 * i + 2) - 2 = 2 * i
      BY <1>3
    <2>5. QED
      BY <1>5, <2>3, <2>4
  <1>12. t[2 * k + 3] = Crlf
    <2>1. PICK n \in Nat : n = 2 * k + 3
      BY <1>3
    <2>2. /\ n \in 1..2 * k + 3 + Len(b) /\ n <= 2 * k + 3
          /\ n \in 1..2 * k + 3 /\ ~(n <= 2 + 2 * k)
      BY <1>2, <1>3, <2>1
    <2>3. t[n] = Crlf
      BY <1>7, <1>8, <2>2
    <2>4. QED
      BY <2>1, <2>3
  <1>13. \A i \in 1..Len(b) : t[2 * k + 3 + i] = b[i]
    <2>1. SUFFICES ASSUME NEW i \in 1..Len(b) PROVE t[2 * k + 3 + i] = b[i]
      OBVIOUS
    <2>2. PICK n \in Nat : n = 2 * k + 3 + i
      BY <1>3
    <2>3. n \in 1..2 * k + 3 + Len(b) /\ ~(n <= 2 * k + 3) /\ n - (2 * k + 3) = i
      BY <1>2, <1>3, <2>2
    <2>4. t[n] = b[i]
      BY <1>8, <2>3
    <2>5. QED
      BY <2>2, <2>4
  <1>14. t[1] = l[1] /\ t[2] = l[2]
    BY <1>10
  <1>15. QED
    BY <1>1, <1>4, <1>8, <1>9, <1>11, <1>12, <1>13, <1>14 DEF A, hs, b

LEMMA TokenSeq ==
  /\ \A m \in Messages : Tokens[m] \in Seq(Token)
  /\ \A t \in Token : /\ Announces(t) => t[3] \in Nat
                      /\ t[1] = "size" => t[2] \in Nat
  <1>1. ASSUME NEW m \in Messages PROVE Tokens[m] \in Seq(Token)
    <2> DEFINE t == Tokens[m]
    <2>1. t \in Seq(ToSet(t)) /\ ToSet(t) \subseteq Token
      <3>1. t \in Seq(Alphabet(m))
        BY TokensOf
      <3>2. ToSet(t) \subseteq Token
        BY DEF Token
      <3> HIDE DEF t
      <3>3. QED
        BY <3>1, <3>2, SeqOfOwn
    <2> HIDE DEF t
    <2>2. t \in [1..Len(t) -> ToSet(t)] /\ Len(t) \in Nat
      BY <2>1, LenProperties
    <2>3. t \in [1..Len(t) -> Token]
      BY <2>1, <2>2
    <2>4. QED
      BY <2>2, <2>3, SeqDef DEF t
  <1>2. ASSUME NEW t \in Token
        PROVE  (Announces(t) => t[3] \in Nat) /\ (t[1] = "size" => t[2] \in Nat)
    <2>1. PICK m \in Messages : t \in ToSet(Tokens[m])
      BY DEF Token
    <2>2. t \in Alphabet(m)
      <3>1. Tokens[m] \in Seq(Alphabet(m))
        BY TokensOf
      <3>2. ToSet(Tokens[m]) \subseteq Alphabet(m)
        BY <3>1, ToSetOfSeq
      <3>3. QED
        BY <2>1, <3>2
    <2>3. CASE t \in ToSet(m.body)
      BY <2>3, MessageAssumption DEF Announces
    <2>4. CASE t \in Headers[m]
      BY <2>4, HeadersAreFew DEF Announces
    <2>5. CASE t \in { Line(m.method, m.uri, m.version), Crlf,
                       ChunkSize(Len(m.body)), ChunkSize(0) }
      <3>1. Len(m.body) \in Nat
        BY MessageAssumption, LenProperties
      <3>2. QED
        BY <2>5, <3>1 DEF Line, Crlf, ChunkSize, Announces
    <2>6. QED
      BY <2>2, <2>3, <2>4, <2>5 DEF Alphabet
  <1>3. QED
    BY <1>1, <1>2

-----------------------------------------------------------------------------
(* The lines of a buffer.                                                  *)
LEMMA LineEndOf ==
  ASSUME NEW S, NEW b \in Seq(S)
  PROVE  /\ LineEnd(b) \in 0..Len(b)
         /\ LineEnd(b) = 0 => \A i \in 1..Len(b) : b[i] # Crlf
         /\ LineEnd(b) # 0 => /\ LineEnd(b) \in 1..Len(b)
                              /\ b[LineEnd(b)] = Crlf
                              /\ \A i \in 1..LineEnd(b) - 1 : b[i] # Crlf
         /\ AfterLine(b) = Drop(b, LineEnd(b))
  <1> DEFINE I == { i \in 1..Len(b) : b[i] = Crlf }
             k == LineEnd(b)
  <1>1. k = IF I # {} THEN Min(I) ELSE 0
    BY DEF LineEnd, SelectInSeq
  <1>2. Len(b) \in Nat
    BY LenProperties
  <1>3. AfterLine(b) = Drop(b, k)
    BY DEF AfterLine, Drop
  <1> HIDE DEF k
  <1>4. /\ k \in 0..Len(b)
        /\ k = 0 => I = {}
        /\ k # 0 => k \in I /\ \A i \in 1..k - 1 : i \notin I
    <2> HIDE DEF I
    <2>1. I \subseteq 1..Len(b)
      BY DEF I
    <2>2. QED
      BY <1>1, <2>1, FirstOfSeq
  <1>5. k # 0 => k \in 1..Len(b) /\ b[k] = Crlf /\ \A i \in 1..k - 1 : b[i] # Crlf
    BY <1>2, <1>4
  <1>6. k = 0 => \A i \in 1..Len(b) : b[i] # Crlf
    BY <1>4
  <1>7. QED
    BY <1>3, <1>4, <1>5, <1>6 DEF k

LEMMA FirstLineOf ==
  ASSUME NEW S, NEW b \in Seq(S), LineEnd(b) # 0
  PROVE  /\ FirstLine(b) \in Seq(S)
         /\ Len(FirstLine(b)) = LineEnd(b) - 1
         /\ \A i \in 1..LineEnd(b) - 1 : FirstLine(b)[i] = b[i]
  <1>1. LineEnd(b) \in 1..Len(b) /\ Len(b) \in Nat
    BY LineEndOf, LenProperties
  <1>2. PICK n \in Nat : n = LineEnd(b) - 1 /\ 0 + n = n /\ 0 + 1 = 1 /\ 0 + n <= Len(b)
    BY <1>1
  <1>3. /\ SubSeq(b, 0 + 1, 0 + n) \in Seq(S)
        /\ Len(SubSeq(b, 0 + 1, 0 + n)) = n
        /\ \A i \in 1..n : SubSeq(b, 0 + 1, 0 + n)[i] = b[0 + i]
    BY <1>2, PartOfSeq
  <1>4. \A i \in 1..n : 0 + i = i
    OBVIOUS
  <1>5. QED
    BY <1>2, <1>3, <1>4 DEF FirstLine

LEMMA HeaderOfLine ==
  ASSUME NEW S, NEW l \in Seq(S), IsHeader(l)
  PROVE  \E i \in 1..Len(l) : HeaderOf(l) = l[i] /\ l[i][1] = "header"
  <1> DEFINE I == { i \in 1..Len(l) : l[i][1] = "header" }
  <1>1. I # {}
    BY DEF IsHeader
  <1>2. HeaderOf(l) = l[Min(I)]
    BY <1>1 DEF HeaderOf, SelectInSeq
  <1>3. Min(I) \in I
    <2> HIDE DEF I
    <2>1. I \subseteq Nat
      BY LenProperties DEF I
    <2>2. QED
      BY <1>1, <2>1, LeastOfSet
  <1>4. QED
    BY <1>2, <1>3

-----------------------------------------------------------------------------
(* Reading a line: an empty one, or one with a header.  Neither reads past *)
(* the request line that comes before the next announced length.           *)
LEMMA AheadOfLine ==
  ASSUME NEW S, NEW r \in Seq(S), Ahead(r),
         NEW e \in 1..Len(r), r[e] = Crlf, \A i \in 1..e - 1 : r[i] # Crlf,
         e = 1 \/ \E i \in 1..e - 1 : r[i][1] = "header"
  PROVE  Ahead(Drop(r, e)) /\ \A i \in 1..e - 1 : ~Announces(r[i])
  <1> DEFINE d == Drop(r, e)
  <1>1. Len(r) \in Nat /\ e \in 0..Len(r)
    BY LenProperties
  <1>2. Len(d) = Len(r) - e /\ \A i \in 1..Len(r) - e : d[i] = r[e + i]
    BY <1>1, DropOfSeq
  <1> HIDE DEF d
  <1>3. \A i \in 1..e - 1 : ~Announces(r[i])
    <2>1. SUFFICES ASSUME NEW i \in 1..e - 1, Announces(r[i]) PROVE FALSE
      OBVIOUS
    <2>2. i \in 1..Len(r)
      BY <1>1
    <2>3. PICK p \in 1..i - 1 : r[p + 1] = Crlf
      BY <2>1, <2>2 DEF Ahead
    <2>4. p + 1 \in 1..e - 1
      BY <1>1
    <2>5. QED
      BY <2>3, <2>4
  <1>4. ASSUME NEW q \in 1..Len(d), Announces(d[q])
        PROVE  \E p \in 1..q - 1 :
                 /\ d[p][1] = "request" /\ d[p + 1] = Crlf
                 /\ \A x \in 1..p : d[x][1] = "header" => EndedBefore(d, x, p - 1)
    <2>1. e + q \in 1..Len(r) /\ d[q] = r[e + q]
      BY <1>1, <1>2
    <2>2. PICK o \in 1..(e + q) - 1 :
            /\ r[o][1] = "request" /\ r[o + 1] = Crlf
            /\ \A x \in 1..o : r[x][1] = "header" => EndedBefore(r, x, o - 1)
      BY <1>4, <2>1 DEF Ahead
    <2>3. o > e
      <3>1. o # e
        BY <2>2 DEF Crlf
      <3>2. SUFFICES ASSUME o < e PROVE FALSE
        BY <1>1, <3>1
      <3>3. o + 1 = e
        <4>1. o + 1 \in 1..e - 1 \/ o + 1 = e
          BY <1>1, <3>2
        <4>2. QED
          BY <2>2, <4>1
      <3>4. PICK i \in 1..e - 1 : r[i][1] = "header"
        BY <1>1, <3>2
      <3>5. i \in 1..o
        BY <1>1, <3>3
      <3>6. PICK y \in i + 1..o - 1 : r[y] = Crlf
        BY <2>2, <3>4, <3>5 DEF EndedBefore
      <3>7. y \in 1..e - 1
        BY <1>1, <3>3
      <3>8. QED
        BY <3>6, <3>7
    <2>4. PICK p \in 1..q - 1 : o = e + p
      <3>1. o - e \in 1..q - 1 /\ o = e + (o - e)
        BY <1>1, <2>3
      <3>2. QED
        BY <3>1
    <2>5. d[p] = r[o] /\ d[p + 1] = r[o + 1]
      <3>1. p \in 1..Len(r) - e /\ p + 1 \in 1..Len(r) - e /\ e + (p + 1) = o + 1
        BY <1>1, <1>2, <2>4
      <3>2. QED
        BY <1>2, <2>4, <3>1
    <2>6. ASSUME NEW x \in 1..p, d[x][1] = "header" PROVE EndedBefore(d, x, p - 1)
      <3>1. e + x \in 1..o /\ x \in 1..Len(r) - e
        BY <1>1, <1>2, <2>4
      <3>2. r[e + x][1] = "header"
        BY <1>2, <2>6, <3>1
      <3>3. PICK y \in (e + x) + 1..o - 1 : r[y] = Crlf
        BY <2>2, <3>1, <3>2 DEF EndedBefore
      <3>4. /\ y - e \in x + 1..p - 1 /\ y - e \in 1..Len(r) - e
            /\ e + (y - e) = y
        BY <1>1, <1>2, <2>4
      <3>5. d[y - e] = Crlf
        BY <1>2, <3>3, <3>4
      <3>6. QED
        BY <3>4, <3>5 DEF EndedBefore
    <2>7. QED
      BY <2>2, <2>5, <2>6
  <1>5. Ahead(d)
    BY <1>4 DEF Ahead
  <1>6. QED
    BY <1>3, <1>5 DEF d

LEMMA InHeadersLine ==
  ASSUME NEW S, NEW r \in Seq(S), InHeaders(r),
         NEW e \in 1..Len(r), r[e] = Crlf, \A i \in 1..e - 1 : r[i] # Crlf
  PROVE  /\ e # 1 => InHeaders(Drop(r, e))
         /\ e = 1 => Ahead(Drop(r, e))
  <1>1. Len(r) \in Nat /\ e \in 0..Len(r)
    BY LenProperties
  <1>2. PICK k \in Nat :
          /\ 2 * k + 1 <= Len(r)
          /\ \A i \in 1..k : r[2 * i - 1] # Crlf /\ r[2 * i] = Crlf
          /\ r[2 * k + 1] = Crlf
          /\ Ahead(Drop(r, 2 * k + 1))
    BY DEF InHeaders
  <1>3. k # 0 => 1 \in 1..k /\ 2 * 1 - 1 = 1 /\ 2 * 1 = 2
    BY <1>2
  <1>4. CASE e = 1
    <2>1. k = 0
      BY <1>2, <1>3, <1>4
    <2>2. QED
      BY <1>2, <1>4, <2>1
  <1>5. CASE e # 1
    <2>1. k # 0
      <3>1. SUFFICES ASSUME k = 0 PROVE FALSE
        OBVIOUS
      <3>2. r[1] = Crlf
        BY <1>2, <3>1
      <3>3. 1 \in 1..e - 1
        BY <1>1, <1>5
      <3>4. QED
        BY <3>2, <3>3
    <2>2. r[1] # Crlf /\ r[2] = Crlf
      BY <1>2, <1>3, <2>1
    <2>3. e = 2
      <3>1. ~(2 \in 1..e - 1) /\ e \in Nat /\ e > 1
        BY <1>1, <1>5, <2>2
      <3>2. QED
        BY <3>1
    <2>4. PICK j \in Nat : k = j + 1 /\ 2 * k + 1 = (2 * j + 1) + 2
      <3>1. k - 1 \in Nat /\ k = (k - 1) + 1 /\ 2 * k + 1 = (2 * (k - 1) + 1) + 2
        BY <1>2, <2>1
      <3>2. QED
        BY <3>1
    <2> DEFINE d == Drop(r, 2)
    <2>5. d \in Seq(S) /\ Len(d) = Len(r) - 2 /\ \A i \in 1..Len(r) - 2 : d[i] = r[2 + i]
      <3>1. 2 \in 0..Len(r)
        BY <1>1, <2>3
      <3>2. QED
        BY <3>1, DropOfSeq
    <2> HIDE DEF d
    <2>6. 2 * j + 1 <= Len(d)
      BY <1>1, <1>2, <2>4, <2>5
    <2>7. ASSUME NEW i \in 1..j PROVE d[2 * i - 1] # Crlf /\ d[2 * i] = Crlf
      <3>1. /\ i + 1 \in 1..k
            /\ 2 + (2 * i - 1) = 2 * (i + 1) - 1 /\ 2 + 2 * i = 2 * (i + 1)
            /\ 2 * i - 1 \in 1..Len(r) - 2 /\ 2 * i \in 1..Len(r) - 2
        BY <1>1, <1>2, <2>4
      <3>2. r[2 * (i + 1) - 1] # Crlf /\ r[2 * (i + 1)] = Crlf
        BY <1>2, <3>1
      <3>3. QED
        BY <2>5, <3>1, <3>2
    <2>8. d[2 * j + 1] = Crlf
      <3>1. 2 * j + 1 \in 1..Len(r) - 2 /\ 2 + (2 * j + 1) = 2 * k + 1
        BY <1>1, <1>2, <2>4
      <3>2. QED
        BY <1>2, <2>5, <3>1
    <2>9. Ahead(Drop(d, 2 * j + 1))
      <3>1. PICK n \in Nat : n = 2 * j + 1
        BY <2>4
      <3>2. 2 \in 0..Len(r) /\ n \in 0..Len(r) - 2 /\ 2 + n = 2 * k + 1
        BY <1>1, <1>2, <2>3, <2>4, <3>1
      <3>3. Drop(Drop(r, 2), n) = Drop(r, 2 + n)
        BY <3>2, DropOfDrop
      <3>4. QED
        BY <1>2, <3>1, <3>2, <3>3 DEF d
    <2>10. InHeaders(d)
      BY <2>6, <2>7, <2>8, <2>9 DEF InHeaders
    <2>11. QED
      BY <1>5, <2>3, <2>10 DEF d
  <1>6. QED
    BY <1>4, <1>5

LEMMA EndedDrop ==
  ASSUME NEW S, NEW r \in Seq(S), Ended(r), NEW n \in 0..Len(r)
  PROVE  Ended(Drop(r, n))
  <1> DEFINE d == Drop(r, n)
  <1>1. Len(r) \in Nat
    BY LenProperties
  <1>2. Len(d) = Len(r) - n /\ \A i \in 1..Len(r) - n : d[i] = r[n + i]
    BY DropOfSeq
  <1> HIDE DEF d
  <1>3. ASSUME NEW x \in 1..Len(d), d[x][1] = "header" PROVE EndedBefore(d, x, Len(d))
    <2>1. n + x \in 1..Len(r) /\ r[n + x][1] = "header"
      BY <1>1, <1>2, <1>3
    <2>2. PICK y \in (n + x) + 1..Len(r) : r[y] = Crlf
      BY <2>1 DEF Ended, EndedBefore
    <2>3. y - n \in x + 1..Len(d) /\ y - n \in 1..Len(r) - n /\ n + (y - n) = y
      BY <1>1, <1>2
    <2>4. d[y - n] = Crlf
      BY <1>2, <2>2, <2>3
    <2>5. QED
      BY <2>3, <2>4 DEF EndedBefore
  <1>4. QED
    BY <1>3 DEF Ended, d

LEMMA SectionedDrop ==
  ASSUME NEW S, NEW r \in Seq(S), Sectioned(r), NEW n \in 0..Len(r)
  PROVE  Sectioned(Drop(r, n))
  <1> DEFINE d == Drop(r, n)
  <1>1. Len(r) \in Nat
    BY LenProperties
  <1>2. Len(d) = Len(r) - n /\ \A i \in 1..Len(r) - n : d[i] = r[n + i]
    BY DropOfSeq
  <1>3. ASSUME NEW c \in 1..Len(d) - 1, d[c][1] = "request", d[c + 1] = Crlf
        PROVE  InHeaders(Drop(d, c + 1)) \/ Ahead(Drop(d, c + 1))
    <2> HIDE DEF d
    <2>1. PICK k \in Nat : k = c + 1 /\ k \in 0..Len(r) - n /\ k \in 1..Len(r) - n
      BY <1>1, <1>2
    <2>2. /\ n + c \in 1..Len(r) - 1 /\ c \in 1..Len(r) - n
          /\ (n + c) + 1 = n + k
      BY <1>1, <1>2, <2>1
    <2>3. r[n + c][1] = "request" /\ r[(n + c) + 1] = Crlf
      BY <1>2, <1>3, <2>1, <2>2
    <2>4. InHeaders(Drop(r, n + k)) \/ Ahead(Drop(r, n + k))
      BY <2>2, <2>3 DEF Sectioned
    <2>5. Drop(d, k) = Drop(r, n + k)
      BY <2>1, DropOfDrop DEF d
    <2>6. QED
      BY <2>1, <2>4, <2>5
  <1> HIDE DEF d
  <1>4. QED
    BY <1>3 DEF Sectioned, d

-----------------------------------------------------------------------------
(* What a client sends next begins with a request line.                    *)
Begins(t) == Len(t) > 1 /\ t[1][1] = "request" /\ t[2] = Crlf

LEMMA AheadOfConcat ==
  ASSUME NEW S, NEW r \in Seq(S), NEW t \in Seq(S), Ended(r), Ahead(r), Begins(t)
  PROVE  Ahead(r \o t)
  <1> DEFINE c == r \o t
  <1>1. Len(r) \in Nat /\ Len(t) \in Nat
    BY LenProperties
  <1>2. /\ Len(c) = Len(r) + Len(t)
        /\ \A i \in 1..Len(r) + Len(t) : c[i] = IF i <= Len(r) THEN r[i] ELSE t[i - Len(r)]
    BY ConcatProperties
  <1> HIDE DEF c
  <1>3. \A i \in 1..Len(r) : c[i] = r[i]
    BY <1>1, <1>2
  <1>4. ASSUME NEW q \in 1..Len(c), Announces(c[q])
        PROVE  \E p \in 1..q - 1 :
                 /\ c[p][1] = "request" /\ c[p + 1] = Crlf
                 /\ \A x \in 1..p : c[x][1] = "header" => EndedBefore(c, x, p - 1)
    <2>1. CASE q <= Len(r)
      <3>1. q \in 1..Len(r) /\ Announces(r[q])
        BY <1>1, <1>3, <1>4, <2>1
      <3>2. PICK p \in 1..q - 1 :
              /\ r[p][1] = "request" /\ r[p + 1] = Crlf
              /\ \A x \in 1..p : r[x][1] = "header" => EndedBefore(r, x, p - 1)
        BY <3>1 DEF Ahead
      <3>3. \A y \in 1..p + 1 : y \in 1..Len(r)
        BY <1>1, <3>1
      <3>4. \A y \in 1..p + 1 : c[y] = r[y]
        BY <1>3, <3>3
      <3>5. p \in 1..p + 1 /\ p + 1 \in 1..p + 1
        OBVIOUS
      <3>6. ASSUME NEW x \in 1..p, c[x][1] = "header" PROVE EndedBefore(c, x, p - 1)
        <4>1. r[x][1] = "header"
          BY <3>4, <3>6
        <4>2. PICK y \in x + 1..p - 1 : r[y] = Crlf
          BY <3>2, <4>1 DEF EndedBefore
        <4>3. c[y] = Crlf
          BY <3>4, <4>2
        <4>4. QED
          BY <4>3 DEF EndedBefore
      <3>7. QED
        BY <3>2, <3>4, <3>5, <3>6
    <2>2. CASE ~(q <= Len(r))
      <3>1. PICK p \in Nat : p = Len(r) + 1
        BY <1>1
      <3>2. /\ p \in 1..Len(r) + Len(t) /\ ~(p <= Len(r)) /\ p - Len(r) = 1
            /\ p + 1 \in 1..Len(r) + Len(t) /\ ~(p + 1 <= Len(r)) /\ (p + 1) - Len(r) = 2
            /\ p - 1 = Len(r)
        BY <1>1, <3>1 DEF Begins
      <3>3. c[p][1] = "request" /\ c[p + 1] = Crlf
        BY <1>2, <3>2 DEF Begins
      <3>4. p \in 1..q - 1
        <4>1. q # p
          BY <1>4, <3>3 DEF Announces
        <4>2. QED
          BY <1>1, <1>2, <2>2, <3>1, <4>1
      <3>5. ASSUME NEW x \in 1..p, c[x][1] = "header" PROVE EndedBefore(c, x, p - 1)
        <4>1. x \in 1..Len(r)
          BY <1>1, <3>1, <3>3, <3>5
        <4>2. PICK y \in x + 1..Len(r) : r[y] = Crlf
          BY <1>3, <3>5, <4>1 DEF Ended, EndedBefore
        <4>3. y \in 1..Len(r) /\ c[y] = Crlf
          BY <1>1, <1>3, <4>2
        <4>4. QED
          BY <3>2, <4>2, <4>3 DEF EndedBefore
      <3>6. QED
        BY <3>3, <3>4, <3>5
    <2>3. QED
      BY <2>1, <2>2
  <1>5. QED
    BY <1>4 DEF Ahead, c

LEMMA InHeadersOfConcat ==
  ASSUME NEW S, NEW r \in Seq(S), NEW t \in Seq(S), Ended(r), InHeaders(r), Begins(t)
  PROVE  InHeaders(r \o t)
  <1> DEFINE c == r \o t
  <1>1. Len(r) \in Nat /\ Len(t) \in Nat
    BY LenProperties
  <1>2. /\ Len(c) = Len(r) + Len(t)
        /\ \A i \in 1..Len(r) + Len(t) : c[i] = IF i <= Len(r) THEN r[i] ELSE t[i - Len(r)]
    BY ConcatProperties
  <1> HIDE DEF c
  <1>3. \A i \in 1..Len(r) : c[i] = r[i]
    BY <1>1, <1>2
  <1>4. PICK k \in Nat :
          /\ 2 * k + 1 <= Len(r)
          /\ \A i \in 1..k : r[2 * i - 1] # Crlf /\ r[2 * i] = Crlf
          /\ r[2 * k + 1] = Crlf
          /\ Ahead(Drop(r, 2 * k + 1))
    BY DEF InHeaders
  <1>5. PICK n \in Nat : n = 2 * k + 1
    BY <1>4
  <1>6. 2 * k + 1 <= Len(c) /\ c[2 * k + 1] = Crlf
    <2>1. n \in 1..Len(r) /\ n <= Len(c)
      BY <1>1, <1>2, <1>4, <1>5
    <2>2. QED
      BY <1>3, <1>4, <1>5, <2>1
  <1>7. ASSUME NEW i \in 1..k PROVE c[2 * i - 1] # Crlf /\ c[2 * i] = Crlf
    <2>1. 2 * i - 1 \in 1..Len(r) /\ 2 * i \in 1..Len(r)
      BY <1>1, <1>4
    <2>2. QED
      BY <1>3, <1>4, <2>1
  <1>8. Ahead(Drop(c, n))
    <2>1. n \in 0..Len(r)
      BY <1>4, <1>5
    <2>2. Drop(r, n) \in Seq(S) /\ Ended(Drop(r, n)) /\ Ahead(Drop(r, n))
      BY <1>4, <1>5, <2>1, DropOfSeq, EndedDrop
    <2>3. Ahead(Drop(r, n) \o t)
      BY <2>2, AheadOfConcat
    <2>4. Drop(r, n) \o t = Drop(c, n)
      BY <2>1, DropOfConcat DEF c
    <2>5. QED
      BY <2>3, <2>4
  <1>9. InHeaders(c)
    BY <1>5, <1>6, <1>7, <1>8 DEF InHeaders
  <1>10. QED
    BY <1>9 DEF c

LEMMA EndedConcat ==
  ASSUME NEW S, NEW r \in Seq(S), NEW t \in Seq(S), Ended(r), Ended(t)
  PROVE  Ended(r \o t)
  <1> DEFINE c == r \o t
  <1>1. Len(r) \in Nat /\ Len(t) \in Nat
    BY LenProperties
  <1>2. /\ Len(c) = Len(r) + Len(t)
        /\ \A i \in 1..Len(r) + Len(t) : c[i] = IF i <= Len(r) THEN r[i] ELSE t[i - Len(r)]
    BY ConcatProperties
  <1> HIDE DEF c
  <1>3. ASSUME NEW x \in 1..Len(c), c[x][1] = "header" PROVE EndedBefore(c, x, Len(c))
    <2>1. CASE x <= Len(r)
      <3>1. x \in 1..Len(r) /\ r[x][1] = "header"
        BY <1>1, <1>2, <1>3, <2>1
      <3>2. PICK y \in x + 1..Len(r) : r[y] = Crlf
        BY <3>1 DEF Ended, EndedBefore
      <3>3. y \in x + 1..Len(c) /\ y \in 1..Len(r) + Len(t) /\ y <= Len(r)
        BY <1>1, <1>2, <3>1
      <3>4. c[y] = Crlf
        BY <1>2, <3>2, <3>3
      <3>5. QED
        BY <3>3, <3>4 DEF EndedBefore
    <2>2. CASE ~(x <= Len(r))
      <3>1. x - Len(r) \in 1..Len(t) /\ t[x - Len(r)][1] = "header"
        BY <1>1, <1>2, <1>3, <2>2
      <3>2. PICK y \in (x - Len(r)) + 1..Len(t) : t[y] = Crlf
        BY <3>1 DEF Ended, EndedBefore
      <3>3. PICK z \in x + 1..Len(c) : z - Len(r) = y /\ ~(z <= Len(r))
        <4>1. Len(r) + y \in x + 1..Len(c) /\ (Len(r) + y) - Len(r) = y /\ ~(Len(r) + y <= Len(r))
          BY <1>1, <1>2, <2>2
        <4>2. QED
          BY <4>1
      <3>4. c[z] = Crlf
        <4>1. z \in 1..Len(r) + Len(t)
          BY <1>1, <1>2
        <4>2. QED
          BY <1>2, <3>2, <3>3, <4>1
      <3>5. QED
        BY <3>4 DEF EndedBefore
    <2>3. QED
      BY <2>1, <2>2
  <1>4. QED
    BY <1>3 DEF Ended, c

LEMMA SectionedConcat ==
  ASSUME NEW S, NEW r \in Seq(S), NEW t \in Seq(S), Ended(r), Sectioned(r),
         Sectioned(t), Begins(t)
  PROVE  Sectioned(r \o t)
  <1> DEFINE c == r \o t
  <1>1. Len(r) \in Nat /\ Len(t) \in Nat
    BY LenProperties
  <1>2. /\ Len(c) = Len(r) + Len(t)
        /\ \A i \in 1..Len(r) + Len(t) : c[i] = IF i <= Len(r) THEN r[i] ELSE t[i - Len(r)]
    BY ConcatProperties
  <1> HIDE DEF c
  <1>3. ASSUME NEW x \in 1..Len(c) - 1, c[x][1] = "request", c[x + 1] = Crlf
        PROVE  InHeaders(Drop(c, x + 1)) \/ Ahead(Drop(c, x + 1))
    <2>1. CASE x + 1 <= Len(r)
      <3>1. /\ x \in 1..Len(r) - 1 /\ x \in 1..Len(r) + Len(t) /\ x <= Len(r)
            /\ x + 1 \in 1..Len(r) + Len(t)
        BY <1>1, <2>1
      <3>2. r[x][1] = "request" /\ r[x + 1] = Crlf
        BY <1>2, <1>3, <2>1, <3>1
      <3>3. PICK n \in Nat : n = x + 1 /\ n \in 0..Len(r)
        BY <1>1, <2>1
      <3>4. InHeaders(Drop(r, n)) \/ Ahead(Drop(r, n))
        BY <3>1, <3>2, <3>3 DEF Sectioned
      <3>5. Drop(r, n) \in Seq(S) /\ Ended(Drop(r, n))
        BY <3>3, DropOfSeq, EndedDrop
      <3>6. InHeaders(Drop(r, n) \o t) \/ Ahead(Drop(r, n) \o t)
        BY <3>4, <3>5, AheadOfConcat, InHeadersOfConcat
      <3>7. Drop(r, n) \o t = Drop(c, n)
        BY <3>3, DropOfConcat DEF c
      <3>8. QED
        BY <3>3, <3>6, <3>7
    <2>2. CASE x = Len(r)
      <3>1. x + 1 \in 1..Len(r) + Len(t) /\ ~(x + 1 <= Len(r)) /\ (x + 1) - Len(r) = 1
        BY <1>1, <2>2 DEF Begins
      <3>2. t[1] = Crlf
        BY <1>2, <1>3, <3>1
      <3>3. QED
        BY <3>2 DEF Begins, Crlf
    <2>3. CASE x > Len(r)
      <3>1. PICK z \in 1..Len(t) - 1 : x = Len(r) + z
        <4>1. x - Len(r) \in 1..Len(t) - 1 /\ x = Len(r) + (x - Len(r))
          BY <1>1, <1>2, <2>3
        <4>2. QED
          BY <4>1
      <3>2. /\ x \in 1..Len(r) + Len(t) /\ ~(x <= Len(r)) /\ x - Len(r) = z
            /\ x + 1 \in 1..Len(r) + Len(t) /\ ~(x + 1 <= Len(r))
            /\ (x + 1) - Len(r) = z + 1
        BY <1>1, <1>2, <3>1
      <3>3. t[z][1] = "request" /\ t[z + 1] = Crlf
        BY <1>2, <1>3, <3>2
      <3>4. PICK n \in Nat : n = z + 1 /\ n \in 0..Len(t) /\ Len(r) + n = x + 1
        BY <1>1, <3>1
      <3>5. InHeaders(Drop(t, n)) \/ Ahead(Drop(t, n))
        BY <3>3, <3>4 DEF Sectioned
      <3>6. Drop(c, Len(r) + n) = Drop(t, n)
        BY <3>4, DropPastConcat DEF c
      <3>7. QED
        BY <3>4, <3>5, <3>6
    <2>4. QED
      BY <1>1, <1>2, <2>1, <2>2, <2>3
  <1>4. QED
    BY <1>3 DEF Sectioned, c

LEMMA KeptBody ==
  ASSUME NEW m \in Messages, KeepsItsLines(m), NEW i \in 1..Len(Body(m))
  PROVE  /\ ~Announces(Body(m)[i])
         /\ Body(m)[i][1] = "header" => EndedBefore(Body(m), i, Len(Body(m)))
  <1>1. CASE Body(m)[i] \in { Crlf, ChunkSize(Len(m.body)), ChunkSize(0) }
    BY <1>1 DEF Crlf, ChunkSize, Announces
  <1>2. CASE Body(m)[i] \notin { Crlf, ChunkSize(Len(m.body)), ChunkSize(0) }
    <2>1. PICK j \in 1..Len(m.body) :
            /\ Body(m)[i] = m.body[j]
            /\ Len(m.body) - j <= Len(Body(m)) - i
            /\ \A n \in 1..Len(m.body) - j : Body(m)[i + n] = m.body[j + n]
      BY <1>2, BodyTokens
    <2>2. Len(m.body) \in Nat /\ Len(Body(m)) \in Nat
      BY BodyTokens, LenProperties
    <2>3. ~Announces(Body(m)[i])
      BY <2>1 DEF KeepsItsLines, Announces
    <2>4. ASSUME Body(m)[i][1] = "header" PROVE EndedBefore(Body(m), i, Len(Body(m)))
      <3>1. PICK z \in j + 1..Len(m.body) : m.body[z] = Crlf
        BY <2>1, <2>4 DEF KeepsItsLines
      <3>2. z - j \in 1..Len(m.body) - j /\ j + (z - j) = z
            /\ i + (z - j) \in i + 1..Len(Body(m))
        BY SMTT(30), <2>1, <2>2
      <3>3. Body(m)[i + (z - j)] = Crlf
        BY <2>1, <3>1, <3>2
      <3>4. QED
        BY <3>2, <3>3 DEF EndedBefore
    <2>5. QED
      BY <2>3, <2>4
  <1>3. QED
    BY <1>1, <1>2

LEMMA TokensBegin ==
  ASSUME NEW m \in Messages
  PROVE  Begins(Tokens[m])
  <1>1. Len(Body(m)) \in Nat /\ Len(HeaderList(m)) \in Nat
    BY BodyTokens, HeaderListOf, LenProperties
  <1>2. Len(Tokens[m]) > 1
    BY <1>1, TokensOf
  <1>3. Tokens[m][1][1] = "request" /\ Tokens[m][2] = Crlf
    BY TokensOf DEF Line
  <1>4. QED
    BY <1>2, <1>3 DEF Begins

(* Where a token of a message is.                                          *)
LEMMA PlaceOfToken ==
  ASSUME NEW m \in Messages, NEW x \in 1..Len(Tokens[m])
  PROVE  LET t == Tokens[m]
             k == Len(HeaderList(m))
         IN  \/ x = 1
             \/ t[x] = Crlf
             \/ /\ t[x] \in Headers[m]
                /\ x + 1 <= Len(t) /\ t[x + 1] = Crlf
             \/ \E i \in 1..Len(Body(m)) : x = 2 * k + 3 + i /\ t[x] = Body(m)[i]
  <1> DEFINE t == Tokens[m]
             k == Len(HeaderList(m))
             b == Len(Body(m))
  <1>1. /\ Len(t) = 2 * k + 3 + b /\ t[2] = Crlf
        /\ \A i \in 1..k : t[2 * i + 1] = HeaderList(m)[i] /\ t[2 * i + 2] = Crlf
        /\ t[2 * k + 3] = Crlf
        /\ \A i \in 1..b : t[2 * k + 3 + i] = Body(m)[i]
    BY TokensOf
  <1>2. b \in Nat /\ k \in Nat /\ \A i \in 1..k : HeaderList(m)[i] \in Headers[m]
    BY BodyTokens, HeaderListOf, LenProperties
  <1>3. PICK i \in Nat : x = 2 * i + 1 \/ x = 2 * i + 2
    <2>1. x \in Nat \ {0}
      BY <1>1, <1>2
    <2>2. (x - 1) \div 2 \in Nat /\ (x = 2 * ((x - 1) \div 2) + 1 \/ x = 2 * ((x - 1) \div 2) + 2)
      BY <2>1
    <2>3. QED
      BY <2>2
  <1> HIDE DEF t, k, b
  <1>4. CASE i \in 1..k
    <2>1. CASE x = 2 * i + 1
      <3>1. t[x] \in Headers[m] /\ t[x + 1] = Crlf /\ x + 1 <= Len(t)
        <4>1. x + 1 = 2 * i + 2
          BY <2>1
        <4>2. x + 1 <= Len(t)
          BY <1>1, <1>2, <1>4, <2>1
        <4>3. QED
          BY <1>1, <1>2, <1>4, <2>1, <4>1, <4>2
      <3>2. QED
        BY <3>1 DEF t
    <2>2. CASE x = 2 * i + 2
      BY <1>1, <1>4, <2>2 DEF t
    <2>3. QED
      BY <1>3, <2>1, <2>2
  <1>5. CASE i = 0
    BY <1>1, <1>3, <1>5 DEF t
  <1>6. CASE x = 2 * k + 3
    BY <1>1, <1>6 DEF t
  <1>7. CASE x > 2 * k + 3
    <2>1. x - (2 * k + 3) \in 1..b /\ x = 2 * k + 3 + (x - (2 * k + 3))
      BY <1>1, <1>2, <1>7 DEF t
    <2>2. \E n \in 1..b : x = 2 * k + 3 + n /\ t[x] = Body(m)[n]
      BY <1>1, <2>1
    <2>3. QED
      BY <2>2 DEF t, k, b
  <1>8. QED
    BY <1>2, <1>3, <1>4, <1>5, <1>6, <1>7

LEMMA TokensSectioned ==
  ASSUME NEW m \in Messages, KeepsItsLines(m)
  PROVE  Ended(Tokens[m]) /\ Sectioned(Tokens[m])
  <1> DEFINE t == Tokens[m]
             k == Len(HeaderList(m))
             b == Len(Body(m))
  <1>1. /\ t \in Seq(Alphabet(m)) /\ Len(t) = 2 * k + 3 + b /\ t[2] = Crlf /\ t[1][1] = "request"
        /\ \A i \in 1..k : t[2 * i + 1] = HeaderList(m)[i] /\ t[2 * i + 2] = Crlf
        /\ t[2 * k + 3] = Crlf
        /\ Drop(t, 2 * k + 3) = Body(m)
        /\ \A i \in 1..b : t[2 * k + 3 + i] = Body(m)[i]
    BY TokensOf DEF Line
  <1>2. b \in Nat /\ k \in Nat /\ \A i \in 1..k : HeaderList(m)[i] \in Headers[m]
    BY BodyTokens, HeaderListOf, LenProperties
  <1>3. \A x \in 1..Len(t) : \/ x = 1
                             \/ t[x] = Crlf
                             \/ /\ t[x] \in Headers[m]
                                /\ x + 1 <= Len(t) /\ t[x + 1] = Crlf
                             \/ \E i \in 1..b : x = 2 * k + 3 + i /\ t[x] = Body(m)[i]
    BY PlaceOfToken
  <1> HIDE DEF t, k, b
  <1>4. ASSUME NEW x \in 1..Len(t), t[x][1] = "header" PROVE EndedBefore(t, x, Len(t))
    <2>1. x # 1 /\ t[x] # Crlf
      BY <1>1, <1>4 DEF Crlf
    <2>2. CASE t[x + 1] = Crlf /\ x + 1 <= Len(t)
      <3>1. x + 1 \in x + 1..Len(t)
        BY <1>1, <1>2, <2>2
      <3>2. QED
        BY <2>2, <3>1 DEF EndedBefore
    <2>3. CASE \E i \in 1..b : x = 2 * k + 3 + i /\ t[x] = Body(m)[i]
      <3>1. PICK i \in 1..b : x = 2 * k + 3 + i /\ t[x] = Body(m)[i]
        BY <2>3
      <3>2. PICK y \in i + 1..b : Body(m)[y] = Crlf
        BY <1>4, <3>1, KeptBody DEF EndedBefore, b
      <3>3. y \in 1..b /\ 2 * k + 3 + y \in x + 1..Len(t)
        BY <1>1, <1>2, <3>1
      <3>4. t[2 * k + 3 + y] = Crlf
        BY <1>1, <3>2, <3>3
      <3>5. QED
        BY <3>3, <3>4 DEF EndedBefore
    <2>4. QED
      BY <1>3, <2>1, <2>2, <2>3
  <1>5. ASSUME NEW x \in 1..Len(t) - 1, t[x][1] = "request", t[x + 1] = Crlf
        PROVE  InHeaders(Drop(t, x + 1)) \/ Ahead(Drop(t, x + 1))
    <2>1. CASE x = 1
      <3> DEFINE d == Drop(t, 2)
      <3>1. /\ 2 \in 0..Len(t) /\ d \in Seq(Alphabet(m)) /\ Len(d) = Len(t) - 2
            /\ \A i \in 1..Len(t) - 2 : d[i] = t[2 + i]
        <4>1. 2 \in 0..Len(t)
          BY <1>1, <1>2
        <4>2. t \in Seq(Alphabet(m))
          BY <1>1
        <4>3. QED
          BY <4>1, <4>2, DropOfSeq
      <3> HIDE DEF d
      <3>2. 2 * k + 1 <= Len(d)
        BY <1>1, <1>2, <3>1
      <3>3. ASSUME NEW i \in 1..k PROVE d[2 * i - 1] # Crlf /\ d[2 * i] = Crlf
        <4>1. /\ 2 * i - 1 \in 1..Len(t) - 2 /\ 2 + (2 * i - 1) = 2 * i + 1
              /\ 2 * i \in 1..Len(t) - 2 /\ 2 + 2 * i = 2 * i + 2
          BY <1>1, <1>2
        <4>2. d[2 * i - 1] = t[2 * i + 1] /\ d[2 * i] = t[2 * i + 2]
          BY <3>1, <4>1
        <4>3. HeaderList(m)[i] # Crlf
          BY <1>2, HeadersAreFew
        <4>4. t[2 * i + 1] = HeaderList(m)[i] /\ t[2 * i + 2] = Crlf
          BY <1>1
        <4>5. QED
          BY <4>2, <4>3, <4>4
      <3>4. d[2 * k + 1] = Crlf
        <4>1. 2 * k + 1 \in 1..Len(t) - 2 /\ 2 + (2 * k + 1) = 2 * k + 3
          BY <1>1, <1>2
        <4>2. QED
          BY <1>1, <3>1, <4>1
      <3>5. Ahead(Drop(d, 2 * k + 1))
        <4>1. PICK n \in Nat : n = 2 * k + 1 /\ n \in 0..Len(t) - 2 /\ 2 + n = 2 * k + 3
          BY <1>1, <1>2
        <4>2. Drop(d, n) = Body(m)
          BY <1>1, <3>1, <4>1, DropOfDrop DEF d
        <4>3. Ahead(Body(m))
          BY KeptBody DEF Ahead
        <4>4. QED
          BY <4>1, <4>2, <4>3
      <3>6. InHeaders(d)
        BY <1>2, <3>2, <3>3, <3>4, <3>5 DEF InHeaders
      <3>7. QED
        BY <2>1, <3>6 DEF d
    <2>2. CASE x # 1
      <3>1. x \in 1..Len(t)
        BY <1>1, <1>2
      <3>2. PICK i \in 1..b : x = 2 * k + 3 + i
        <4>1. t[x] # Crlf /\ t[x] \notin Headers[m]
          BY <1>5, HeadersAreFew DEF Crlf
        <4>2. QED
          BY <1>3, <2>2, <3>1, <4>1
      <3>3. PICK n \in Nat : n = x + 1 /\ n \in 0..Len(t)
        BY <1>1, <1>2
      <3> DEFINE d == Drop(t, n)
      <3>4. Len(d) = Len(t) - n /\ \A q \in 1..Len(t) - n : d[q] = t[n + q]
        <4>1. t \in Seq(Alphabet(m))
          BY <1>1
        <4>2. QED
          BY <3>3, <4>1, DropOfSeq
      <3> HIDE DEF d
      <3>5. ASSUME NEW q \in 1..Len(d) PROVE ~Announces(d[q])
        <4>1. i + 1 + q \in 1..b /\ n + q = 2 * k + 3 + (i + 1 + q)
          BY <1>1, <1>2, <3>2, <3>3, <3>4
        <4>2. d[q] = Body(m)[i + 1 + q]
          BY <1>1, <3>4, <4>1
        <4>3. QED
          BY <4>1, <4>2, KeptBody DEF b
      <3>6. Ahead(d)
        BY <3>5 DEF Ahead
      <3>7. QED
        BY <3>3, <3>6 DEF d
    <2>3. QED
      BY <2>1, <2>2
  <1>6. Ended(t)
    BY <1>4 DEF Ended
  <1>7. Sectioned(t)
    BY <1>5 DEF Sectioned
  <1>8. QED
    BY <1>6, <1>7 DEF t

-----------------------------------------------------------------------------
(* The headers of a request.                                               *)
LEMMA SetHeader ==
  ASSUME NEW r, GoodInfo(r), NEW h \in Token, h[1] = "header"
  PROVE  /\ GoodInfo(setHeader(r, h))
         /\ setHeader(r, h).headers = { x \in r.headers : x[2] # h[2] } \cup {h}
         /\ setHeader(r, h).method = r.method
         /\ setHeader(r, h).uri = r.uri
         /\ setHeader(r, h).version = r.version
         /\ \A name : header(r, name) => header(setHeader(r, h), name)
         /\ ~Announces(h) /\ header(r, "CONTENT-LENGTH") =>
              ContentLength(setHeader(r, h)) = ContentLength(r)
  <1> DEFINE s == setHeader(r, h)
  <1>1. /\ DOMAIN s = {"method", "uri", "version", "headers"}
        /\ s.headers = { x \in r.headers : x[2] # h[2] } \cup {h}
        /\ s.method = r.method /\ s.uri = r.uri /\ s.version = r.version
    BY DEF setHeader, GoodInfo
  <1> HIDE DEF s
  <1>2. h[2] = "CONTENT-LENGTH" => h[3] \in Nat
    BY TokenSeq DEF Announces
  <1>3. GoodInfo(s)
    BY <1>1, <1>2 DEF GoodInfo
  <1>4. ASSUME NEW name, header(r, name) PROVE header(s, name)
    <2>1. PICK x \in r.headers : x[2] = name
      BY <1>4 DEF header
    <2>2. x \in s.headers \/ h[2] = name
      BY <1>1, <2>1
    <2>3. QED
      BY <1>1, <2>1, <2>2 DEF header
  <1>5. ASSUME ~Announces(h), header(r, "CONTENT-LENGTH")
        PROVE  ContentLength(s) = ContentLength(r)
    <2>1. h[2] # "CONTENT-LENGTH"
      BY <1>5 DEF Announces
    <2>2. PICK x \in r.headers : x[2] = "CONTENT-LENGTH"
      BY <1>5 DEF header
    <2>3. x \in s.headers
      BY <1>1, <2>1, <2>2
    <2>4. (CHOOSE y \in r.headers : y[2] = "CONTENT-LENGTH") = x
      BY <2>2 DEF GoodInfo
    <2>5. (CHOOSE y \in s.headers : y[2] = "CONTENT-LENGTH") = x
      BY <1>3, <2>2, <2>3 DEF GoodInfo
    <2>6. QED
      BY <2>4, <2>5 DEF ContentLength
  <1>6. QED
    BY <1>1, <1>3, <1>4, <1>5 DEF s

LEMMA Cleared ==
  ASSUME NEW r, GoodInfo(r)
  PROVE  /\ GoodInfo(cleared(r))
         /\ cleared(r).headers = {}
         /\ cleared(r).method = r.method
         /\ cleared(r) = [r EXCEPT !.headers = {}]
  BY DEF cleared, GoodInfo

LEMMA LengthIsNat ==
  ASSUME NEW r, GoodInfo(r), header(r, "CONTENT-LENGTH")
  PROVE  ContentLength(r) \in Nat
  BY DEF header, ContentLength, GoodInfo

(* The header of the first line of a buffer.                               *)
LEMMA HeaderOfFirstLine ==
  ASSUME NEW b \in Seq(Token), LineEnd(b) > 1, IsHeader(FirstLine(b))
  PROVE  /\ HeaderOf(FirstLine(b)) \in Token /\ HeaderOf(FirstLine(b))[1] = "header"
         /\ \E i \in 1..LineEnd(b) - 1 : HeaderOf(FirstLine(b)) = b[i] /\ b[i][1] = "header"
  <1> DEFINE l == FirstLine(b)
             e == LineEnd(b)
  <1>1. e \in 1..Len(b) /\ Len(b) \in Nat
    <2>1. e \in 0..Len(b) /\ Len(b) \in Nat
      BY LineEndOf, LenProperties
    <2> HIDE DEF e
    <2>2. QED
      BY <2>1 DEF e
  <1>2. l \in Seq(Token) /\ Len(l) = e - 1 /\ \A i \in 1..e - 1 : l[i] = b[i]
    <2>1. e # 0
      BY <1>1
    <2>2. QED
      BY <2>1, FirstLineOf
  <1>3. \E i \in 1..Len(l) : HeaderOf(l) = l[i] /\ l[i][1] = "header"
    <2> HIDE DEF l
    <2>1. IsHeader(l)
      BY DEF l
    <2>2. QED
      BY <1>2, <2>1, HeaderOfLine
  <1> HIDE DEF l, e
  <1>4. PICK i \in 1..e - 1 : HeaderOf(l) = b[i] /\ b[i][1] = "header"
    BY <1>2, <1>3
  <1>5. b[i] \in Token
    <2>1. i \in 1..Len(b)
      BY <1>1
    <2>2. QED
      BY <2>1, ElementOfSeq
  <1>6. QED
    BY <1>4, <1>5 DEF l, e

-----------------------------------------------------------------------------
(* A step of the parser takes tokens from the front of the buffer.         *)
Moved ==
  /\ \E n \in 0..Len(buffer) : buffer' = Drop(buffer, n)
  /\ wire' = wire /\ sent' = sent /\ patient' = patient
  /\ link' \in {link, "closing"}
  /\ GoodInfo(requestInfo') /\ entitySize' \in Nat
  /\ state' \in {"line", "headers", "body"}
  /\ pc' \in {"idle", "line", "headers", "body"}
  /\ chunkedEntity' \in {"no", "size", "chunk", "trailer"}
  /\ dispatched' = dispatched \/ \E d : dispatched' = Append(dispatched, d)

LEMMA ParseMoves ==
  ASSUME Types, Parse
  PROVE  Moved /\ pc # "idle"
  <1> USE DEF Moved
  <1>1. /\ buffer \in Seq(Token) /\ Len(buffer) \in Nat /\ LineEnd(buffer) \in 0..Len(buffer)
        /\ AfterLine(buffer) = Drop(buffer, LineEnd(buffer))
        /\ buffer = Drop(buffer, 0) /\ << >> = Drop(buffer, Len(buffer))
    BY LineEndOf, LenProperties, DropNothing DEF Types
  <1>2. /\ GoodInfo(requestInfo) /\ entitySize \in Nat
        /\ state \in {"line", "headers", "body"}
        /\ pc \in {"idle", "line", "headers", "body"}
        /\ chunkedEntity \in {"no", "size", "chunk", "trailer"}
    BY DEF Types, TypeOK
  <1>3. GoodInfo(cleared(requestInfo))
    BY <1>2, Cleared
  <1>4. /\ buffer' = AfterLine(buffer) => \E n \in 0..Len(buffer) : buffer' = Drop(buffer, n)
        /\ buffer' = buffer => \E n \in 0..Len(buffer) : buffer' = Drop(buffer, n)
        /\ buffer' = << >> => \E n \in 0..Len(buffer) : buffer' = Drop(buffer, n)
    <2>1. 0 \in 0..Len(buffer) /\ Len(buffer) \in 0..Len(buffer)
      BY <1>1
    <2>2. QED
      BY <1>1, <2>1
  <1>5. ASSUME IsHeader(FirstLine(buffer)), LineEnd(buffer) > 1
        PROVE  GoodInfo(setHeader(requestInfo, HeaderOf(FirstLine(buffer))))
    BY <1>1, <1>2, <1>5, HeaderOfFirstLine, SetHeader
  <1>6. ASSUME NEW body, onRequest(requestInfo, body)
        PROVE  /\ link' \in {link, "closing"}
               /\ dispatched' = dispatched \/ \E d : dispatched' = Append(dispatched, d)
    BY <1>6 DEF onRequest
  <1>7. ASSUME NEW body, AtEnd(body), chunkedEntity' = chunkedEntity, entitySize' = entitySize
        PROVE  Moved
    BY <1>2, <1>3, <1>4, <1>6, <1>7 DEF AtEnd
  <1>8. CASE SkipEmptyLine
    BY <1>2, <1>4, <1>8 DEF SkipEmptyLine, client_vars, body_vars
  <1>9. CASE NoRequestLine
    BY <1>2, <1>4, <1>9 DEF NoRequestLine, client_vars, body_vars
  <1>10. CASE RequestLine
    <2>1. GoodInfo(requestInfo')
      <3>1. CASE requestInfo' = requestInfo
        BY <1>2, <3>1
      <3>2. CASE \E a, b, c : requestInfo' = [requestInfo EXCEPT !.method = a, !.uri = b, !.version = c]
        <4>1. PICK a, b, c : requestInfo' = [requestInfo EXCEPT !.method = a, !.uri = b, !.version = c]
          BY <3>2
        <4>2. DOMAIN requestInfo' = DOMAIN requestInfo /\ requestInfo'.headers = requestInfo.headers
          BY <1>2, <4>1 DEF GoodInfo
        <4>3. QED
          BY <1>2, <4>2 DEF GoodInfo
      <3>3. QED
        BY <1>10, <3>1, <3>2 DEF RequestLine
    <2>2. /\ buffer' = AfterLine(buffer) /\ pc = "line"
          /\ entitySize' = entitySize /\ chunkedEntity' = chunkedEntity
          /\ wire' = wire /\ sent' = sent /\ patient' = patient /\ dispatched' = dispatched
          /\ link' \in {link, "closing"}
          /\ state' \in {state, "headers"} /\ pc' \in {"idle", "headers"}
      BY <1>10 DEF RequestLine, Refuse, client_vars, body_vars
    <2>3. QED
      BY <1>2, <1>4, <2>1, <2>2
  <1>11. CASE HeaderLine
    BY <1>2, <1>4, <1>5, <1>11 DEF HeaderLine, Refuse, client_vars, body_vars
  <1>12. CASE EmptyLine
    <2>1. buffer' = AfterLine(buffer) /\ pc = "headers"
      BY <1>12 DEF EmptyLine
    <2>2. CASE /\ onRequest(requestInfo, << >>)
               /\ requestInfo' = cleared(requestInfo)
               /\ state' = "line"
               /\ UNCHANGED << sent, wire, patient, body_vars, pc >>
      BY <1>2, <1>3, <1>4, <1>6, <2>1, <2>2 DEF body_vars
    <2>3. CASE /\ hasEntityBody
               /\ state' = "body"
               /\ UNCHANGED << client_vars, requestInfo, pc, dispatched >>
      <3>1. entitySize' \in Nat /\ chunkedEntity' \in {"no", "size"}
        BY <1>2, <2>3, LengthIsNat DEF hasEntityBody
      <3>2. QED
        BY <1>2, <1>4, <2>1, <2>3, <3>1 DEF client_vars
    <2>4. CASE Refuse /\ UNCHANGED << state, requestInfo, body_vars >>
      BY <1>2, <1>4, <2>1, <2>4 DEF Refuse, body_vars
    <2>5. QED
      BY <1>12, <2>2, <2>3, <2>4 DEF EmptyLine
  <1>13. CASE EndOfLines
    BY <1>2, <1>4, <1>13 DEF EndOfLines, client_vars, body_vars
  <1>14. CASE PlainBody
    BY <1>2, <1>4, <1>7, <1>14 DEF PlainBody, NotAtEnd, client_vars, body_vars
  <1>15. CASE SizeLine
    <2>1. CASE LineEnd(buffer) = 0 /\ NotAtEnd
      BY <1>2, <1>4, <1>15, <2>1 DEF SizeLine, NotAtEnd, client_vars, body_vars
    <2>2. CASE LineEnd(buffer) # 0
      <3>1. LineEnd(buffer) # 0 => /\ FirstLine(buffer) \in Seq(Token)
                                   /\ (Len(FirstLine(buffer)) = 1 => FirstLine(buffer)[1] \in Token)
        <4> DEFINE l == FirstLine(buffer)
        <4>1. SUFFICES ASSUME LineEnd(buffer) # 0
                       PROVE  l \in Seq(Token) /\ (Len(l) = 1 => l[1] \in Token)
          OBVIOUS
        <4>2. l \in Seq(Token)
          BY <1>1, <4>1, FirstLineOf
        <4> HIDE DEF l
        <4>3. Len(l) = 1 => 1 \in 1..Len(l)
          OBVIOUS
        <4>4. QED
          BY <4>2, <4>3, ElementOfSeq
      <3>2. LET l == FirstLine(buffer)
            IN  Len(l) = 1 /\ l[1][1] = "size" => l[1][2] \in Nat
        BY <2>2, <3>1, TokenSeq
      <3>3. /\ buffer' = AfterLine(buffer) /\ pc = "body"
            /\ entitySize' \in Nat
            /\ chunkedEntity' \in {chunkedEntity, "chunk", "trailer"}
            /\ wire' = wire /\ sent' = sent /\ patient' = patient /\ dispatched' = dispatched
            /\ link' \in {link, "closing"}
            /\ state' = state /\ requestInfo' = requestInfo /\ pc' \in {"idle", "body"}
        BY <1>15, <2>2, <3>2 DEF SizeLine, Refuse, client_vars
      <3>4. QED
        BY <1>2, <1>4, <3>3
    <2>3. QED
      BY <2>1, <2>2, <1>15 DEF SizeLine
  <1>16. CASE Chunk
    <2>1. CASE Len(buffer) < entitySize
      BY <1>2, <1>4, <1>16, <2>1 DEF Chunk, NotAtEnd, client_vars, body_vars
    <2>2. CASE ~(Len(buffer) < entitySize)
      <3>1. entitySize \in 0..Len(buffer)
        BY <1>1, <1>2, <2>2
      <3>2. buffer' = Drop(buffer, entitySize)
        BY <1>16, <2>2 DEF Chunk, Drop
      <3>3. QED
        BY <1>2, <1>16, <2>2, <3>1, <3>2 DEF Chunk, client_vars
    <2>3. QED
      BY <2>1, <2>2
  <1>17. CASE Trailer
    <2>1. CASE LineEnd(buffer) > 1
      BY <1>1, <1>2, <1>4, <1>5, <1>17, <2>1 DEF Trailer, Refuse, client_vars, body_vars
    <2>2. CASE ~(LineEnd(buffer) > 1)
      <3>1. \E body : AtEnd(body)
        BY <1>17, <2>2 DEF Trailer
      <3>2. chunkedEntity' = chunkedEntity /\ entitySize' = entitySize /\ pc = "body"
        BY <1>17, <2>2 DEF Trailer, body_vars
      <3>3. QED
        BY <1>7, <3>1, <3>2
    <2>3. QED
      BY <2>1, <2>2
  <1>18. QED
    BY <1>8, <1>9, <1>10, <1>11, <1>12, <1>13, <1>14, <1>15, <1>16, <1>17 DEF Parse

-----------------------------------------------------------------------------
(* What a client has sent.                                                 *)
LEMMA StreamOfNothing == Stream(<< >>) = << >>
  <1>1. Len(<< >>) = 0
    OBVIOUS
  <1>2. [n \in 1..Len(<< >>) |-> Tokens[<< >>[n]]] = << >>
    BY <1>1
  <1>3. QED
    BY <1>2 DEF Stream, FlattenSeq

LEMMA StreamOfAppend ==
  ASSUME NEW ms \in Seq(Messages), NEW m \in Messages
  PROVE  Stream(Append(ms, m)) = Stream(ms) \o Tokens[m]
  <1> DEFINE T == { Tokens[x] : x \in Messages }
             ss == [n \in 1..Len(ms) |-> Tokens[ms[n]]]
             ns == Append(ms, m)
             e == Tokens[m]
  <1>1. Len(ms) \in Nat /\ \A i \in 1..Len(ms) : ms[i] \in Messages
    BY LenProperties, ElementOfSeq
  <1>2. /\ Len(ns) = Len(ms) + 1
        /\ \A i \in 1..Len(ms) : ns[i] = ms[i]
        /\ ns[Len(ms) + 1] = m
    BY AppendProperties
  <1> HIDE DEF ns
  <1>3. ss \in Seq(T) /\ Len(ss) = Len(ms)
    <2>1. ss \in [1..Len(ms) -> T]
      BY <1>1
    <2> HIDE DEF ss, T
    <2>2. QED
      BY <1>1, <2>1, SeqDef
  <1>4. e \in T /\ e \in Seq(Token)
    BY TokenSeq
  <1>5. [n \in 1..Len(ns) |-> Tokens[ns[n]]] = Append(ss, e)
    BY <1>1, <1>2, <1>3
  <1> HIDE DEF ss, T, e
  <1>6. FlattenSeq(Append(ss, e)) = FlattenSeq(ss) \o e
    BY <1>3, <1>4, FlattenAppend
  <1>7. QED
    BY <1>5, <1>6 DEF Stream, ss, e, ns

-----------------------------------------------------------------------------
LEMMA InitInvariant == Init => IInv
  <1> SUFFICES ASSUME Init PROVE IInv
    OBVIOUS
  <1>1. << >> \in Seq(Messages) /\ Len(<< >>) = 0 /\ << >> \in Seq(Token)
        /\ << >> \in Seq(ToSet(<< >>))
    BY EmptySeq
  <1>2. /\ sent \in Seq(Messages) /\ Len(sent) = 0
        /\ buffer \in Seq(Token) /\ wire \in Seq(Token)
        /\ dispatched \in Seq(ToSet(dispatched)) /\ Len(dispatched) = 0
    BY <1>1 DEF Init
  <1>3. /\ requestInfo.headers = {} /\ GoodInfo(requestInfo)
        /\ link = "none" /\ pc = "idle" /\ state = "line" /\ buffer = << >>
        /\ chunkedEntity = "no" /\ entitySize = 0 /\ patient = TRUE
    BY DEF Init, GoodInfo
  <1>4. Types
    <2>1. Len(sent) <= MaxMessages
      BY <1>2, BoundAssumption
    <2>2. QED
      BY <1>2, <1>3, <2>1 DEF Types, TypeOK
  <1>5. Control /\ Framed
    BY <1>3 DEF Control, Framed
  <1>6. \A i : i \notin 1..Len(dispatched)
    BY <1>2
  <1>7. Own
    <2>1. Stream(sent) = << >>
      BY StreamOfNothing DEF Init
    <2>2. QED
      BY <1>1, <1>3, <1>6, <2>1 DEF Own
  <1>8. Announced
    BY <1>3, <1>6 DEF Announced, Reading
  <1>9. Tracked
    BY <1>2, <1>3, <1>6 DEF Tracked
  <1>10. QED
    BY <1>4, <1>5, <1>7, <1>8, <1>9 DEF IInv

LEMMA TypesStep ==
  ASSUME Types, [Next]_vars
  PROVE  Types'
  <1> USE DEF Types
  <1>1. Len(sent) \in Nat /\ sent \in Seq(Messages) /\ Len(sent) <= MaxMessages /\ MaxMessages \in Nat
    BY LenProperties, BoundAssumption DEF TypeOK
  <1>2. CASE Connect
    <2>1. << >> \in Seq(Messages) /\ Len(<< >>) = 0 /\ << >> \in Seq(Token)
          /\ << >> \in Seq(ToSet(<< >>))
      BY EmptySeq
    <2>2. QED
      BY <1>1, <1>2, <2>1 DEF Connect, TypeOK, GoodInfo, body_vars
  <1>3. ASSUME NEW m \in Messages, Send(m) PROVE Types'
    <2>1. sent' \in Seq(Messages) /\ Len(sent') <= MaxMessages
      <3>1. Append(sent, m) \in Seq(Messages) /\ Len(Append(sent, m)) = Len(sent) + 1
        BY <1>1, AppendProperties
      <3>2. QED
        BY <1>1, <1>3, <3>1 DEF Send
    <2>2. wire' \in Seq(Token)
      BY <1>3, TokenSeq, ConcatProperties DEF Send
    <2>3. {patient'} \subseteq BOOLEAN
      BY <1>3 DEF Send
    <2>4. QED
      BY <1>3, <2>1, <2>2, <2>3 DEF Send, TypeOK, GoodInfo, body_vars
  <1>4. CASE onConnectionDie
    <2>1. GoodInfo(requestInfo')
      BY <1>4 DEF onConnectionDie, GoodInfo
    <2>2. << >> \in Seq(Token)
      BY EmptySeq
    <2>3. QED
      BY <1>1, <1>4, <2>1, <2>2 DEF onConnectionDie, TypeOK, GoodInfo, body_vars
  <1>5. ASSUME NEW n \in 1..Len(wire), onReadyRead(n) PROVE Types'
    <2>1. n \in 0..Len(wire)
      BY <1>5, LenProperties
    <2>2. buffer' \in Seq(Token) /\ wire' \in Seq(Token)
      BY <1>5, <2>1, MoveToBuffer DEF onReadyRead, Drop
    <2>3. QED
      BY <1>1, <1>5, <2>2 DEF onReadyRead, TypeOK, GoodInfo, body_vars
  <1>6. CASE Parse
    <2>1. Moved
      BY <1>6, ParseMoves
    <2>2. buffer' \in Seq(Token)
      <3>1. PICK n \in 0..Len(buffer) : buffer' = Drop(buffer, n)
        BY <2>1 DEF Moved
      <3>2. Drop(buffer, n) \in Seq(Token)
        BY DropOfSeq
      <3>3. QED
        BY <3>1, <3>2
    <2>3. dispatched' \in Seq(ToSet(dispatched'))
      <3>1. \A d : Append(dispatched, d) \in Seq(ToSet(Append(dispatched, d)))
        BY AppendToOwn
      <3>2. QED
        BY <2>1, <3>1 DEF Moved
    <2>4. \A h \in requestInfo'.headers : h[1] = "header"
      BY <2>1 DEF Moved, GoodInfo
    <2>5. QED
      BY <1>1, <2>1, <2>2, <2>3, <2>4 DEF Moved, TypeOK
  <1>7. CASE UNCHANGED vars
    BY <1>7 DEF vars, client_vars, body_vars, TypeOK, GoodInfo
  <1>8. QED
    BY <1>2, <1>3, <1>4, <1>5, <1>6, <1>7 DEF Next, Delivery

LEMMA ControlStep ==
  ASSUME Types, Control, [Next]_vars
  PROVE  Control'
  <1> USE DEF Control
  <1>1. GoodInfo(requestInfo) /\ GoodInfo(cleared(requestInfo))
        /\ cleared(requestInfo).method = requestInfo.method
    BY Cleared DEF Types
  <1>2. CASE Connect
    BY <1>2 DEF Connect, body_vars
  <1>3. ASSUME NEW m \in Messages, Send(m) PROVE Control'
    BY <1>3 DEF Send, body_vars
  <1>4. CASE onConnectionDie
    BY <1>1, <1>4 DEF onConnectionDie, GoodInfo
  <1>5. ASSUME NEW n \in 1..Len(wire), onReadyRead(n) PROVE Control'
    BY <1>5 DEF onReadyRead, body_vars
  <1>6. CASE Parse
    <2>1. link # "none" /\ link' # "none"
      <3>1. Moved /\ pc # "idle"
        BY <1>6, ParseMoves
      <3>2. link # "none"
        BY <3>1
      <3>3. QED
        BY <3>1, <3>2 DEF Moved
    <2>2. CASE SkipEmptyLine
      BY <2>1, <2>2 DEF SkipEmptyLine, client_vars
    <2>3. CASE NoRequestLine
      BY <2>1, <2>3 DEF NoRequestLine
    <2>4. CASE RequestLine
      BY <2>1, <2>4 DEF RequestLine, Refuse
    <2>5. CASE HeaderLine
      <3>1. /\ pc = "headers" /\ state' = state /\ pc' \in {"headers", "idle"}
            /\ pc' = "headers" => requestInfo' = setHeader(requestInfo, HeaderOf(FirstLine(buffer)))
        BY <2>5 DEF HeaderLine, Refuse
      <3>2. pc' = "headers" => requestInfo'.method = requestInfo.method
        BY <1>1, <3>1 DEF setHeader, GoodInfo
      <3>3. QED
        BY <2>1, <3>1, <3>2
    <2>6. CASE EmptyLine
      BY <1>1, <2>1, <2>6 DEF EmptyLine, Refuse
    <2>7. CASE EndOfLines
      BY <2>1, <2>7 DEF EndOfLines
    <2>8. CASE PlainBody
      BY <2>1, <2>8 DEF PlainBody, AtEnd, NotAtEnd
    <2>9. CASE SizeLine
      BY <2>1, <2>9 DEF SizeLine, NotAtEnd, Refuse
    <2>10. CASE Chunk
      BY <2>1, <2>10 DEF Chunk, NotAtEnd
    <2>11. CASE Trailer
      BY <2>1, <2>11 DEF Trailer, AtEnd, Refuse
    <2>12. QED
      BY <1>6, <2>2, <2>3, <2>4, <2>5, <2>6, <2>7, <2>8, <2>9, <2>10, <2>11 DEF Parse
  <1>7. CASE UNCHANGED vars
    BY <1>7 DEF vars, client_vars, body_vars
  <1>8. QED
    BY <1>2, <1>3, <1>4, <1>5, <1>6, <1>7 DEF Next, Delivery

LEMMA FramedStep ==
  ASSUME Types, Control, Framed, [Next]_vars
  PROVE  Framed'
  <1> USE DEF Framed
  <1>1. GoodInfo(requestInfo) /\ buffer \in Seq(Token)
    BY DEF Types
  <1>2. \A h \in Token : h[1] = "header" =>
          \A name : header(requestInfo, name) => header(setHeader(requestInfo, h), name)
    BY <1>1, SetHeader
  <1>3. CASE Connect
    BY <1>3 DEF Connect, body_vars, header
  <1>4. ASSUME NEW m \in Messages, Send(m) PROVE Framed'
    BY <1>4 DEF Send, body_vars, header
  <1>5. CASE onConnectionDie
    BY <1>5 DEF onConnectionDie
  <1>6. ASSUME NEW n \in 1..Len(wire), onReadyRead(n) PROVE Framed'
    BY <1>6 DEF onReadyRead, body_vars, header
  <1>7. ASSUME LineEnd(buffer) > 1, IsHeader(FirstLine(buffer)),
               requestInfo' = setHeader(requestInfo, HeaderOf(FirstLine(buffer)))
        PROVE  \A name : header(requestInfo, name) => header(requestInfo', name)
    BY <1>1, <1>2, <1>7, HeaderOfFirstLine
  <1>8. requestInfo' = requestInfo =>
          \A name : header(requestInfo, name) => header(requestInfo', name)
    OBVIOUS
  <1>9. CASE Parse
    <2>1. CASE SkipEmptyLine
      BY <2>1 DEF SkipEmptyLine, body_vars, header
    <2>2. CASE NoRequestLine
      BY <2>2 DEF NoRequestLine, body_vars, header
    <2>3. CASE RequestLine
      <3>1. state' # "body"
        BY <2>3 DEF RequestLine, Control
      <3>2. QED
        BY <3>1
    <2>4. CASE HeaderLine
      <3>1. /\ \A name : header(requestInfo, name) => header(requestInfo', name)
            /\ chunkedEntity' = chunkedEntity /\ state' = state
        BY <1>7, <1>8, <2>4 DEF HeaderLine, body_vars
      <3>2. QED
        BY <3>1 DEF header
    <2>5. CASE EmptyLine
      <3>1. CASE state' = "line"
        BY <3>1
      <3>2. CASE Refuse /\ UNCHANGED << state, requestInfo, body_vars >>
        BY <3>2 DEF body_vars, header
      <3>3. CASE /\ header(requestInfo, "CONTENT-LENGTH") \/ header(requestInfo, "TRANSFER-ENCODING")
                 /\ hasEntityBody
                 /\ requestInfo' = requestInfo
        <4>1. \/ chunkedEntity' # "no" /\ header(requestInfo, "TRANSFER-ENCODING")
              \/ chunkedEntity' = "no" /\ header(requestInfo, "CONTENT-LENGTH")
          BY <3>3 DEF hasEntityBody
        <4>2. QED
          BY <3>3, <4>1 DEF header
      <3>4. QED
        BY <2>5, <3>1, <3>2, <3>3 DEF EmptyLine
    <2>6. CASE EndOfLines
      BY <2>6 DEF EndOfLines, body_vars, header
    <2>7. CASE PlainBody
      BY <2>7 DEF PlainBody, AtEnd, NotAtEnd, body_vars, header
    <2>8. CASE SizeLine
      <3>1. state' = state /\ requestInfo' = requestInfo /\ pc = "body"
            /\ (chunkedEntity # "no" => chunkedEntity' # "no") /\ chunkedEntity = "size"
        BY <2>8 DEF SizeLine, NotAtEnd, body_vars
      <3>2. QED
        BY <3>1 DEF header
    <2>9. CASE Chunk
      <3>1. state' = state /\ requestInfo' = requestInfo
            /\ chunkedEntity' # "no" /\ chunkedEntity = "chunk"
        BY <2>9 DEF Chunk, NotAtEnd, body_vars
      <3>2. QED
        BY <3>1 DEF header
    <2>10. CASE Trailer
      <3>1. CASE LineEnd(buffer) > 1
        <4>1. /\ \A name : header(requestInfo, name) => header(requestInfo', name)
              /\ chunkedEntity' = chunkedEntity /\ state' = state
          BY <1>7, <1>8, <2>10, <3>1 DEF Trailer, body_vars
        <4>2. QED
          BY <4>1 DEF header
      <3>2. CASE ~(LineEnd(buffer) > 1)
        <4>1. state' = "line"
          BY <2>10, <3>2 DEF Trailer, AtEnd
        <4>2. QED
          BY <4>1
      <3>3. QED
        BY <3>1, <3>2
    <2>11. QED
      BY <1>9, <2>1, <2>2, <2>3, <2>4, <2>5, <2>6, <2>7, <2>8, <2>9, <2>10 DEF Parse
  <1>10. CASE UNCHANGED vars
    BY <1>10 DEF vars, client_vars, body_vars, header
  <1>11. QED
    BY <1>3, <1>4, <1>5, <1>6, <1>9, <1>10 DEF Next, Delivery

-----------------------------------------------------------------------------
(* What is still to be parsed, after each action.                          *)
LEMMA RestOfParse ==
  ASSUME Types, Moved
  PROVE  /\ Rest \in Seq(Token)
         /\ \E n \in 0..Len(Rest) : Rest' = Drop(Rest, n)
  <1>1. buffer \in Seq(Token) /\ wire \in Seq(Token)
    BY DEF Types
  <1>2. Len(buffer) \in Nat /\ Len(wire) \in Nat /\ Rest \in Seq(Token)
        /\ Len(Rest) = Len(buffer) + Len(wire)
    BY <1>1, LenProperties, ConcatProperties DEF Rest
  <1>3. PICK n \in 0..Len(buffer) : buffer' = Drop(buffer, n)
    BY DEF Moved
  <1>4. Drop(buffer, n) \o wire = Drop(buffer \o wire, n)
    BY <1>1, DropOfConcat
  <1>5. Rest' = Drop(Rest, n) /\ n \in 0..Len(Rest)
    BY <1>2, <1>3, <1>4 DEF Rest, Moved
  <1>6. QED
    BY <1>2, <1>5

LEMMA RestOfRead ==
  ASSUME Types, NEW n \in 1..Len(wire), onReadyRead(n)
  PROVE  Rest' = Rest
  <1>1. buffer \in Seq(Token) /\ wire \in Seq(Token) /\ n \in 0..Len(wire)
    BY LenProperties DEF Types
  <1>2. (buffer \o SubSeq(wire, 1, n)) \o Drop(wire, n) = buffer \o wire
    BY ZenonT(30), <1>1, MoveToBuffer
  <1>3. QED
    BY <1>2 DEF Rest, onReadyRead, Drop

LEMMA RestOfSend ==
  ASSUME Types, NEW m \in Messages, Send(m)
  PROVE  /\ Rest \in Seq(Token)
         /\ Rest' = Rest \o Tokens[m]
         /\ Stream(sent') = Stream(sent) \o Tokens[m]
  <1> DEFINE t == Tokens[m]
  <1>1. buffer \in Seq(Token) /\ wire \in Seq(Token) /\ t \in Seq(Token)
    BY TokenSeq DEF Types
  <1>2. buffer' = buffer /\ wire' = wire \o t /\ sent' = Append(sent, m)
    BY DEF Send
  <1>3. Stream(sent') = Stream(sent) \o t
    BY <1>2, StreamOfAppend DEF Types, TypeOK
  <1> HIDE DEF t
  <1>4. (buffer \o wire) \o t = buffer \o (wire \o t)
    BY <1>1, ConcatAssociative
  <1>5. Rest \in Seq(Token)
    BY <1>1, ConcatProperties DEF Rest
  <1>6. QED
    BY <1>2, <1>3, <1>4, <1>5 DEF Rest, t

LEMMA RestOfConnect ==
  ASSUME Control, Connect
  PROVE  Rest' = << >> /\ sent' = << >> /\ dispatched' = << >> /\ Stream(sent') = << >>
  <1>1. buffer' = << >> /\ wire' = << >> /\ sent' = << >> /\ dispatched' = << >>
    BY DEF Control, Connect
  <1>2. << >> \o << >> = << >>
    BY EmptySeq, ConcatEmptySeq
  <1>3. QED
    BY <1>1, <1>2, StreamOfNothing DEF Rest

(* A request whose length was announced is what the buffer begins with.    *)
Taken(d) ==
  WithLength(d) =>
    /\ d.body = SubSeq(buffer, 1, entitySize) /\ entitySize <= Len(buffer)
    /\ d.headers = requestInfo.headers
    /\ state = "body" /\ chunkedEntity = "no"

LEMMA Dispatches ==
  ASSUME Types, Control, Framed, Parse
  PROVE  \/ dispatched' = dispatched
         \/ \E d : dispatched' = Append(dispatched, d) /\ Taken(d)
  <1> DEFINE req(body) == [method |-> requestInfo.method, uri |-> requestInfo.uri,
                           version |-> requestInfo.version,
                           headers |-> requestInfo.headers, body |-> body]
  <1>1. ASSUME NEW body, onRequest(requestInfo, body), dispatched' # dispatched
        PROVE  dispatched' = Append(dispatched, req(body))
    BY <1>1 DEF onRequest
  <1>2. \A body : /\ req(body).method = requestInfo.method /\ req(body).body = body
                  /\ req(body).headers = requestInfo.headers
    OBVIOUS
  <1> HIDE DEF req
  <1>3. SUFFICES ASSUME dispatched' # dispatched
                 PROVE  \E d : dispatched' = Append(dispatched, d) /\ Taken(d)
    OBVIOUS
  <1>4. CASE EmptyLine
    <2>1. ~WithBody(requestInfo.method) /\ onRequest(requestInfo, << >>)
      BY <1>3, <1>4 DEF EmptyLine, Refuse, client_vars
    <2>2. ~WithLength(req(<< >>))
      BY <1>2, <2>1 DEF WithLength
    <2>3. QED
      BY <1>1, <1>3, <2>1, <2>2 DEF Taken
  <1>5. CASE PlainBody
    <2>1. /\ pc = "body" /\ chunkedEntity = "no" /\ ~(Len(buffer) < entitySize)
          /\ onRequest(requestInfo, SubSeq(buffer, 1, entitySize))
      BY <1>3, <1>5 DEF PlainBody, NotAtEnd, AtEnd
    <2>2. entitySize <= Len(buffer)
      BY <2>1, LenProperties DEF Types, TypeOK
    <2>3. Taken(req(SubSeq(buffer, 1, entitySize)))
      BY <1>2, <2>1, <2>2 DEF Taken, Control
    <2>4. QED
      BY <1>1, <1>3, <2>1, <2>3
  <1>6. CASE Trailer
    <2>1. PICK body : onRequest(requestInfo, body)
      BY <1>3, <1>6 DEF Trailer, Refuse, AtEnd, client_vars
    <2>2. header(requestInfo, "TRANSFER-ENCODING")
      BY <1>6 DEF Trailer, Control, Framed
    <2>3. ~WithLength(req(body))
      BY <1>2, <2>2 DEF WithLength, header
    <2>4. QED
      BY <1>1, <1>3, <2>1, <2>3 DEF Taken
  <1>7. CASE SkipEmptyLine \/ NoRequestLine \/ EndOfLines
    BY <1>3, <1>7 DEF SkipEmptyLine, NoRequestLine, EndOfLines
  <1>8. CASE RequestLine \/ HeaderLine
    BY <1>3, <1>8 DEF RequestLine, HeaderLine, Refuse
  <1>9. CASE SizeLine \/ Chunk
    BY <1>3, <1>9 DEF SizeLine, Chunk, Refuse, NotAtEnd
  <1>10. QED
    BY <1>4, <1>5, <1>6, <1>7, <1>8, <1>9 DEF Parse

LEMMA OwnStep ==
  ASSUME Types, Control, Framed, Own, [Next]_vars
  PROVE  Own'
  <1>1. CASE Connect
    <2>1. Rest' = << >> /\ dispatched' = << >> /\ Stream(sent') = << >>
      BY <1>1, RestOfConnect
    <2>2. << >> \in Seq(Token) /\ Len(<< >>) = 0 /\ Drop(<< >>, 0) = << >>
      BY EmptySeq, DropNothing
    <2>3. \A i : i \notin 1..Len(dispatched')
      BY <2>1, <2>2
    <2>4. \E k \in 0..Len(Stream(sent')) : Rest' = Drop(Stream(sent'), k)
      BY <2>1, <2>2
    <2>5. QED
      BY <2>1, <2>2, <2>3, <2>4 DEF Own
  <1>2. ASSUME NEW m \in Messages, Send(m) PROVE Own'
    <2> DEFINE s == Stream(sent)
               t == Tokens[m]
               c == Stream(sent')
    <2>1. Rest' = Rest \o t /\ c = s \o t /\ dispatched' = dispatched
      BY <1>2, RestOfSend DEF Send
    <2>2. s \in Seq(Token) /\ t \in Seq(Token) /\ link # "none"
      BY <1>2, TokenSeq DEF Own, Send
    <2>3. PICK k \in 0..Len(s) : Rest = Drop(s, k)
      BY <2>2 DEF Own
    <2> HIDE DEF s, t, c
    <2>4. Len(s) \in Nat /\ Len(t) \in Nat /\ s \o t \in Seq(Token)
          /\ Len(s \o t) = Len(s) + Len(t)
      BY <2>2, LenProperties, ConcatProperties
    <2>5. Drop(s, k) \o t = Drop(s \o t, k)
      BY <2>2, DropOfConcat
    <2>6. k \in 0..Len(c) /\ Rest' = Drop(c, k)
      BY <2>1, <2>3, <2>4, <2>5
    <2>7. ASSUME NEW d, Part(d, s) PROVE Part(d, c)
      <3>1. PICK j, n \in Nat : j + n <= Len(s) /\ d.body = SubSeq(s, j + 1, j + n)
        BY <2>7 DEF Part
      <3>2. SubSeq(s \o t, j + 1, j + n) = SubSeq(s, j + 1, j + n)
        BY <2>2, <3>1, DropBeforeConcat
      <3>3. j + n <= Len(c)
        BY <2>1, <2>4, <3>1
      <3>4. QED
        BY <2>1, <3>1, <3>2, <3>3 DEF Part
    <2>8. \A i \in 1..Len(dispatched') :
            WithLength(dispatched'[i]) => Part(dispatched'[i], c)
      BY <2>1, <2>7 DEF Own, s
    <2>9. QED
      BY <2>1, <2>4, <2>6, <2>8 DEF Own, c
  <1>3. CASE onConnectionDie
    BY <1>3 DEF onConnectionDie, Own
  <1>4. ASSUME NEW n \in 1..Len(wire), onReadyRead(n) PROVE Own'
    <2>1. Rest' = Rest
      BY <1>4, RestOfRead
    <2>2. sent' = sent /\ dispatched' = dispatched /\ link' = link
      BY <1>4 DEF onReadyRead
    <2>3. QED
      BY <2>1, <2>2 DEF Own
  <1>5. CASE Parse
    <2>1. Moved /\ pc # "idle"
      BY <1>5, ParseMoves
    <2>2. link # "none" /\ sent' = sent
      BY <2>1 DEF Control, Moved
    <2> DEFINE s == Stream(sent)
    <2>3. s \in Seq(Token) /\ Len(s) \in Nat
      BY LenProperties DEF Own
    <2>4. PICK k \in 0..Len(s) : Rest = Drop(s, k)
      BY <2>2 DEF Own
    <2>5. PICK n \in 0..Len(Rest) : Rest' = Drop(Rest, n)
      BY <2>1, RestOfParse
    <2> HIDE DEF s
    <2>6. Len(Rest) = Len(s) - k /\ \A i \in 1..Len(s) - k : Rest[i] = s[k + i]
      BY <2>3, <2>4, DropOfSeq
    <2>7. k + n \in 0..Len(s) /\ Rest' = Drop(s, k + n)
      <3>1. n \in 0..Len(s) - k
        BY <2>6
      <3>2. QED
        BY <2>3, <2>4, <2>5, <3>1, DropOfDrop
    <2>8. ASSUME NEW d, Taken(d), WithLength(d) PROVE Part(d, s)
      <3>1. d.body = SubSeq(buffer, 1, entitySize) /\ entitySize <= Len(buffer) /\ entitySize \in Nat
        BY <2>8 DEF Taken, Types, TypeOK
      <3>2. buffer \in Seq(Token) /\ wire \in Seq(Token) /\ Len(buffer) \in Nat /\ Len(wire) \in Nat
        BY LenProperties DEF Types
      <3>3. Rest \in Seq(Token) /\ Len(Rest) = Len(buffer) + Len(wire)
        BY <3>2, ConcatProperties DEF Rest
      <3>4. SubSeq(Rest, 0 + 1, 0 + entitySize) = SubSeq(buffer, 0 + 1, 0 + entitySize)
        <4>1. 0 + entitySize <= Len(buffer)
          BY <3>1, <3>2
        <4>2. QED
          BY <3>1, <3>2, <4>1, DropBeforeConcat DEF Rest
      <3> DEFINE a == SubSeq(Rest, 0 + 1, 0 + entitySize)
                 b == SubSeq(s, k + 1, k + entitySize)
      <3>5. a \in Seq(Token) /\ Len(a) = entitySize /\ \A i \in 1..entitySize : a[i] = Rest[0 + i]
        <4>1. 0 + entitySize <= Len(Rest) /\ 0 \in Nat
          BY <3>1, <3>2, <3>3
        <4>2. QED
          BY <3>1, <3>3, <4>1, PartOfSeq
      <3>6. /\ k \in Nat /\ k + entitySize <= Len(s)
            /\ b \in Seq(Token) /\ Len(b) = entitySize /\ \A i \in 1..entitySize : b[i] = s[k + i]
        <4>1. k \in Nat /\ k + entitySize <= Len(s)
          BY <2>3, <2>6, <3>1, <3>2, <3>3
        <4>2. QED
          BY <2>3, <3>1, <4>1, PartOfSeq
      <3> HIDE DEF a, b
      <3>7. \A i \in 1..entitySize : a[i] = b[i]
        <4>1. SUFFICES ASSUME NEW i \in 1..entitySize PROVE a[i] = b[i]
          OBVIOUS
        <4>2. i \in 1..Len(s) - k /\ 0 + i = i
          BY <2>3, <3>1, <3>6
        <4>3. QED
          BY <2>6, <3>5, <3>6, <4>2
      <3>8. a = b
        BY <3>5, <3>6, <3>7, SameSeq
      <3>9. d.body = b
        <4>1. 0 + 1 = 1 /\ 0 + entitySize = entitySize
          BY <3>1
        <4>2. QED
          BY <3>1, <3>4, <3>8, <4>1 DEF a
      <3>10. QED
        BY <3>1, <3>6, <3>9 DEF Part, b
    <2>9. \A i \in 1..Len(dispatched') : WithLength(dispatched'[i]) => Part(dispatched'[i], s)
      <3>1. \A i \in 1..Len(dispatched) : WithLength(dispatched[i]) => Part(dispatched[i], s)
        BY DEF Own, s
      <3>2. CASE dispatched' = dispatched
        BY <3>1, <3>2
      <3>3. CASE \E d : dispatched' = Append(dispatched, d) /\ Taken(d)
        <4>1. PICK d : dispatched' = Append(dispatched, d) /\ Taken(d)
          BY <3>3
        <4>2. /\ Len(dispatched) \in Nat /\ Len(dispatched') = Len(dispatched) + 1
              /\ \A i \in 1..Len(dispatched) : dispatched'[i] = dispatched[i]
              /\ dispatched'[Len(dispatched) + 1] = d
          BY <4>1, AppendToOwn DEF Types
        <4>3. \A i \in 1..Len(dispatched') : i \in 1..Len(dispatched) \/ i = Len(dispatched) + 1
          BY <4>2
        <4>4. WithLength(d) => Part(d, s)
          BY <2>8, <4>1
        <4>5. QED
          BY <3>1, <4>2, <4>3, <4>4
      <3>4. QED
        BY <1>5, <3>2, <3>3, Dispatches
    <2>10. Stream(sent') = s
      BY <2>2 DEF s
    <2>11. QED
      BY <2>3, <2>7, <2>9, <2>10 DEF Own
  <1>6. CASE UNCHANGED vars
    BY <1>6 DEF vars, client_vars, Own, Rest
  <1>7. QED
    BY <1>1, <1>2, <1>3, <1>4, <1>5, <1>6 DEF Next, Delivery

-----------------------------------------------------------------------------
(* The first line of the buffer is the first line of what is left.         *)
LEMMA LineOfRest ==
  ASSUME Types, LineEnd(buffer) # 0
  PROVE  LET e == LineEnd(buffer)
         IN  /\ Rest \in Seq(Token) /\ e \in 1..Len(Rest) /\ e \in 1..Len(buffer)
             /\ \A i \in 1..e : Rest[i] = buffer[i]
             /\ Rest[e] = Crlf /\ \A i \in 1..e - 1 : Rest[i] # Crlf
             /\ buffer' = AfterLine(buffer) /\ wire' = wire => Rest' = Drop(Rest, e)
  <1> DEFINE e == LineEnd(buffer)
  <1>1. buffer \in Seq(Token) /\ wire \in Seq(Token)
    BY DEF Types
  <1>2. /\ e \in 1..Len(buffer) /\ buffer[e] = Crlf /\ \A i \in 1..e - 1 : buffer[i] # Crlf
        /\ AfterLine(buffer) = Drop(buffer, e)
    BY <1>1, LineEndOf
  <1> HIDE DEF e
  <1>3. /\ Rest \in Seq(Token) /\ Len(Rest) = Len(buffer) + Len(wire)
        /\ \A i \in 1..Len(buffer) + Len(wire) :
             Rest[i] = IF i <= Len(buffer) THEN buffer[i] ELSE wire[i - Len(buffer)]
        /\ Len(buffer) \in Nat /\ Len(wire) \in Nat
    BY <1>1, LenProperties, ConcatProperties DEF Rest
  <1>4. \A i \in 1..e : Rest[i] = buffer[i] /\ i \in 1..Len(Rest)
    BY <1>2, <1>3
  <1>5. e \in 1..e /\ \A i \in 1..e - 1 : i \in 1..e
    BY <1>2
  <1>6. ASSUME buffer' = AfterLine(buffer), wire' = wire PROVE Rest' = Drop(Rest, e)
    <2>1. e \in 0..Len(buffer)
      BY <1>2
    <2>2. Drop(buffer, e) \o wire = Drop(buffer \o wire, e)
      BY <1>1, <2>1, DropOfConcat
    <2>3. QED
      BY <1>2, <1>6, <2>2 DEF Rest
  <1>7. QED
    BY <1>2, <1>3, <1>4, <1>5, <1>6 DEF e

LEMMA AnnouncedStep ==
  ASSUME Types, Control, Framed, Announced, [Next]_vars
  PROVE  Announced'
  <1>1. /\ buffer \in Seq(Token) /\ wire \in Seq(Token) /\ GoodInfo(requestInfo)
        /\ sent \in Seq(Messages) /\ Len(sent) \in Nat /\ entitySize \in Nat
        /\ state \in {"line", "headers", "body"}
    BY LenProperties DEF Types, TypeOK
  <1>2. CASE Connect
    <2>1. Rest' = << >> /\ dispatched' = << >>
      BY <1>2, RestOfConnect
    <2>2. state' = "line"
      BY <1>2 DEF Connect, Control
    <2>3. << >> \in Seq(Token) /\ Len(<< >>) = 0
      BY EmptySeq
    <2>4. (\A i : i \notin 1..Len(<< >>)) /\ (\A i : i \notin 1..Len(<< >>) - 1)
      BY <2>3
    <2>5. Ended(<< >>) /\ Sectioned(<< >>)
      BY <2>4 DEF Ended, Sectioned
    <2>6. QED
      BY <2>1, <2>2, <2>4, <2>5 DEF Announced
  <1>3. ASSUME NEW m \in Messages, Send(m) PROVE Announced'
    <2> SUFFICES ASSUME KeepingClient' PROVE Announced'
      BY DEF Announced
    <2> DEFINE t == Tokens[m]
               r == Rest
    <2>1. Rest' = r \o t /\ r \in Seq(Token) /\ t \in Seq(Token)
      BY <1>3, RestOfSend, TokenSeq
    <2>2. sent' = Append(sent, m) /\ link = "open" /\ link' = link /\ dispatched' = dispatched
          /\ state' = state /\ pc' = pc /\ entitySize' = entitySize
          /\ chunkedEntity' = chunkedEntity /\ requestInfo' = requestInfo
      BY <1>3 DEF Send, body_vars
    <2>3. KeepingClient /\ KeepsItsLines(m)
      <3>1. Len(sent') = Len(sent) + 1 /\ (\A n \in 1..Len(sent) : sent'[n] = sent[n])
            /\ sent'[Len(sent) + 1] = m
        BY <1>1, <2>2, AppendProperties
      <3>2. \A n \in 1..Len(sent') : KeepsItsLines(sent'[n])
        BY DEF KeepingClient
      <3>3. Len(sent) + 1 \in 1..Len(sent') /\ \A n \in 1..Len(sent) : n \in 1..Len(sent')
        BY <1>1, <3>1
      <3>4. QED
        BY <3>1, <3>2, <3>3 DEF KeepingClient
    <2>4. Begins(t) /\ Ended(t) /\ Sectioned(t)
      BY <2>3, TokensBegin, TokensSectioned
    <2>5. Ended(r) /\ Sectioned(r)
          /\ (Reading /\ state = "headers" => InHeaders(r) \/ Ahead(r))
          /\ (Reading /\ state = "body" /\ pc = "headers" => Ahead(r))
      BY <2>2, <2>3 DEF Announced
    <2> HIDE DEF r, t
    <2>6. Ended(r \o t) /\ Sectioned(r \o t)
      BY <2>1, <2>4, <2>5, EndedConcat, SectionedConcat
    <2>7. InHeaders(r) => InHeaders(r \o t)
      BY <2>1, <2>4, <2>5, InHeadersOfConcat
    <2>8. Ahead(r) => Ahead(r \o t)
      BY <2>1, <2>4, <2>5, AheadOfConcat
    <2>9. Reading' = Reading
      BY <2>2 DEF Reading
    <2>10. /\ state = "body" /\ chunkedEntity = "no" => entitySize = ContentLength(requestInfo)
           /\ \A i \in 1..Len(dispatched) :
                WithLength(dispatched[i]) => Len(dispatched[i].body) = ContentLength(dispatched[i])
      BY <2>3 DEF Announced
    <2>11. QED
      BY <2>1, <2>2, <2>5, <2>6, <2>7, <2>8, <2>9, <2>10 DEF Announced
  <1>4. CASE onConnectionDie
    BY <1>4 DEF onConnectionDie, Announced, KeepingClient
  <1>5. ASSUME NEW n \in 1..Len(wire), onReadyRead(n) PROVE Announced'
    <2>1. Rest' = Rest
      BY <1>5, RestOfRead
    <2>2. /\ sent' = sent /\ dispatched' = dispatched /\ link = "open" /\ link' = link
          /\ state' = state /\ pc' = state /\ requestInfo' = requestInfo
          /\ entitySize' = entitySize /\ chunkedEntity' = chunkedEntity
      BY <1>5 DEF onReadyRead, body_vars
    <2>3. Reading /\ ~(state' = "body" /\ pc' = "headers")
      BY <2>2 DEF Reading
    <2>4. QED
      BY <2>1, <2>2, <2>3 DEF Announced, KeepingClient
  <1>6. CASE Parse
    <2>1. Moved /\ pc # "idle" /\ Reading
      BY <1>6, ParseMoves DEF Reading
    <2>2. link # "none" /\ sent' = sent /\ wire' = wire
      BY <2>1 DEF Control, Moved
    <2> SUFFICES ASSUME KeepingClient PROVE Announced'
      BY <2>2 DEF Announced, KeepingClient
    <2>3. /\ state = "body" /\ chunkedEntity = "no" => entitySize = ContentLength(requestInfo)
          /\ \A i \in 1..Len(dispatched) :
               WithLength(dispatched[i]) => Len(dispatched[i].body) = ContentLength(dispatched[i])
          /\ Ended(Rest) /\ Sectioned(Rest)
          /\ state = "headers" => InHeaders(Rest) \/ Ahead(Rest)
          /\ state = "body" /\ pc = "headers" => Ahead(Rest)
      BY <2>1, <2>2 DEF Announced
    <2>4. (Ended(Rest) /\ Sectioned(Rest))'
      <3>1. Rest \in Seq(Token) /\ \E n \in 0..Len(Rest) : Rest' = Drop(Rest, n)
        BY <2>1, RestOfParse
      <3>2. \A n \in 0..Len(Rest) : Ended(Drop(Rest, n)) /\ Sectioned(Drop(Rest, n))
        BY <2>3, <3>1, EndedDrop, SectionedDrop
      <3>3. \A r : r = Rest' => (Ended(r) /\ Sectioned(r))
        BY <3>1, <3>2
      <3>4. QED
        BY <3>3
    <2>5. \A i \in 1..Len(dispatched') :
            WithLength(dispatched'[i]) => Len(dispatched'[i].body) = ContentLength(dispatched'[i])
      <3>1. CASE dispatched' = dispatched
        BY <2>3, <3>1
      <3>2. ASSUME NEW d, dispatched' = Append(dispatched, d), Taken(d)
            PROVE  \A i \in 1..Len(dispatched') :
                     WithLength(dispatched'[i]) => Len(dispatched'[i].body) = ContentLength(dispatched'[i])
        <4>1. WithLength(d) => Len(d.body) = ContentLength(d)
          <5>1. SUFFICES ASSUME WithLength(d) PROVE Len(d.body) = ContentLength(d)
            OBVIOUS
          <5>2. /\ d.body = SubSeq(buffer, 1, entitySize) /\ entitySize <= Len(buffer)
                /\ d.headers = requestInfo.headers
                /\ state = "body" /\ chunkedEntity = "no"
            BY <3>2, <5>1 DEF Taken
          <5>3. 0 + entitySize <= Len(buffer) /\ 0 + 1 = 1 /\ 0 + entitySize = entitySize /\ 0 \in Nat
            BY <1>1, <5>2
          <5>4. Len(SubSeq(buffer, 0 + 1, 0 + entitySize)) = entitySize
            BY <1>1, <5>3, PartOfSeq
          <5>5. Len(d.body) = entitySize
            BY <5>2, <5>3, <5>4
          <5>6. QED
            BY <2>3, <5>2, <5>5 DEF ContentLength
        <4>2. /\ Len(dispatched) \in Nat /\ Len(dispatched') = Len(dispatched) + 1
              /\ \A i \in 1..Len(dispatched) : dispatched'[i] = dispatched[i]
              /\ dispatched'[Len(dispatched) + 1] = d
          BY <3>2, AppendToOwn DEF Types
        <4>3. \A i \in 1..Len(dispatched') : i \in 1..Len(dispatched) \/ i = Len(dispatched) + 1
          BY <4>2
        <4>4. QED
          BY <2>3, <4>1, <4>2, <4>3
      <3>3. QED
        BY <1>6, <3>1, <3>2, Dispatches
    <2> DEFINE e == LineEnd(buffer)
    <2>6. /\ e \in Nat
          /\ e # 0 => /\ Rest \in Seq(Token) /\ e \in 1..Len(Rest)
                      /\ \A i \in 1..e : Rest[i] = buffer[i]
                      /\ Rest[e] = Crlf /\ \A i \in 1..e - 1 : Rest[i] # Crlf
          /\ e # 0 /\ buffer' = AfterLine(buffer) => Rest' = Drop(Rest, e)
      BY <1>1, <2>2, LineOfRest, LineEndOf
    <2>7. SUFFICES /\ (state' = "body" /\ chunkedEntity' = "no") => entitySize' = ContentLength(requestInfo')
                   /\ (Reading' /\ state' = "headers") => (InHeaders(Rest') \/ Ahead(Rest'))
                   /\ (Reading' /\ state' = "body" /\ pc' = "headers") => Ahead(Rest')
      BY <2>4, <2>5 DEF Announced
    <2>8. link' = "closing" /\ pc' = "idle" => ~Reading'
      BY DEF Reading
    <2>9. requestInfo' = requestInfo => ContentLength(requestInfo') = ContentLength(requestInfo)
      OBVIOUS
    <2> HIDE DEF e
    <2>10. CASE SkipEmptyLine \/ NoRequestLine
      BY <2>10 DEF SkipEmptyLine, NoRequestLine, Control
    <2>11. CASE RequestLine
      <3>1. state = "line" /\ e > 1 /\ buffer' = AfterLine(buffer)
        BY <2>11 DEF RequestLine, Control, e
      <3>2. CASE state' # "headers"
        BY <2>11, <3>1, <3>2 DEF RequestLine, Refuse
      <3>3. CASE state' = "headers"
        <4>1. IsRequestLine(FirstLine(buffer))
          BY <2>11, <3>1, <3>3 DEF RequestLine, Refuse
        <4>2. Len(FirstLine(buffer)) = e - 1 /\ \A i \in 1..e - 1 : FirstLine(buffer)[i] = buffer[i]
          BY <1>1, <2>6, <3>1, FirstLineOf DEF e
        <4>3. e = 2 /\ 1 \in 1..e - 1 /\ 1 \in 1..e
          <5>1. Len(FirstLine(buffer)) = 1
            BY <4>1 DEF IsRequestLine
          <5>2. e - 1 = 1 /\ e \in Nat
            BY <2>6, <4>2, <5>1
          <5>3. QED
            BY <5>2
        <4>4. Rest[1][1] = "request" /\ Rest[1 + 1] = Crlf /\ 1 \in 1..Len(Rest) - 1 /\ 1 + 1 = e
          <5>1. Rest[1] = FirstLine(buffer)[1] /\ FirstLine(buffer)[1][1] = "request"
            BY <2>6, <4>1, <4>2, <4>3 DEF IsRequestLine
          <5>2. Len(Rest) \in Nat
            BY <2>6, <4>3, LenProperties
          <5>3. QED
            BY <2>6, <4>3, <5>1, <5>2
        <4>5. InHeaders(Drop(Rest, e)) \/ Ahead(Drop(Rest, e))
          BY <2>3, <4>4 DEF Sectioned
        <4>6. Rest' = Drop(Rest, e)
          BY <2>6, <3>1
        <4>7. QED
          BY <3>3, <4>5, <4>6
      <3>4. QED
        BY <3>2, <3>3
    <2>12. CASE HeaderLine
      <3>1. pc = "headers" /\ e > 1 /\ buffer' = AfterLine(buffer) /\ state' = state
            /\ entitySize' = entitySize /\ chunkedEntity' = chunkedEntity
        BY <2>12 DEF HeaderLine, body_vars, e
      <3>2. CASE ~IsHeader(FirstLine(buffer))
        <4>1. link' = "closing" /\ pc' = "idle" /\ requestInfo' = requestInfo
          BY <2>12, <3>2 DEF HeaderLine, Refuse
        <4>2. QED
          BY <2>3, <2>8, <3>1, <4>1
      <3>3. CASE IsHeader(FirstLine(buffer))
        <4> DEFINE h == HeaderOf(FirstLine(buffer))
        <4>1. requestInfo' = setHeader(requestInfo, h)
          BY <2>12, <3>3 DEF HeaderLine
        <4>2. /\ h \in Token /\ h[1] = "header"
              /\ \E i \in 1..e - 1 : h = buffer[i] /\ buffer[i][1] = "header"
          BY <1>1, <3>1, <3>3, HeaderOfFirstLine DEF e
        <4> HIDE DEF h
        <4>3. PICK i \in 1..e - 1 : h = Rest[i] /\ Rest[i][1] = "header"
          <5>1. \A i \in 1..e - 1 : Rest[i] = buffer[i]
            BY <2>6, <3>1
          <5>2. QED
            BY <4>2, <5>1
        <4>4. Rest' = Drop(Rest, e) /\ e # 0 /\ e # 1
          BY <2>6, <3>1
        <4>5. InHeaders(Rest) => InHeaders(Drop(Rest, e))
          BY <2>6, <4>4, InHeadersLine
        <4>6. Ahead(Rest) => Ahead(Drop(Rest, e)) /\ ~Announces(h)
          <5>1. \E j \in 1..e - 1 : Rest[j][1] = "header"
            BY <4>3
          <5>2. Ahead(Rest) => Ahead(Drop(Rest, e)) /\ \A j \in 1..e - 1 : ~Announces(Rest[j])
            BY <2>6, <4>4, <5>1, AheadOfLine
          <5>3. QED
            BY <4>3, <5>2
        <4>7. state = "body" /\ chunkedEntity = "no" =>
                ContentLength(setHeader(requestInfo, h)) = ContentLength(requestInfo)
          <5>1. SUFFICES ASSUME state = "body", chunkedEntity = "no"
                         PROVE  ContentLength(setHeader(requestInfo, h)) = ContentLength(requestInfo)
            OBVIOUS
          <5>2. ~Announces(h) /\ header(requestInfo, "CONTENT-LENGTH")
            BY <2>3, <3>1, <4>6, <5>1 DEF Framed
          <5>3. QED
            BY <1>1, <4>2, <5>2, SetHeader
        <4>8. QED
          BY <2>3, <3>1, <4>1, <4>4, <4>5, <4>6, <4>7
      <3>4. QED
        BY <3>2, <3>3
    <2>13. CASE EmptyLine
      <3>1. pc = "headers" /\ e = 1 /\ buffer' = AfterLine(buffer)
        BY <2>13 DEF EmptyLine, e
      <3>2. CASE state' = "line"
        BY <3>2
      <3>3. CASE Refuse /\ UNCHANGED << state, requestInfo, body_vars >>
        BY <2>3, <2>8, <3>3 DEF Refuse, body_vars
      <3>4. CASE /\ WithBody(requestInfo.method) /\ hasEntityBody
                 /\ state' = "body" /\ requestInfo' = requestInfo
        <4>1. state = "headers" \/ state = "body"
          BY <1>1, <3>1, <3>4 DEF Control
        <4>2. Rest' = Drop(Rest, e) /\ e # 0
          BY <2>6, <3>1
        <4>3. InHeaders(Rest) => Ahead(Drop(Rest, e))
          BY <2>6, <3>1, <4>2, InHeadersLine
        <4>4. Ahead(Rest) => Ahead(Drop(Rest, e))
          BY <2>6, <3>1, <4>2, AheadOfLine
        <4>5. chunkedEntity' = "no" => entitySize' = ContentLength(requestInfo)
          BY <3>4 DEF hasEntityBody
        <4>6. QED
          BY <2>3, <3>1, <3>4, <4>1, <4>2, <4>3, <4>4, <4>5
      <3>5. QED
        BY <2>13, <3>2, <3>3, <3>4 DEF EmptyLine
    <2>14. CASE EndOfLines
      <3>1. /\ state' = state /\ requestInfo' = requestInfo /\ entitySize' = entitySize
            /\ chunkedEntity' = chunkedEntity /\ buffer' = buffer /\ pc' # "headers"
        BY <2>14 DEF EndOfLines, body_vars
      <3>2. Rest' = Rest
        BY <2>2, <3>1 DEF Rest
      <3>3. QED
        BY <2>3, <3>1, <3>2
    <2>15. CASE PlainBody
      <3>1. state = "body" /\ pc' = "idle" /\ state' \in {"line", "body"}
            /\ (state' = "body" => /\ entitySize' = entitySize /\ chunkedEntity' = chunkedEntity
                                   /\ requestInfo' = requestInfo)
        BY <2>15 DEF PlainBody, NotAtEnd, AtEnd, body_vars, Control
      <3>2. QED
        BY <2>3, <3>1
    <2>16. CASE SizeLine
      BY <2>16 DEF SizeLine, NotAtEnd, Refuse, body_vars, Control
    <2>17. CASE Chunk
      BY <2>17 DEF Chunk, NotAtEnd, body_vars, Control
    <2>18. CASE Trailer
      BY <2>18 DEF Trailer, AtEnd, Refuse, client_vars, body_vars, Control
    <2>19. QED
      BY <1>6, <2>10, <2>11, <2>12, <2>13, <2>14, <2>15, <2>16, <2>17, <2>18 DEF Parse
  <1>7. CASE UNCHANGED vars
    <2>1. Rest' = Rest /\ Reading' = Reading
      BY <1>7 DEF vars, client_vars, Rest, Reading
    <2>2. QED
      BY <1>7, <2>1 DEF vars, client_vars, body_vars, Announced, KeepingClient
  <1>8. QED
    BY <1>2, <1>3, <1>4, <1>5, <1>6, <1>7 DEF Next, Delivery

-----------------------------------------------------------------------------
(* What a plain client sends, piece by piece.                              *)
LEMMA LineOfOne ==
  ASSUME Types, LineEnd(buffer) # 0
  PROVE  /\ Rest[1] = Crlf => LineEnd(buffer) = 1
         /\ Rest[1] # Crlf /\ Rest[2] = Crlf =>
              /\ LineEnd(buffer) = 2
              /\ Len(FirstLine(buffer)) = 1 /\ FirstLine(buffer)[1] = Rest[1]
  <1> DEFINE e == LineEnd(buffer)
             l == FirstLine(buffer)
  <1>1. /\ e \in Nat /\ e # 0 /\ Rest[e] = Crlf
        /\ \A i \in 1..e - 1 : Rest[i] # Crlf
        /\ \A i \in 1..e : Rest[i] = buffer[i]
    BY LineOfRest
  <1>2. Len(l) = e - 1 /\ \A i \in 1..e - 1 : l[i] = buffer[i]
    BY FirstLineOf DEF Types
  <1> HIDE DEF e, l
  <1>3. Rest[1] = Crlf => e = 1
    <2>1. e # 1 => 1 \in 1..e - 1
      BY <1>1
    <2>2. QED
      BY <1>1, <2>1
  <1>4. Rest[1] # Crlf /\ Rest[2] = Crlf => e = 2
    <2>1. e # 1 /\ e # 2 => 2 \in 1..e - 1
      BY <1>1
    <2>2. QED
      BY <1>1, <2>1
  <1>5. e = 2 => Len(l) = 1 /\ l[1] = Rest[1]
    BY <1>1, <1>2
  <1>6. QED
    BY <1>3, <1>4, <1>5 DEF e, l

LEMMA PlaceOfHeader ==
  ASSUME NEW m \in Messages, NEW j \in 0..Len(HeaderList(m))
  PROVE  LET k == Len(HeaderList(m))
             r == Drop(Tokens[m], 2 * j + 2)
         IN  /\ j < k => /\ r[1] = HeaderList(m)[j + 1] /\ r[1] # Crlf /\ r[2] = Crlf
                         /\ r[1][1] = "header"
                         /\ Drop(r, 2) = Drop(Tokens[m], 2 * (j + 1) + 2)
             /\ j = k => r[1] = Crlf /\ Drop(r, 1) = Body(m)
  <1> DEFINE k == Len(HeaderList(m))
             t == Tokens[m]
             l == HeaderList(m)
             r == Drop(t, 2 * j + 2)
             n == Len(Body(m))
  <1>1. /\ t \in Seq(Alphabet(m)) /\ Len(t) = 2 * k + 3 + n
        /\ \A i \in 1..k : t[2 * i + 1] = l[i] /\ t[2 * i + 2] = Crlf
        /\ t[2 * k + 3] = Crlf /\ Drop(t, 2 * k + 3) = Body(m)
    BY TokensOf
  <1>2. k \in Nat /\ n \in Nat /\ j \in 0..k
    BY HeaderListOf, BodyTokens, LenProperties
  <1>3. \A i \in 1..k : l[i] # Crlf /\ l[i][1] = "header"
    BY HeaderListOf, HeadersAreFew
  <1> HIDE DEF k, t, l, n
  <1>4. 2 * j + 2 \in 0..Len(t) /\ Len(t) - (2 * j + 2) \in Nat
    BY <1>1, <1>2
  <1>5. /\ Len(r) = Len(t) - (2 * j + 2)
        /\ \A i \in 1..Len(t) - (2 * j + 2) : r[i] = t[2 * j + 2 + i]
        /\ \A x \in 0..Len(t) - (2 * j + 2) : Drop(r, x) = Drop(t, 2 * j + 2 + x)
    <2>1. PICK d \in 0..Len(t) : d = 2 * j + 2
      BY <1>4
    <2>2. /\ Len(Drop(t, d)) = Len(t) - d
          /\ \A i \in 1..Len(t) - d : Drop(t, d)[i] = t[d + i]
      BY <1>1, DropOfSeq
    <2>3. \A x \in 0..Len(t) - d : Drop(Drop(t, d), x) = Drop(t, d + x)
      BY <1>1, DropOfDrop
    <2>4. QED
      BY <2>1, <2>2, <2>3
  <1> HIDE DEF r
  <1>7. CASE j < k
    <2>1. j + 1 \in 1..k /\ 1 \in 1..Len(t) - (2 * j + 2) /\ 2 \in 1..Len(t) - (2 * j + 2)
          /\ 2 \in 0..Len(t) - (2 * j + 2)
      BY <1>1, <1>2, <1>7
    <2>2. 2 * j + 2 + 1 = 2 * (j + 1) + 1 /\ 2 * j + 2 + 2 = 2 * (j + 1) + 2
      BY <1>2
    <2>3. r[1] = t[2 * (j + 1) + 1] /\ r[2] = t[2 * (j + 1) + 2]
          /\ Drop(r, 2) = Drop(t, 2 * (j + 1) + 2)
      BY <1>5, <2>1, <2>2
    <2>4. r[1] = l[j + 1] /\ r[2] = Crlf
      BY <1>1, <2>1, <2>3
    <2>5. QED
      BY <1>3, <1>7, <2>1, <2>3, <2>4 DEF k, t, l, r
  <1>8. CASE j = k
    <2>1. 1 \in 1..Len(t) - (2 * j + 2) /\ 1 \in 0..Len(t) - (2 * j + 2)
          /\ 2 * j + 2 + 1 = 2 * k + 3
      BY <1>1, <1>2, <1>8
    <2>2. r[1] = t[2 * k + 3] /\ Drop(r, 1) = Drop(t, 2 * k + 3)
      BY <1>5, <2>1
    <2>3. QED
      BY <1>1, <1>2, <1>8, <2>2 DEF k, t, l, r
  <1>9. QED
    BY <1>2, <1>7, <1>8 DEF k, t, l, r

LEMMA PlainVersion ==
  ASSUME NEW m \in Messages, Plain(m)
  PROVE  LET v == HttpVersion(m.version)
         IN  /\ IsVersion(v) /\ v.major = 1 /\ v.minor \in {0, 1} /\ Supported(m.method)
             /\ v = LastSupported => "HOST" \in m.names
  <1>1. Supported(m.method) /\ \/ m.version = << "HTTP", 1, 0 >>
                               \/ m.version = << "HTTP", 1, 1 >> /\ "HOST" \in m.names
    BY DEF Plain
  <1>2. /\ HttpVersion(<< "HTTP", 1, 0 >>) = [major |-> 1, minor |-> 0]
        /\ HttpVersion(<< "HTTP", 1, 1 >>) = [major |-> 1, minor |-> 1]
    BY DEF HttpVersion
  <1>3. [major |-> 1, minor |-> 0].minor = 0 /\ LastSupported.minor = 1
    BY DEF LastSupported
  <1>4. QED
    BY <1>1, <1>2, <1>3 DEF IsVersion

LEMMA PlainHeaders ==
  ASSUME NEW m \in Messages
  PROVE  /\ \A n \in m.names : \E h \in Headers[m] : h[2] = n
         /\ m.coding = "length" =>
              /\ \E h \in Headers[m] : h[2] = "CONTENT-LENGTH"
              /\ \A h \in Headers[m] : h[2] = "CONTENT-LENGTH" => h[3] = Len(m.body)
  <1>1. \A n \in m.names : Header(n, n) \in Headers[m] /\ Header(n, n)[2] = n
    BY DEF Headers, Header
  <1>2. m.coding = "length" =>
          Headers[m] = { Header(n, n) : n \in m.names } \cup { Header("CONTENT-LENGTH", Len(m.body)) }
    BY DEF Headers
  <1>3. "CONTENT-LENGTH" \notin m.names
    BY MessageAssumption
  <1>4. m.coding = "length" =>
          \A h \in Headers[m] : h[2] = "CONTENT-LENGTH" => h = Header("CONTENT-LENGTH", Len(m.body))
    BY <1>2, <1>3 DEF Header
  <1>5. Header("CONTENT-LENGTH", Len(m.body))[2] = "CONTENT-LENGTH"
        /\ Header("CONTENT-LENGTH", Len(m.body))[3] = Len(m.body)
    BY DEF Header
  <1>6. \A n \in m.names : \E h \in Headers[m] : h[2] = n
    BY <1>1
  <1>7. QED
    BY <1>2, <1>4, <1>5, <1>6

LEMMA PlainAnswered ==
  ASSUME NEW m \in Messages, Plain(m), Serves(m), requestInfo.headers = Headers[m],
         NEW body, body = m.body, onRequest(requestInfo, body)
  PROVE  dispatched' = Append(dispatched, Request(m)) /\ link' = link
  <1>1. ~HostMissing(requestInfo)
    <2>1. "HOST" \in m.names => header(requestInfo, "HOST")
      BY PlainHeaders DEF header
    <2>2. QED
      BY <2>1, PlainVersion DEF HostMissing, Serves
  <1>2. requestInfo.uri \in Uris \/ (requestInfo.method = "NOTIFY" /\ "/" \in Uris)
    BY DEF Plain, Serves
  <1>3. [method |-> requestInfo.method, uri |-> requestInfo.uri,
         version |-> requestInfo.version, headers |-> requestInfo.headers,
         body |-> body] = Request(m)
    BY DEF Request, Serves
  <1>4. QED
    BY <1>1, <1>2, <1>3 DEF onRequest

(* The steps of the parser, in each place where a plain client can be.     *)
LEMMA UnreadStep ==
  ASSUME Types, Control, NEW m \in Messages, Plain(m), Unread(m), Parse
  PROVE  /\ link' = link /\ dispatched' = dispatched
         /\ Unread(m)' \/ HeadersRead(m, 0)'
  <1> DEFINE t == Tokens[m]
             k == Len(HeaderList(m))
  <1>1. /\ t[1] = Line(m.method, m.uri, m.version) /\ t[2] = Crlf
        /\ t[1] # Crlf /\ t[1][1] = "request"
    BY TokensOf DEF Line, Crlf
  <1>2. state = "line" /\ Rest = t /\ requestInfo.headers = {} /\ (pc = "headers" => buffer = << >>)
    BY DEF Unread
  <1> HIDE DEF t
  <1>3. pc = "headers" => LineEnd(buffer) = 0
    <2>1. buffer \in Seq(Token) /\ Len(<< >>) = 0
      BY DEF Types
    <2>2. LineEnd(buffer) \in 0..Len(buffer)
      BY <2>1, LineEndOf
    <2>3. QED
      BY <1>2, <2>1, <2>2
  <1>4. LineEnd(buffer) # 0 =>
          LineEnd(buffer) = 2 /\ Len(FirstLine(buffer)) = 1 /\ FirstLine(buffer)[1] = t[1]
    BY <1>1, <1>2, LineOfOne
  <1>5. ASSUME UNCHANGED << buffer, wire, state, requestInfo, link, dispatched >>, pc' = "idle"
        PROVE  link' = link /\ dispatched' = dispatched /\ Unread(m)'
    <2>1. Rest' = Rest
      BY <1>5 DEF Rest
    <2>2. QED
      BY <1>2, <1>5, <2>1 DEF Unread, t
  <1>6. CASE NoRequestLine
    BY <1>5, <1>6 DEF NoRequestLine, client_vars
  <1>7. CASE EndOfLines
    BY <1>2, <1>5, <1>7 DEF EndOfLines, client_vars
  <1>8. CASE RequestLine
    <2> DEFINE l == FirstLine(buffer)
               v == HttpVersion(m.version)
    <2>1. LineEnd(buffer) = 2 /\ Len(l) = 1 /\ l[1] = Line(m.method, m.uri, m.version)
      BY <1>1, <1>4, <1>8 DEF RequestLine
    <2>2. IsRequestLine(l) /\ l[1][2] = m.method /\ l[1][3] = m.uri /\ l[1][4] = m.version
      BY <2>1 DEF IsRequestLine, Line
    <2> HIDE DEF l
    <2>3. IsVersion(v) /\ v.major = 1 /\ v.minor \in {0, 1} /\ Supported(m.method)
      BY PlainVersion
    <2>4. requestInfo' = [requestInfo EXCEPT !.method = m.method, !.uri = m.uri, !.version = v]
      BY <1>8, <2>2, <2>3 DEF RequestLine, l
    <2>5. /\ requestInfo'.method = m.method /\ requestInfo'.uri = m.uri
          /\ requestInfo'.version = v /\ requestInfo'.headers = {}
      <3>1. DOMAIN requestInfo = {"method", "uri", "version", "headers"}
        BY DEF Types, GoodInfo
      <3>2. QED
        BY <1>2, <2>4, <3>1
    <2>6. isRequestSupported(requestInfo')
      BY <2>3, <2>5 DEF isRequestSupported
    <2>7. /\ state' = "headers" /\ pc' = "headers" /\ link' = link /\ wire' = wire
          /\ dispatched' = dispatched /\ buffer' = AfterLine(buffer)
      BY <1>8, <2>2, <2>3, <2>6 DEF RequestLine, client_vars, l
    <2>8. Rest' = Drop(t, 2 * 0 + 2)
      <3>1. Rest' = Drop(Rest, LineEnd(buffer))
        BY <2>1, <2>7, LineOfRest
      <3>2. 2 * 0 + 2 = 2
        OBVIOUS
      <3>3. QED
        BY <1>2, <2>1, <3>1, <3>2
    <2>9. requestInfo'.headers = { HeaderList(m)[i] : i \in 1..0 }
      BY <2>5
    <2>10. HeadersRead(m, 0)'
      BY <2>5, <2>7, <2>8, <2>9 DEF HeadersRead, Serves, t
    <2>11. QED
      BY <2>7, <2>10
  <1>9. CASE SkipEmptyLine
    BY <1>4, <1>9 DEF SkipEmptyLine
  <1>10. CASE HeaderLine \/ EmptyLine
    BY <1>3, <1>10 DEF HeaderLine, EmptyLine
  <1>11. CASE PlainBody \/ SizeLine \/ Chunk \/ Trailer
    BY <1>2, <1>11 DEF PlainBody, SizeLine, Chunk, Trailer, Control
  <1>12. QED
    BY <1>6, <1>7, <1>8, <1>9, <1>10, <1>11 DEF Parse

LEMMA NextHeader ==
  ASSUME NEW m \in Messages, NEW j \in Nat, j < Len(HeaderList(m)),
         NEW hs, hs = { HeaderList(m)[i] : i \in 1..j }
  PROVE  { x \in hs : x[2] # HeaderList(m)[j + 1][2] } \cup { HeaderList(m)[j + 1] }
           = { HeaderList(m)[i] : i \in 1..j + 1 }
  <1> DEFINE l == HeaderList(m)
             k == Len(l)
             n == j + 1
  <1>1. k \in Nat /\ n \in 1..k /\ \A i \in 1..j : i \in 1..k /\ i # n
    BY HeaderListOf
  <1>2. \A i \in 1..k : l[i][2] = l[n][2] => i = n
    BY <1>1, HeaderListOf
  <1>3. \A i : i \in 1..n <=> (i \in 1..j \/ i = n)
    OBVIOUS
  <1> HIDE DEF l, k, n
  <1>4. \A i \in 1..j : l[i][2] # l[n][2]
    BY <1>1, <1>2
  <1>5. hs = { l[i] : i \in 1..j }
    BY DEF l
  <1>6. { x \in hs : x[2] # l[n][2] } = hs
    BY <1>4, <1>5
  <1>7. hs \cup { l[n] } = { l[i] : i \in 1..n }
    BY <1>3, <1>5
  <1>8. QED
    BY <1>6, <1>7 DEF l, n

LEMMA HeadersReadStep ==
  ASSUME Types, Control, NEW m \in Messages, Plain(m),
         NEW j \in 0..Len(HeaderList(m)), HeadersRead(m, j), Parse
  PROVE  /\ link' = link
         /\ \/ /\ dispatched' = dispatched
               /\ HeadRead(m)' \/ \E n \in 0..Len(HeaderList(m)) : HeadersRead(m, n)'
            \/ dispatched' = Append(dispatched, Request(m)) /\ AllRead'
  <1> DEFINE k == Len(HeaderList(m))
             l == HeaderList(m)
             r == Drop(Tokens[m], 2 * j + 2)
             e == LineEnd(buffer)
  <1>1. /\ state = "headers" /\ pc \in {"idle", "headers"} /\ Serves(m)
        /\ requestInfo.headers = { l[i] : i \in 1..j } /\ Rest = r
    BY DEF HeadersRead
  <1>2. /\ k \in Nat /\ j \in 0..k /\ \A i \in 1..k : l[i] \in Headers[m]
        /\ Headers[m] = { l[i] : i \in 1..k }
    BY HeaderListOf
  <1>3. /\ j < k => /\ r[1] = l[j + 1] /\ r[1] # Crlf /\ r[2] = Crlf /\ r[1][1] = "header"
                    /\ Drop(r, 2) = Drop(Tokens[m], 2 * (j + 1) + 2)
        /\ j = k => r[1] = Crlf /\ Drop(r, 1) = Body(m)
    BY PlaceOfHeader
  <1>4. /\ e # 0 /\ j < k => /\ e = 2 /\ Len(FirstLine(buffer)) = 1
                             /\ FirstLine(buffer)[1] = l[j + 1]
        /\ e # 0 /\ j = k => e = 1
    BY <1>1, <1>3, LineOfOne DEF e
  <1>5. e # 0 /\ buffer' = AfterLine(buffer) /\ wire' = wire => Rest' = Drop(r, e)
    BY <1>1, LineOfRest DEF e
  <1>6. j < k \/ j = k
    BY <1>2
  <1> HIDE DEF k, l, r, e
  <1>7. CASE HeaderLine
    <2>1. e > 1 /\ e # 0 /\ j < k
      <3>1. LineEnd(buffer) > 1 /\ LineEnd(buffer) # 0 /\ LineEnd(buffer) # 1
        <4>1. LineEnd(buffer) \in Nat
          BY LineEndOf DEF Types
        <4>2. QED
          BY <1>7, <4>1 DEF HeaderLine
      <3>2. QED
        BY <1>4, <1>6, <3>1 DEF e
    <2> DEFINE f == FirstLine(buffer)
               h == l[j + 1]
    <2>2. Len(f) = 1 /\ f[1] = h /\ h[1] = "header" /\ e = 2
      BY <1>1, <1>3, <1>4, <2>1
    <2>3. IsHeader(f) /\ HeaderOf(f) = h /\ h \in Token
      <3>1. IsHeader(f)
        <4>1. 1 \in 1..Len(f)
          BY <2>2
        <4>2. QED
          BY <2>2, <4>1 DEF IsHeader
      <3>2. f \in Seq(Token)
        BY <2>1, FirstLineOf DEF e, Types
      <3> HIDE DEF f, h
      <3>3. PICK i \in 1..Len(f) : HeaderOf(f) = f[i]
        BY <3>1, <3>2, HeaderOfLine
      <3>4. i = 1
        BY <2>2, <3>3
      <3>5. f[1] \in Token
        BY <2>2, <3>2, <3>3, <3>4, ElementOfSeq
      <3>6. QED
        BY <2>2, <3>1, <3>3, <3>4, <3>5
    <2>4. /\ requestInfo' = setHeader(requestInfo, h)
          /\ buffer' = AfterLine(buffer) /\ wire' = wire /\ state' = state /\ pc' = pc
          /\ link' = link /\ dispatched' = dispatched
      BY <1>7, <2>3 DEF HeaderLine, client_vars, body_vars
    <2>5. /\ requestInfo'.headers = { x \in requestInfo.headers : x[2] # h[2] } \cup {h}
          /\ requestInfo'.method = requestInfo.method /\ requestInfo'.uri = requestInfo.uri
          /\ requestInfo'.version = requestInfo.version
      <3>1. GoodInfo(requestInfo) /\ h \in Token /\ h[1] = "header"
        BY <2>2, <2>3 DEF Types
      <3> HIDE DEF h
      <3>2. QED
        BY <2>4, <3>1, SetHeader
    <2>6. requestInfo'.headers = { l[i] : i \in 1..j + 1 }
      <3>1. j \in Nat /\ j < Len(HeaderList(m))
        BY <1>2, <2>1 DEF k
      <3>2. \A hs : hs = { HeaderList(m)[i] : i \in 1..j } =>
              { x \in hs : x[2] # HeaderList(m)[j + 1][2] } \cup { HeaderList(m)[j + 1] }
                = { HeaderList(m)[i] : i \in 1..j + 1 }
        BY <3>1, NextHeader
      <3>3. QED
        BY <1>1, <2>5, <3>2 DEF l
    <2>7. Rest' = Drop(Tokens[m], 2 * (j + 1) + 2)
      BY <1>3, <1>5, <2>1, <2>2, <2>4
    <2>8. j + 1 \in 0..k
      BY <1>2, <2>1
    <2>9. HeadersRead(m, j + 1)'
      BY <1>1, <2>4, <2>5, <2>6, <2>7 DEF HeadersRead, Serves, l
    <2>10. QED
      BY <2>4, <2>8, <2>9 DEF k
  <1>8. CASE EmptyLine
    <2>1. e = 1 /\ j = k
      BY <1>4, <1>6, <1>8 DEF EmptyLine, e
    <2>2. requestInfo.headers = Headers[m]
      BY <1>1, <1>2, <2>1
    <2>3. Rest' = m.body
      <3>1. m.coding # "chunked"
        BY DEF Plain
      <3>2. buffer' = AfterLine(buffer) /\ wire' = wire
        BY <1>8 DEF EmptyLine, Refuse, client_vars
      <3>3. QED
        BY <1>3, <1>5, <2>1, <3>1, <3>2, BodyTokens
    <2>4. CASE ~WithBody(m.method)
      <3>1. m.body = << >>
        BY <2>4, MessageAssumption DEF Plain
      <3>2. /\ onRequest(requestInfo, << >>) /\ requestInfo' = cleared(requestInfo)
            /\ state' = "line" /\ pc' = pc
        BY <1>1, <1>8, <2>4 DEF EmptyLine, Serves
      <3>3. dispatched' = Append(dispatched, Request(m)) /\ link' = link
        BY <1>1, <2>2, <3>1, <3>2, PlainAnswered
      <3>4. requestInfo'.headers = {}
        BY <3>2, Cleared DEF Types
      <3>5. AllRead'
        BY <1>1, <2>3, <3>1, <3>2, <3>4 DEF AllRead
      <3>6. QED
        BY <3>3, <3>5
    <2>5. CASE WithBody(m.method)
      <3>1. m.coding = "length" /\ "CONTENT-TYPE" \in m.names
        BY <2>5 DEF Plain
      <3>2. header(requestInfo, "CONTENT-TYPE") /\ header(requestInfo, "CONTENT-LENGTH")
        BY <2>2, <3>1, PlainHeaders DEF header
      <3>3. /\ hasEntityBody /\ state' = "body" /\ link' = link /\ requestInfo' = requestInfo
            /\ pc' = pc /\ dispatched' = dispatched
        BY <1>1, <1>8, <2>5, <3>2 DEF EmptyLine, Serves, client_vars
      <3>4. ContentLength(requestInfo) = Len(m.body)
        BY <2>2, <3>1, PlainHeaders DEF ContentLength
      <3>5. entitySize' = Len(m.body) /\ chunkedEntity' = "no"
        BY <3>2, <3>3, <3>4 DEF hasEntityBody
      <3>6. HeadRead(m)'
        BY <1>1, <2>2, <2>3, <3>1, <3>3, <3>5 DEF HeadRead, Serves
      <3>7. QED
        BY <3>3, <3>6
    <2>6. QED
      BY <2>4, <2>5
  <1>9. CASE EndOfLines
    <2>1. /\ Rest' = Rest /\ state' = state /\ pc' = "idle" /\ requestInfo' = requestInfo
          /\ link' = link /\ dispatched' = dispatched
      BY <1>1, <1>9 DEF EndOfLines, client_vars, Rest
    <2>2. HeadersRead(m, j)'
      BY <1>1, <2>1 DEF HeadersRead, Serves, l, r
    <2>3. QED
      BY <2>1, <2>2
  <1>10. CASE SkipEmptyLine \/ NoRequestLine \/ RequestLine
    BY <1>1, <1>10 DEF SkipEmptyLine, NoRequestLine, RequestLine
  <1>11. CASE PlainBody \/ SizeLine \/ Chunk \/ Trailer
    BY <1>1, <1>11 DEF PlainBody, SizeLine, Chunk, Trailer
  <1>12. QED
    BY <1>7, <1>8, <1>9, <1>10, <1>11 DEF Parse

LEMMA HeadReadStep ==
  ASSUME Types, Control, NEW m \in Messages, Plain(m), HeadRead(m), Parse
  PROVE  /\ link' = link
         /\ \/ dispatched' = dispatched /\ HeadRead(m)'
            \/ dispatched' = Append(dispatched, Request(m)) /\ AllRead'
  <1>1. /\ state = "body" /\ pc \in {"idle", "headers", "body"} /\ Serves(m)
        /\ requestInfo.headers = Headers[m] /\ Rest = m.body /\ m.coding = "length"
        /\ chunkedEntity = "no" /\ entitySize = Len(m.body)
    BY DEF HeadRead
  <1>2. buffer \in Seq(Token) /\ wire \in Seq(Token) /\ Len(buffer) \in Nat /\ Len(wire) \in Nat
        /\ Len(Rest) = Len(buffer) + Len(wire)
    BY LenProperties, ConcatProperties DEF Types, Rest
  <1>3. LineEnd(buffer) = 0
    <2>1. SUFFICES ASSUME LineEnd(buffer) # 0 PROVE FALSE
      OBVIOUS
    <2>2. LineEnd(buffer) \in 1..Len(Rest) /\ Rest[LineEnd(buffer)] = Crlf
      BY <2>1, LineOfRest
    <2>3. QED
      BY <1>1, <2>2 DEF Plain
  <1>4. ASSUME UNCHANGED << buffer, wire, state, requestInfo, link, dispatched,
                            chunkedEntity, entitySize >>,
               pc' \in {"idle", "body"}
        PROVE  link' = link /\ dispatched' = dispatched /\ HeadRead(m)'
    <2>1. Rest' = Rest
      BY <1>4 DEF Rest
    <2>2. QED
      BY <1>1, <1>4, <2>1 DEF HeadRead, Serves
  <1>5. CASE EndOfLines
    BY <1>4, <1>5 DEF EndOfLines, client_vars, body_vars
  <1>6. CASE PlainBody
    <2>1. CASE Len(buffer) < entitySize
      BY <1>4, <1>6, <2>1 DEF PlainBody, NotAtEnd, client_vars, body_vars
    <2>2. CASE ~(Len(buffer) < entitySize)
      <3>1. AtEnd(SubSeq(buffer, 1, entitySize))
        BY <1>6, <2>2 DEF PlainBody
      <3>2. Len(wire) = 0 /\ entitySize = Len(buffer)
        BY <1>1, <1>2, <2>2
      <3>3. wire = << >> /\ buffer = m.body
        <4>1. wire = << >>
          BY <1>2, <3>2, EmptySeq
        <4>2. buffer \o << >> = buffer
          BY <1>2, ConcatEmptySeq
        <4>3. QED
          BY <1>1, <4>1, <4>2 DEF Rest
      <3>4. SubSeq(buffer, 1, entitySize) = m.body
        <4>1. \A n : n = entitySize => SubSeq(buffer, 1, n) = buffer
          <5>1. PICK z \in Nat : z = 0
            OBVIOUS
          <5>2. z + Len(buffer) <= Len(buffer) /\ z + 1 = 1 /\ z + Len(buffer) = Len(buffer)
            BY <1>2, <5>1
          <5>3. /\ SubSeq(buffer, z + 1, z + Len(buffer)) \in Seq(Token)
                /\ Len(SubSeq(buffer, z + 1, z + Len(buffer))) = Len(buffer)
                /\ \A i \in 1..Len(buffer) : SubSeq(buffer, z + 1, z + Len(buffer))[i] = buffer[z + i]
            BY <1>2, <5>2, PartOfSeq
          <5>4. \A i \in 1..Len(buffer) : z + i = i
            BY <1>2, <5>1
          <5> DEFINE u == SubSeq(buffer, 1, Len(buffer))
          <5>5. u \in Seq(Token) /\ Len(u) = Len(buffer) /\ \A i \in 1..Len(buffer) : u[i] = buffer[i]
            BY <5>2, <5>3, <5>4
          <5> HIDE DEF u
          <5>6. u = buffer
            BY <1>2, <5>5, SameSeq
          <5>7. QED
            BY <3>2, <5>6 DEF u
        <4>2. QED
          BY <3>3, <4>1
      <3>5. dispatched' = Append(dispatched, Request(m)) /\ link' = link
        BY <1>1, <3>1, <3>4, PlainAnswered DEF AtEnd
      <3>6. /\ buffer' = << >> /\ wire' = << >> /\ state' = "line" /\ pc' = "idle"
            /\ requestInfo'.headers = {}
        <4>1. requestInfo' = cleared(requestInfo) /\ wire' = wire
              /\ buffer' = << >> /\ state' = "line" /\ pc' = "idle"
          BY <3>1 DEF AtEnd
        <4>2. QED
          BY <3>3, <4>1, Cleared DEF Types
      <3>7. AllRead'
        <4>1. << >> \o << >> = << >>
          BY EmptySeq, ConcatEmptySeq
        <4>2. QED
          BY <3>6, <4>1 DEF AllRead, Rest
      <3>8. QED
        BY <3>5, <3>7
    <2>3. QED
      BY <2>1, <2>2
  <1>7. CASE HeaderLine \/ EmptyLine
    BY <1>3, <1>7 DEF HeaderLine, EmptyLine
  <1>8. CASE SkipEmptyLine \/ NoRequestLine \/ RequestLine
    BY <1>1, <1>8 DEF SkipEmptyLine, NoRequestLine, RequestLine, Control
  <1>9. CASE SizeLine \/ Chunk \/ Trailer
    BY <1>1, <1>9 DEF SizeLine, Chunk, Trailer
  <1>10. QED
    BY <1>5, <1>6, <1>7, <1>8, <1>9 DEF Parse

LEMMA TrackedStep ==
  ASSUME Types, Control, Tracked, [Next]_vars
  PROVE  Tracked'
  <1>1. /\ buffer \in Seq(Token) /\ wire \in Seq(Token) /\ GoodInfo(requestInfo)
        /\ sent \in Seq(Messages) /\ Len(sent) \in Nat /\ Len(dispatched) \in Nat
    BY LenProperties DEF Types, TypeOK
  <1>2. CASE Connect
    <2>1. Rest' = << >> /\ dispatched' = << >> /\ sent' = << >>
      BY <1>2, RestOfConnect
    <2>2. /\ state' = "line" /\ pc' = "idle" /\ requestInfo'.headers = {} /\ link' = "open"
      BY <1>2 DEF Connect, Control
    <2>3. Len(<< >>) = 0 /\ \A i : i \notin 1..Len(<< >>)
      BY EmptySeq
    <2>4. QED
      BY <2>1, <2>2, <2>3 DEF Tracked, Served, AllRead
  <1>3. ASSUME NEW m \in Messages, Send(m) PROVE Tracked'
    <2> SUFFICES ASSUME PlainClient' PROVE Tracked'
      BY DEF Tracked
    <2>1. sent' = Append(sent, m) /\ link = "open" /\ link' = link /\ dispatched' = dispatched
          /\ state' = state /\ pc' = pc /\ requestInfo' = requestInfo /\ buffer' = buffer
      BY <1>3 DEF Send
    <2>2. Len(sent') = Len(sent) + 1 /\ (\A n \in 1..Len(sent) : sent'[n] = sent[n])
          /\ sent'[Len(sent) + 1] = m
      BY <1>1, <2>1, AppendProperties
    <2>3. patient /\ Len(dispatched) = Len(sent)
      BY <1>3 DEF PlainClient, Send
    <2>4. \A n \in 1..Len(sent) : n \in 1..Len(sent')
      BY <1>1, <2>2
    <2>5. PlainClient
      BY <2>2, <2>3, <2>4 DEF PlainClient
    <2>6. Served
      <3>1. \A x : ~Serving(x)
        BY <1>1, <2>3 DEF Serving
      <3>2. QED
        BY <2>1, <2>5, <3>1 DEF Tracked
    <2>7. Rest' = Tokens[m] /\ buffer = << >>
      <3>1. buffer = << >>
        <4>1. Len(buffer \o wire) = 0 /\ Len(buffer \o wire) = Len(buffer) + Len(wire)
          BY <1>1, <2>6, ConcatProperties, EmptySeq DEF Served, AllRead, Rest
        <4>2. Len(buffer) = 0
          BY <1>1, <4>1, LenProperties
        <4>3. QED
          BY <1>1, <4>2, EmptySeq
      <3>2. << >> \o Tokens[m] = Tokens[m]
        BY TokenSeq, ConcatEmptySeq
      <3>3. Rest' = Rest \o Tokens[m] /\ Rest = << >>
        BY <1>3, <2>6, RestOfSend DEF Served, AllRead
      <3>4. QED
        BY <3>1, <3>2, <3>3
    <2>8. Unread(m)'
      BY <2>1, <2>6, <2>7 DEF Unread, Served, AllRead
    <2>9. m = Last(sent')
      BY <2>2 DEF Last
    <2>10. Serving(m)'
      BY <2>1, <2>2, <2>3, <2>8, <2>9 DEF Serving
    <2>11. \A i \in 1..Len(dispatched) : dispatched'[i] = Request(sent'[i])
      BY <2>1, <2>2, <2>3, <2>5 DEF Tracked
    <2>12. Len(dispatched') <= Len(sent')
      BY <1>1, <2>1, <2>2, <2>3
    <2>13. QED
      BY <2>1, <2>10, <2>11, <2>12 DEF Tracked
  <1>4. CASE onConnectionDie
    BY <1>4 DEF onConnectionDie, Tracked, PlainClient
  <1>5. ASSUME NEW n \in 1..Len(wire), onReadyRead(n) PROVE Tracked'
    <2>1. Rest' = Rest
      BY <1>5, RestOfRead
    <2>2. /\ sent' = sent /\ patient' = patient /\ dispatched' = dispatched
          /\ link = "open" /\ link' = link
          /\ state' = state /\ pc' = state /\ requestInfo' = requestInfo
          /\ entitySize' = entitySize /\ chunkedEntity' = chunkedEntity
      BY <1>5 DEF onReadyRead, body_vars
    <2>3. ~Served
      <3>1. Len(buffer \o wire) = Len(buffer) + Len(wire) /\ Len(wire) > 0
            /\ Len(buffer) \in Nat /\ Len(wire) \in Nat
        BY <1>1, <1>5, ConcatProperties, LenProperties
      <3>2. Len(<< >>) = 0
        BY EmptySeq
      <3>3. QED
        BY <3>1, <3>2 DEF Served, AllRead, Rest
    <2>4. ASSUME NEW m \in Messages, Serving(m) PROVE Serving(m)'
      <3>1. Unread(m) => Unread(m)'
        BY <2>1, <2>2 DEF Unread
      <3>2. \A j : HeadersRead(m, j) => HeadersRead(m, j)'
        BY <2>1, <2>2 DEF HeadersRead, Serves
      <3>3. HeadRead(m) => HeadRead(m)'
        BY <2>1, <2>2 DEF HeadRead, Serves
      <3>4. QED
        BY <2>2, <2>4, <3>1, <3>2, <3>3 DEF Serving
    <2>5. QED
      BY <2>2, <2>3, <2>4 DEF Tracked, PlainClient
  <1>6. CASE Parse
    <2>1. Moved /\ pc # "idle"
      BY <1>6, ParseMoves
    <2>2. sent' = sent /\ patient' = patient
      BY <2>1 DEF Moved
    <2> SUFFICES ASSUME PlainClient PROVE Tracked'
      BY <2>2 DEF Tracked, PlainClient
    <2>3. /\ Len(dispatched) <= Len(sent) /\ link = "open"
          /\ \A i \in 1..Len(dispatched) : dispatched[i] = Request(sent[i])
          /\ Served \/ \E m \in Messages : Serving(m)
      <3>1. link # "none" /\ link # "closing" /\ link \in {"none", "open", "closing"}
        BY <2>1 DEF Control, Tracked, Types, TypeOK
      <3>2. QED
        BY <3>1 DEF Tracked
    <2>4. CASE Served
      <3>1. Rest = << >> /\ state = "line" /\ pc = "headers" /\ requestInfo.headers = {}
        BY <2>1, <2>4 DEF Served, AllRead
      <3>2. LineEnd(buffer) = 0
        <4>1. SUFFICES ASSUME LineEnd(buffer) # 0 PROVE FALSE
          OBVIOUS
        <4>2. LineEnd(buffer) \in 1..Len(<< >>)
          BY <3>1, <4>1, LineOfRest
        <4>3. QED
          BY <4>2, EmptySeq
      <3>3. EndOfLines
        BY <1>6, <3>1, <3>2 DEF Parse, SkipEmptyLine, NoRequestLine, RequestLine, HeaderLine,
             EmptyLine, PlainBody, SizeLine, Chunk, Trailer
      <3>4. /\ Rest' = Rest /\ state' = state /\ pc' = "idle" /\ requestInfo' = requestInfo
            /\ link' = link /\ dispatched' = dispatched
        BY <3>1, <3>3 DEF EndOfLines, client_vars, Rest
      <3>5. Served'
        BY <2>2, <2>4, <3>4 DEF Served, AllRead
      <3>6. QED
        BY <2>2, <2>3, <3>4, <3>5 DEF Tracked
    <2>5. ASSUME NEW m \in Messages, Serving(m) PROVE Tracked'
      <3>1. Len(sent) = Len(dispatched) + 1 /\ m = Last(sent)
            /\ sent[Len(dispatched) + 1] = m
        BY <1>1, <2>5 DEF Serving, Last
      <3>2. Plain(m)
        <4>1. Len(dispatched) + 1 \in 1..Len(sent)
          BY <1>1, <3>1
        <4>2. QED
          BY <3>1, <4>1 DEF PlainClient
      <3>3. link' = link
            /\ \/ /\ dispatched' = dispatched
                  /\ Unread(m)' \/ HeadRead(m)' \/ \E n \in 0..Len(HeaderList(m)) : HeadersRead(m, n)'
               \/ dispatched' = Append(dispatched, Request(m)) /\ AllRead'
        <4>1. CASE Unread(m)
          <5>1. 0 \in 0..Len(HeaderList(m))
            BY HeaderListOf
          <5>2. QED
            BY <1>6, <3>2, <4>1, <5>1, UnreadStep
        <4>2. ASSUME NEW j \in 0..Len(HeaderList(m)), HeadersRead(m, j)
              PROVE  link' = link
                     /\ \/ /\ dispatched' = dispatched
                           /\ HeadRead(m)' \/ \E n \in 0..Len(HeaderList(m)) : HeadersRead(m, n)'
                        \/ dispatched' = Append(dispatched, Request(m)) /\ AllRead'
          BY <1>6, <3>2, <4>2, HeadersReadStep
        <4>3. CASE HeadRead(m)
          BY <1>6, <3>2, <4>3, HeadReadStep
        <4>4. QED
          BY <2>5, <4>1, <4>2, <4>3 DEF Serving
      <3>4. CASE /\ dispatched' = dispatched
                 /\ Unread(m)' \/ HeadRead(m)' \/ \E n \in 0..Len(HeaderList(m)) : HeadersRead(m, n)'
        <4>1. Serving(m)'
          BY <2>2, <3>1, <3>4 DEF Serving
        <4>2. QED
          BY <2>2, <2>3, <3>3, <3>4, <4>1 DEF Tracked
      <3>5. CASE dispatched' = Append(dispatched, Request(m)) /\ AllRead'
        <4>1. /\ Len(dispatched') = Len(dispatched) + 1
              /\ \A i \in 1..Len(dispatched) : dispatched'[i] = dispatched[i]
              /\ dispatched'[Len(dispatched) + 1] = Request(m)
          BY <3>5, AppendToOwn DEF Types
        <4>2. \A i \in 1..Len(dispatched') : i \in 1..Len(dispatched) \/ i = Len(dispatched) + 1
          BY <1>1, <4>1
        <4>3. \A i \in 1..Len(dispatched') : dispatched'[i] = Request(sent'[i])
          BY <2>2, <2>3, <3>1, <4>1, <4>2
        <4>4. Len(dispatched') = Len(sent') /\ Len(sent') \in Nat
          BY <1>1, <2>2, <3>1, <4>1
        <4>5. Served'
          BY <3>5, <4>4 DEF Served
        <4>6. Len(dispatched') <= Len(sent')
          BY <4>4
        <4>7. QED
          BY <2>3, <3>3, <4>3, <4>5, <4>6 DEF Tracked
      <3>6. QED
        BY <3>3, <3>4, <3>5
    <2>6. QED
      BY <2>3, <2>4, <2>5
  <1>7. CASE UNCHANGED vars
    <2>1. Rest' = Rest
      BY <1>7 DEF vars, client_vars, Rest
    <2>2. QED
      BY <1>7, <2>1 DEF vars, client_vars, body_vars, Tracked, PlainClient, Served, AllRead,
           Serving, Unread, HeadersRead, HeadRead, Serves
  <1>8. QED
    BY <1>2, <1>3, <1>4, <1>5, <1>6, <1>7 DEF Next, Delivery

-----------------------------------------------------------------------------
THEOREM Invariance == Spec => []IInv
  <1>1. Init => IInv
    BY InitInvariant
  <1>2. IInv /\ [Next]_vars => IInv'
    <2> SUFFICES ASSUME IInv, [Next]_vars PROVE IInv'
      OBVIOUS
    <2>1. Types /\ Control /\ Framed /\ Own /\ Announced /\ Tracked
      BY DEF IInv
    <2>2. Types' /\ Control' /\ Framed'
      BY <2>1, TypesStep, ControlStep, FramedStep
    <2>3. Own' /\ Announced' /\ Tracked'
      BY <2>1, OwnStep, AnnouncedStep, TrackedStep
    <2>4. QED
      BY <2>2, <2>3 DEF IInv
  <1>3. QED
    BY <1>1, <1>2, PTL DEF Spec

(* Wherever TCP cuts the stream, and whatever connection the session has   *)
(* served before, onRequest gives the services the requests of a plain     *)
(* client as they were sent, in order and each once.                       *)
THEOREM RequestsReadAsSent == Spec => []RequestsAsSent
  <1>1. IInv => RequestsAsSent
    <2> SUFFICES ASSUME IInv, PlainClient
                 PROVE  IsPrefix(dispatched, [i \in 1..Len(sent) |-> Request(sent[i])])
      BY DEF RequestsAsSent
    <2> DEFINE all == [i \in 1..Len(sent) |-> Request(sent[i])]
               S == { Request(m) : m \in Messages }
               n == Len(dispatched)
    <2>1. /\ sent \in Seq(Messages) /\ Len(sent) \in Nat /\ n \in Nat
          /\ dispatched \in Seq(ToSet(dispatched))
          /\ n <= Len(sent) /\ \A i \in 1..n : dispatched[i] = Request(sent[i])
      BY LenProperties DEF IInv, Types, TypeOK, Tracked
    <2>2. \A i \in 1..Len(sent) : sent[i] \in Messages
      BY <2>1, ElementOfSeq
    <2>3. all \in Seq(S) /\ Len(all) = Len(sent)
      <3>1. all \in [1..Len(sent) -> S]
        BY <2>2
      <3> HIDE DEF all, S
      <3>2. QED
        BY <2>1, <3>1, SeqDef
    <2>4. \A i \in 1..n : all[i] = dispatched[i]
      BY <2>1
    <2>5. dispatched \in Seq(S)
      <3>1. \A i \in 1..n : i \in 1..Len(sent)
        BY <2>1
      <3>2. \A i \in 1..n : dispatched[i] \in S
        BY <2>1, <2>2, <3>1
      <3>3. dispatched \in [1..n -> ToSet(dispatched)]
        BY <2>1, LenProperties
      <3>4. dispatched \in [1..n -> S]
        BY <3>2, <3>3
      <3> HIDE DEF S
      <3>5. QED
        BY <2>1, <3>4, SeqDef
    <2> HIDE DEF all, S, n
    <2>6. SubSeq(all, 0 + 1, 0 + n) = SubSeq(dispatched, 0 + 1, 0 + n)
      <3> DEFINE a == SubSeq(all, 0 + 1, 0 + n)
                 b == SubSeq(dispatched, 0 + 1, 0 + n)
      <3>1. 0 + n <= Len(all) /\ 0 + n <= Len(dispatched) /\ 0 \in Nat
        BY <2>1, <2>3 DEF n
      <3>2. a \in Seq(S) /\ Len(a) = n /\ \A i \in 1..n : a[i] = all[0 + i]
        BY <2>1, <2>3, <3>1, PartOfSeq
      <3>3. b \in Seq(S) /\ Len(b) = n /\ \A i \in 1..n : b[i] = dispatched[0 + i]
        BY <2>1, <2>5, <3>1, PartOfSeq
      <3> HIDE DEF a, b
      <3>4. \A i \in 1..n : 0 + i = i
        OBVIOUS
      <3>5. a = b
        BY <2>4, <3>2, <3>3, <3>4, SameSeq
      <3>6. QED
        BY <3>5 DEF a, b
    <2>7. 0 + 1 = 1 /\ 0 + n = n
      BY <2>1
    <2>8. QED
      BY <2>1, <2>3, <2>6, <2>7 DEF IsPrefix, n, all
  <1>2. QED
    BY <1>1, Invariance, PTL

(* A client that sends only what the server can answer, and waits for each *)
(* request to be dispatched, never gets an error that closes its           *)
(* connection.                                                             *)
THEOREM PlainClientsAccepted == Spec => []PlainAccepted
  <1>1. IInv => PlainAccepted
    BY DEF IInv, Tracked, PlainAccepted
  <1>2. QED
    BY <1>1, Invariance, PTL

(* Also with clients that do not wait and with bodies of many lines: the   *)
(* body atEnd reports is a piece of what its own connection has sent, and, *)
(* where every line of a body keeps to the body, as long as announced.     *)
THEOREM BodiesAreOwn == Spec => []BodyFromOwnConnection
  <1>1. IInv => BodyFromOwnConnection
    <2> SUFFICES ASSUME IInv PROVE BodyFromOwnConnection
      OBVIOUS
    <2> DEFINE s == Stream(sent)
    <2>1. TypeOK /\ s \in Seq(Token) /\ Len(s) \in Nat
      BY LenProperties DEF IInv, Types, Own
    <2>2. ASSUME NEW d, Part(d, s)
          PROVE  \E k \in 0..Len(s) : SubSeq(s, k + 1, k + Len(d.body)) = d.body
      <3> HIDE DEF s
      <3>1. PICK k, n \in Nat : k + n <= Len(s) /\ d.body = SubSeq(s, k + 1, k + n)
        BY <2>2 DEF Part
      <3>2. Len(d.body) = n
        BY <2>1, <3>1, PartOfSeq
      <3>3. k \in 0..Len(s)
        BY <2>1, <3>1
      <3>4. QED
        BY <3>1, <3>2, <3>3
    <2>3. ASSUME NEW i \in 1..Len(dispatched), WithLength(dispatched[i])
          PROVE  /\ \E k \in 0..Len(s) :
                      SubSeq(s, k + 1, k + Len(dispatched[i].body)) = dispatched[i].body
                 /\ KeepingClient => Len(dispatched[i].body) = ContentLength(dispatched[i])
      BY <2>2, <2>3 DEF IInv, Own, Announced
    <2> HIDE DEF s
    <2>4. QED
      BY <2>1, <2>3 DEF BodyFromOwnConnection, WithLength, KeepingClient, s
  <1>2. QED
    BY <1>1, Invariance, PTL
=============================================================================
