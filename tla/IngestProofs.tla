---------------------------- MODULE IngestProofs ----------------------------
(***************************************************************************)
(* Document ingestion, for any set of requests, texts, database errors and *)
(* crashes.                                                                *)
(*                                                                         *)
(* A step is made for one request: it touches only the document, the job   *)
(* and the worker of that request, and the record of the key.  So the      *)
(* invariant is a shape of each request by itself, and one of the record.  *)
(* The stage of a handler tells what its document is as long as the job is *)
(* not in the queue; afterwards the worker writes it too.                  *)
(*                                                                         *)
(* The chunks come first: the loop over the paragraphs keeps an invariant, *)
(* that the paragraphs read so far are in the chunks or in the current     *)
(* one, and none of those is too long.                                     *)
(***************************************************************************)
EXTENDS DocumentIngestion, DataProofs, TLAPS

-----------------------------------------------------------------------------
(* The chunks of a text, for every text                                    *)

Pieces == [para: Nat, from: Int, to: Int]

\* What the loop over the paragraphs carries.
Accs == [chunks: Seq(Seq(Pieces)), current: Seq(Pieces)]

Length(piece) == piece.to - piece.from + 1

LEMMA StepType == Step \in Nat /\ Step >= 1 /\ Step <= ChunkSize
<1>1. ChunkSize \in Nat /\ ChunkSize >= 1 /\ Overlap \in Nat
  BY ChunkingAssumption
<1> DEFINE a == ChunkSize - Overlap
<1>2. a \in Int /\ a <= ChunkSize
  BY <1>1
<1> HIDE DEF a
<1>3. Max({a, 1}) \in {a, 1} /\ Max({a, 1}) >= 1
  <2>1. \E x \in {a, 1} : \A y \in {a, 1} : x >= y
    BY <1>2
  <2>2. Max({a, 1}) \in {a, 1} /\ \A y \in {a, 1} : Max({a, 1}) >= y
    BY <2>1 DEF Max
  <2> QED
    BY <2>2
<1>4. Max({a, 1}) \in Nat /\ Max({a, 1}) >= 1 /\ Max({a, 1}) <= ChunkSize
  BY <1>1, <1>2, <1>3
<1> QED
  BY <1>4 DEF Step, a

\* The sum of the lengths of the pieces of a chunk.
Lengths(chunk) == SumFunctionOnSet([j \in DOMAIN chunk |-> Length(chunk[j])], DOMAIN chunk)

LEMMA LengthInt == \A p \in Pieces : Length(p) \in Int
  BY DEF Length, Pieces

LEMMA CharsIs ==
  ASSUME NEW chunk \in Seq(Pieces)
  PROVE  /\ Lengths(chunk) \in Int /\ Chars(chunk) \in Int
         /\ Chars(chunk) = IF chunk = <<>> THEN 0 ELSE Lengths(chunk) + Len(chunk) - 1
<1>1. DOMAIN chunk = 1..Len(chunk) /\ Len(chunk) \in Nat
  OBVIOUS
<1>2. IsFiniteSet(DOMAIN chunk)
  BY <1>1, FS_Interval
<1> DEFINE w == [j \in DOMAIN chunk |-> Length(chunk[j])]
<1>3. \A j \in DOMAIN chunk : w[j] \in Int
  <2>1. \A j \in DOMAIN chunk : chunk[j] \in Pieces
    BY <1>1
  <2> QED
    BY <2>1, LengthInt
<1> HIDE DEF w
<1>4. SumFunctionOnSet(w, DOMAIN chunk) \in Int
  BY <1>2, <1>3, SumType
<1>5. Chars(chunk) = IF chunk = <<>> THEN 0 ELSE Lengths(chunk) + Len(chunk) - 1
  BY DEF Chars, Lengths, Length
<1> QED
  BY <1>1, <1>4, <1>5 DEF Lengths, w

\* A piece that joins a chunk adds its characters, and a newline unless it is the first.
LEMMA CharsAppend ==
  ASSUME NEW chunk \in Seq(Pieces), NEW p \in Pieces
  PROVE  Chars(Append(chunk, p)) =
           IF chunk = <<>> THEN Length(p) ELSE Chars(chunk) + 1 + Length(p)
<1> DEFINE new == Append(chunk, p)
           n == Len(chunk)
           S == 1..n
           w == [j \in DOMAIN chunk |-> Length(chunk[j])]
           v == [j \in DOMAIN new |-> Length(new[j])]
<1>1. /\ new \in Seq(Pieces) /\ new # <<>> /\ Len(new) = n + 1
      /\ n \in Nat /\ DOMAIN chunk = S /\ DOMAIN new = S \cup {n + 1} /\ n + 1 \notin S
      /\ new[n + 1] = p /\ \A j \in S : new[j] = chunk[j]
      /\ chunk = <<>> <=> n = 0
  OBVIOUS
<1>2. /\ \A j \in S : w[j] \in Int /\ v[j] = w[j] /\ v[j] \in Int
      /\ v[n + 1] = Length(p) /\ Length(p) \in Int
  <2>1. \A j \in S : chunk[j] \in Pieces
    BY <1>1
  <2> QED
    BY <1>1, <2>1, LengthInt
<1>3. IsFiniteSet(S)
  BY <1>1, FS_Interval
<1>4. Lengths(chunk) = SumFunctionOnSet(w, S) /\ Lengths(new) = SumFunctionOnSet(v, S \cup {n + 1})
  BY <1>1 DEF Lengths
<1>5. Chars(new) = Lengths(new) + n
  <2> HIDE DEF new, n
  <2>1. Lengths(new) \in Int /\ Chars(new) = Lengths(new) + Len(new) - 1
    BY <1>1, CharsIs
  <2> QED
    BY <1>1, <2>1
<1>6. Lengths(chunk) \in Int /\ (chunk # <<>> => Chars(chunk) = Lengths(chunk) + n - 1)
  BY CharsIs
<1>7. n = 0 => S = {}
  BY <1>1
<1> HIDE DEF S, w, v, new, n
<1>8. SumFunctionOnSet(v, S \cup {n + 1}) = v[n + 1] + SumFunctionOnSet(v, S)
  BY <1>1, <1>2, <1>3, SumAdd
<1>9. SumFunctionOnSet(v, S) = SumFunctionOnSet(w, S)
  BY <1>2, <1>3, SumSame
<1>10. n = 0 => SumFunctionOnSet(w, S) = 0
  BY <1>7, SumEmpty
<1>11. Lengths(new) = Length(p) + Lengths(chunk)
  BY <1>2, <1>4, <1>8, <1>9
<1>12. Chars(new) = IF chunk = <<>> THEN Length(p) ELSE Chars(chunk) + 1 + Length(p)
  <2>1. CASE chunk = <<>>
    BY <1>1, <1>2, <1>4, <1>5, <1>10, <1>11, <2>1
  <2>2. CASE chunk # <<>>
    BY <1>1, <1>2, <1>5, <1>6, <1>11, <2>2
  <2> QED
    BY <2>1, <2>2
<1> QED
  BY <1>12 DEF new

LEMMA CharsOne ==
  ASSUME NEW p \in Pieces
  PROVE  <<p>> \in Seq(Pieces) /\ <<p>> # <<>> /\ Chars(<<p>>) = Length(p)
<1>1. <<>> \in Seq(Pieces) /\ Append(<<>>, p) = <<p>>
  OBVIOUS
<1>2. Chars(Append(<<>>, p)) = Length(p)
  BY <1>1, CharsAppend
<1> QED
  BY <1>1, <1>2

LEMMA CharsEmpty == Chars(<<>>) = 0
  BY DEF Chars

-----------------------------------------------------------------------------
Bounded(chunks) ==
  \A c \in DOMAIN chunks : chunks[c] # <<>> /\ Chars(chunks[c]) <= ChunkSize

\* Character x of paragraph k is in the chunk, or in one of the chunks.
Shows(chunk, k, x) ==
  \E j \in DOMAIN chunk : chunk[j].para = k /\ x \in chunk[j].from..chunk[j].to

Shown(chunks, k, x) == \E c \in DOMAIN chunks : Shows(chunks[c], k, x)

LEMMA ConcatHolds ==
  ASSUME NEW s \in Seq(Seq(Pieces)), NEW t \in Seq(Seq(Pieces)), Bounded(s), Bounded(t)
  PROVE  /\ s \o t \in Seq(Seq(Pieces)) /\ Bounded(s \o t)
         /\ \A k, x : Shown(s, k, x) \/ Shown(t, k, x) => Shown(s \o t, k, x)
<1> DEFINE u == s \o t
<1>1. /\ u \in Seq(Seq(Pieces)) /\ DOMAIN s = 1..Len(s) /\ DOMAIN t = 1..Len(t)
      /\ DOMAIN u = 1..Len(s) + Len(t) /\ Len(s) \in Nat /\ Len(t) \in Nat
      /\ \A c \in 1..Len(s) : u[c] = s[c]
      /\ \A c \in 1..Len(t) : u[c + Len(s)] = t[c]
  OBVIOUS
<1> HIDE DEF u
<1>2. ASSUME NEW c \in DOMAIN u
      PROVE  u[c] # <<>> /\ Chars(u[c]) <= ChunkSize
  <2>1. CASE c \in 1..Len(s)
    BY <1>1, <2>1 DEF Bounded
  <2>2. CASE c \notin 1..Len(s)
    <3>1. c - Len(s) \in 1..Len(t) /\ u[c] = t[c - Len(s)]
      BY <1>1, <2>2
    <3> QED
      BY <1>1, <3>1 DEF Bounded
  <2> QED
    BY <2>1, <2>2
<1>3. ASSUME NEW k, NEW x, Shown(s, k, x) \/ Shown(t, k, x)
      PROVE  Shown(u, k, x)
  <2>1. ASSUME NEW c \in DOMAIN s, Shows(s[c], k, x)
        PROVE  Shown(u, k, x)
    <3>1. c \in DOMAIN u /\ u[c] = s[c]
      BY <1>1
    <3> QED
      BY <2>1, <3>1 DEF Shown
  <2>2. ASSUME NEW c \in DOMAIN t, Shows(t[c], k, x)
        PROVE  Shown(u, k, x)
    <3>1. c + Len(s) \in DOMAIN u /\ u[c + Len(s)] = t[c]
      BY <1>1
    <3> QED
      BY <2>2, <3>1 DEF Shown
  <2> QED
    BY <1>3, <2>1, <2>2 DEF Shown
<1> QED
  BY <1>1, <1>2, <1>3 DEF u, Bounded

\* The last chunk is kept too.
LEMMA FlushedHolds ==
  ASSUME NEW acc \in Accs, Bounded(acc.chunks), Chars(acc.current) <= ChunkSize
  PROVE  /\ Flushed(acc) \in Seq(Seq(Pieces)) /\ Bounded(Flushed(acc))
         /\ \A k, x : Shown(acc.chunks, k, x) \/ Shows(acc.current, k, x)
                        => Shown(Flushed(acc), k, x)
<1> DEFINE s == acc.chunks
           t == <<acc.current>>
<1>1. s \in Seq(Seq(Pieces)) /\ acc.current \in Seq(Pieces)
  BY DEF Accs
<1>2. t \in Seq(Seq(Pieces)) /\ DOMAIN t = {1} /\ t[1] = acc.current
  BY <1>1
<1>3. CASE acc.current = <<>>
  <2>1. \A k, x : ~ Shows(acc.current, k, x)
    BY <1>3 DEF Shows
  <2> QED
    BY <1>1, <1>3, <2>1 DEF Flushed
<1>4. CASE acc.current # <<>>
  <2>1. Flushed(acc) = s \o t
    BY <1>1, <1>4 DEF Flushed
  <2>2. Bounded(t)
    BY <1>2, <1>4 DEF Bounded
  <2>3. \A k, x : Shows(acc.current, k, x) => Shown(t, k, x)
    BY <1>2 DEF Shown
  <2> HIDE DEF t
  <2> QED
    BY <1>1, <1>2, <2>1, <2>2, <2>3, ConcatHolds
<1> QED
  BY <1>3, <1>4

\* The windows are no longer than a chunk and leave no character out.
LEMMA WindowsHold ==
  ASSUME NEW k \in Nat, NEW n \in Nat
  PROVE  /\ Windows(k, n) \in Seq(Seq(Pieces)) /\ Bounded(Windows(k, n))
         /\ \A x \in 1..n : Shown(Windows(k, n), k, x)
<1> DEFINE m == (n + Step - 1) \div Step
           from(j) == (j - 1) * Step + 1
           to(j) == Min({(j - 1) * Step + ChunkSize, n})
           w == Windows(k, n)
<1>0. Step \in Nat /\ Step >= 1 /\ Step <= ChunkSize /\ ChunkSize \in Nat
  BY StepType, ChunkingAssumption
<1>1. m \in Nat /\ n + Step - 1 < m * Step + Step
  <2>1. n + Step - 1 \in Nat
    BY <1>0
  <2> QED
    BY <1>0, <2>1, Quotient
<1>2. ASSUME NEW j \in 1..m
      PROVE  /\ from(j) \in Int /\ to(j) \in Int /\ to(j) <= (j - 1) * Step + ChunkSize
             /\ Piece(k, from(j), to(j)) \in Pieces
             /\ Length(Piece(k, from(j), to(j))) <= ChunkSize
  <2>1. (j - 1) * Step \in Int
    BY <1>0
  <2>2. to(j) \in {(j - 1) * Step + ChunkSize, n} /\ to(j) <= (j - 1) * Step + ChunkSize
    BY <1>0, <2>1, MinOfTwo
  <2>3. from(j) \in Int /\ to(j) \in Int
    BY <1>0, <2>1, <2>2
  <2>4. to(j) - from(j) + 1 <= ChunkSize
    BY <1>0, <2>1, <2>2, <2>3
  <2> HIDE DEF from, to
  <2>5. Piece(k, from(j), to(j)) \in Pieces /\ Length(Piece(k, from(j), to(j))) = to(j) - from(j) + 1
    BY <2>3 DEF Piece, Pieces, Length
  <2> QED
    BY <2>2, <2>3, <2>4, <2>5
<1>3. w = [j \in 1..m |-> <<Piece(k, from(j), to(j))>>]
  BY DEF Windows
<1> HIDE DEF w, m, from, to
<1>4. DOMAIN w = 1..m /\ \A j \in 1..m : w[j] = <<Piece(k, from(j), to(j))>>
  BY <1>3
<1>5. \A j \in 1..m : w[j] \in Seq(Pieces) /\ w[j] # <<>> /\ Chars(w[j]) <= ChunkSize
  <2> SUFFICES ASSUME NEW j \in 1..m
               PROVE  w[j] \in Seq(Pieces) /\ w[j] # <<>> /\ Chars(w[j]) <= ChunkSize
    OBVIOUS
  <2> DEFINE p == Piece(k, from(j), to(j))
  <2>1. p \in Pieces /\ Length(p) <= ChunkSize /\ w[j] = <<p>>
    BY <1>2, <1>4
  <2> HIDE DEF p
  <2> QED
    BY <2>1, CharsOne
<1>6. w \in Seq(Seq(Pieces))
  <2>1. w \in [1..m -> Seq(Pieces)]
    BY <1>3, <1>4, <1>5
  <2> QED
    BY <1>1, <2>1
<1>7. Bounded(w)
  BY <1>4, <1>5 DEF Bounded
<1>8. ASSUME NEW x \in 1..n
      PROVE  Shown(w, k, x)
  <2> DEFINE q == (x - 1) \div Step
  <2>1. x - 1 \in Nat
    OBVIOUS
  <2>2. q \in Nat /\ q * Step <= x - 1 /\ x - 1 < q * Step + Step
    BY <1>0, <2>1, Quotient
  <2> HIDE DEF q
  <2>3. q < m
    <3>1. q * Step < m * Step
      <4>1. q * Step \in Int /\ m * Step \in Int
        BY <1>0, <1>1, <2>2
      <4> QED
        BY <1>0, <1>1, <2>2, <4>1
    <3>2. CASE q >= m
      <4>1. PICK d \in Nat : q = m + d
        BY <1>1, <2>2, <3>2
      <4>2. q * Step = m * Step + d * Step /\ d * Step \in Nat
        BY <1>0, <1>1, <2>2, <4>1
      <4>3. m * Step \in Int
        BY <1>0, <1>1
      <4> QED
        BY <3>1, <4>2, <4>3
    <3> QED
      BY <1>1, <2>2, <3>2
  <2> DEFINE j == q + 1
             p == Piece(k, from(j), to(j))
  <2>4. j \in 1..m /\ j - 1 = q
    BY <1>1, <2>2, <2>3
  <2>5. from(j) = q * Step + 1 /\ to(j) = Min({q * Step + ChunkSize, n}) /\ q * Step \in Int
    BY <1>0, <2>2, <2>4 DEF from, to
  <2>6. to(j) \in {q * Step + ChunkSize, n}
    <3> DEFINE a == q * Step + ChunkSize
    <3>1. a \in Int /\ to(j) = Min({a, n})
      BY <1>0, <2>5
    <3> HIDE DEF a
    <3>2. to(j) \in {a, n}
      BY <3>1, MinOfTwo
    <3> QED
      BY <3>2 DEF a
  <2>7. x \in from(j)..to(j)
    <3>1. q * Step + Step <= q * Step + ChunkSize
      BY <1>0, <2>5
    <3>2. from(j) <= x /\ from(j) \in Int
      BY <2>2, <2>5
    <3>3. x <= to(j) /\ to(j) \in Int
      BY <1>0, <2>2, <2>5, <2>6, <3>1
    <3> QED
      BY <3>2, <3>3
  <2> HIDE DEF j
  <2>8. p.para = k /\ p.from = from(j) /\ p.to = to(j) /\ w[j] = <<p>>
    BY <1>4, <2>4 DEF Piece
  <2> HIDE DEF p
  <2>9. Shows(w[j], k, x)
    <3>1. 1 \in DOMAIN w[j] /\ w[j][1] = p
      BY <2>8
    <3> QED
      BY <2>7, <2>8, <3>1 DEF Shows
  <2> QED
    BY <1>4, <2>4, <2>9 DEF Shown
<1> QED
  BY <1>6, <1>7, <1>8 DEF w

-----------------------------------------------------------------------------
\* acc is what the first n paragraphs of a text come to.
Carries(acc, n, text) ==
  /\ Bounded(acc.chunks)
  /\ Chars(acc.current) <= ChunkSize
  /\ \A k \in 1..n : \A x \in 1..text[k] :
       Shown(acc.chunks, k, x) \/ Shows(acc.current, k, x)

LEMMA WholePiece ==
  ASSUME NEW k \in Nat, NEW n \in Nat
  PROVE  /\ Piece(k, 1, n) \in Pieces /\ Length(Piece(k, 1, n)) = n
         /\ Piece(k, 1, n).para = k /\ Piece(k, 1, n).from = 1 /\ Piece(k, 1, n).to = n
  BY DEF Piece, Pieces, Length

LEMMA ShowsAppended ==
  ASSUME NEW chunk \in Seq(Pieces), NEW k \in Nat, NEW n \in Nat
  PROVE  LET new == Append(chunk, Piece(k, 1, n)) IN
         /\ new \in Seq(Pieces)
         /\ \A i, x : Shows(chunk, i, x) => Shows(new, i, x)
         /\ \A x \in 1..n : Shows(new, k, x)
<1> DEFINE p == Piece(k, 1, n)
           new == Append(chunk, p)
<1>1. p \in Pieces /\ p.para = k /\ p.from = 1 /\ p.to = n
  BY WholePiece
<1> HIDE DEF p
<1>2. /\ new \in Seq(Pieces) /\ DOMAIN chunk \subseteq DOMAIN new
      /\ \A j \in DOMAIN chunk : new[j] = chunk[j]
      /\ Len(chunk) + 1 \in DOMAIN new /\ new[Len(chunk) + 1] = p
  BY <1>1
<1> HIDE DEF new
<1>3. \A i, x : Shows(chunk, i, x) => Shows(new, i, x)
  BY <1>2 DEF Shows
<1>4. \A x \in 1..n : Shows(new, k, x)
  BY <1>1, <1>2 DEF Shows
<1> QED
  BY <1>2, <1>3, <1>4 DEF new, p

\* A record of the two parts has the two parts.
LEMMA AccParts ==
  ASSUME NEW s \in Seq(Seq(Pieces)), NEW c \in Seq(Pieces)
  PROVE  /\ [chunks |-> s, current |-> c] \in Accs
         /\ [chunks |-> s, current |-> c].chunks = s
         /\ [chunks |-> s, current |-> c].current = c
  BY DEF Accs

LEMMA ParagraphHolds ==
  ASSUME NEW acc \in Accs, NEW k \in Nat, NEW n \in Nat,
         Bounded(acc.chunks), Chars(acc.current) <= ChunkSize
  PROVE  LET new == AddParagraph(acc, k, n) IN
         /\ new \in Accs /\ Bounded(new.chunks) /\ Chars(new.current) <= ChunkSize
         /\ \A i, x : Shown(acc.chunks, i, x) \/ Shows(acc.current, i, x)
                        => Shown(new.chunks, i, x) \/ Shows(new.current, i, x)
         /\ \A x \in 1..n : Shown(new.chunks, k, x) \/ Shows(new.current, k, x)
<1> DEFINE p == Piece(k, 1, n)
           f == Flushed(acc)
<1>0. /\ acc.chunks \in Seq(Seq(Pieces)) /\ acc.current \in Seq(Pieces)
      /\ ChunkSize \in Nat /\ ChunkSize >= 1
  BY ChunkingAssumption DEF Accs
<1>1. p \in Pieces /\ Length(p) = n
  BY WholePiece
<1>2. /\ f \in Seq(Seq(Pieces)) /\ Bounded(f)
      /\ \A i, x : Shown(acc.chunks, i, x) \/ Shows(acc.current, i, x) => Shown(f, i, x)
  BY FlushedHolds
<1>3. CASE n = 0
  <2>1. AddParagraph(acc, k, n) = acc
    BY <1>3 DEF AddParagraph
  <2>2. 1..n = {}
    BY <1>3
  <2> QED
    BY <2>1, <2>2
<1>4. CASE n # 0 /\ Chars(acc.current) + n + 1 <= ChunkSize
  <2> DEFINE last == Append(acc.current, p)
             new == [chunks |-> acc.chunks, current |-> last]
  <2>1. AddParagraph(acc, k, n) = new
    BY <1>0, <1>4 DEF AddParagraph
  <2>3. /\ last \in Seq(Pieces)
        /\ \A i, x : Shows(acc.current, i, x) => Shows(last, i, x)
        /\ \A x \in 1..n : Shows(last, k, x)
    BY <1>0, ShowsAppended
  <2>4. Chars(last) <= ChunkSize
    <3>1. Chars(last) = IF acc.current = <<>> THEN n ELSE Chars(acc.current) + 1 + n
      BY <1>0, <1>1, CharsAppend
    <3>2. Chars(acc.current) \in Int /\ (acc.current = <<>> => Chars(acc.current) = 0)
      BY <1>0, CharsIs
    <3> QED
      BY <1>0, <1>4, <3>1, <3>2
  <2> HIDE DEF new, last
  <2>5. new \in Accs /\ new.chunks = acc.chunks /\ new.current = last
    BY <1>0, <2>3, AccParts DEF new
  <2> QED
    BY <2>1, <2>3, <2>4, <2>5
<1>5. CASE n # 0 /\ ~(Chars(acc.current) + n + 1 <= ChunkSize) /\ n > ChunkSize
  <2> DEFINE w == Windows(k, n)
             s == f \o w
             new == [chunks |-> s, current |-> <<>>]
  <2>1. AddParagraph(acc, k, n) = new
    BY <1>0, <1>5 DEF AddParagraph
  <2> HIDE DEF f
  <2>2. w \in Seq(Seq(Pieces)) /\ Bounded(w) /\ \A x \in 1..n : Shown(w, k, x)
    BY WindowsHold
  <2> HIDE DEF w
  <2>3. /\ s \in Seq(Seq(Pieces)) /\ Bounded(s)
        /\ \A i, x : Shown(f, i, x) \/ Shown(w, i, x) => Shown(s, i, x)
    BY <1>2, <2>2, ConcatHolds
  <2> HIDE DEF s
  <2>4. new \in Accs /\ new.chunks = s /\ new.current = <<>>
    <3>1. <<>> \in Seq(Pieces)
      OBVIOUS
    <3> QED
      BY <2>3, <3>1, AccParts
  <2> HIDE DEF new
  <2>5. Chars(new.current) <= ChunkSize
    BY <1>0, <2>4, CharsEmpty
  <2> QED
    BY <1>2, <2>1, <2>2, <2>3, <2>4, <2>5
<1>6. CASE n # 0 /\ ~(Chars(acc.current) + n + 1 <= ChunkSize) /\ ~(n > ChunkSize)
  <2> DEFINE new == [chunks |-> f, current |-> <<p>>]
  <2>1. AddParagraph(acc, k, n) = new
    BY <1>0, <1>6 DEF AddParagraph
  <2>2. <<p>> \in Seq(Pieces) /\ Chars(<<p>>) = n
    BY <1>1, CharsOne
  <2>3. \A x \in 1..n : Shows(<<p>>, k, x)
    <3>1. <<>> \in Seq(Pieces) /\ Append(<<>>, p) = <<p>>
      OBVIOUS
    <3>2. \A x \in 1..n : Shows(Append(<<>>, p), k, x)
      BY <3>1, ShowsAppended
    <3> QED
      BY <3>1, <3>2
  <2> HIDE DEF f, p
  <2>4. new \in Accs /\ new.chunks = f /\ new.current = <<p>>
    BY <1>2, <2>2, AccParts
  <2> HIDE DEF new
  <2>5. Chars(new.current) <= ChunkSize
    BY <1>0, <1>6, <2>2, <2>4
  <2> QED
    BY <1>2, <2>1, <2>3, <2>4, <2>5
<1> QED
  BY <1>3, <1>4, <1>5, <1>6

\* AddParagraph as the loop sees it, in one typed function.
LEMMA AddType ==
  ASSUME NEW acc \in Accs, NEW k \in Nat, NEW n \in Nat
  PROVE  AddParagraph(acc, k, n) \in Accs
<1>1. acc.chunks \in Seq(Seq(Pieces)) /\ acc.current \in Seq(Pieces)
  BY DEF Accs
<1>2. Flushed(acc) \in Seq(Seq(Pieces))
  BY <1>1 DEF Flushed
<1>3. Windows(k, n) \in Seq(Seq(Pieces)) /\ Piece(k, 1, n) \in Pieces
  BY WindowsHold, WholePiece
<1>4. Append(acc.current, Piece(k, 1, n)) \in Seq(Pieces) /\ <<Piece(k, 1, n)>> \in Seq(Pieces)
  BY <1>1, <1>3
<1>5. Flushed(acc) \o Windows(k, n) \in Seq(Seq(Pieces)) /\ <<>> \in Seq(Pieces)
  BY <1>2, <1>3
<1>6. \/ AddParagraph(acc, k, n) = acc
      \/ AddParagraph(acc, k, n)
           = [chunks |-> acc.chunks, current |-> Append(acc.current, Piece(k, 1, n))]
      \/ AddParagraph(acc, k, n)
           = [chunks |-> Flushed(acc) \o Windows(k, n), current |-> <<>>]
      \/ AddParagraph(acc, k, n) = [chunks |-> Flushed(acc), current |-> <<Piece(k, 1, n)>>]
  BY ChunkingAssumption DEF AddParagraph
<1>7. [chunks |-> acc.chunks, current |-> Append(acc.current, Piece(k, 1, n))] \in Accs
  BY <1>1, <1>4, AccParts
<1>8. [chunks |-> Flushed(acc) \o Windows(k, n), current |-> <<>>] \in Accs
  BY <1>5, AccParts
<1>9. [chunks |-> Flushed(acc), current |-> <<Piece(k, 1, n)>>] \in Accs
  BY <1>2, <1>4, AccParts
<1> QED
  BY <1>6, <1>7, <1>8, <1>9

\* Rounds(text, acc): acc is the loop over the paragraphs of the text.
Start == [chunks |-> <<>>, current |-> <<>>]

Rounds(text, acc) ==
  acc = [k \in 0..Len(text) |->
           IF k = 0 THEN [chunks |-> <<>>, current |-> <<>>]
                    ELSE AddParagraph(acc[k - 1], k, text[k])]

LEMMA StartIsAcc == Start \in Accs /\ Carries(Start, 0, <<>>)
<1>1. <<>> \in Seq(Seq(Pieces)) /\ <<>> \in Seq(Pieces)
  OBVIOUS
<1>2. Start \in Accs /\ Start.chunks = <<>> /\ Start.current = <<>>
  BY <1>1, AccParts DEF Start
<1>3. Bounded(<<>>) /\ Chars(<<>>) <= ChunkSize
  BY CharsEmpty, ChunkingAssumption DEF Bounded
<1> QED
  BY <1>2, <1>3 DEF Carries

LEMMA RoundsExist ==
  ASSUME NEW text \in Seq(Nat)
  PROVE  \E acc : Rounds(text, acc)
<1> DEFINE N == Len(text)
           G == [k \in Nat |-> [a \in Accs |->
                  IF k \in 1..N THEN AddParagraph(a, k, text[k]) ELSE a]]
<1>1. N \in Nat /\ \A k \in 1..N : text[k] \in Nat
  OBVIOUS
<1>2. G \in [Nat -> [Accs -> Accs]]
  BY <1>1, AddType
<1>3. \A k \in 1..N : \A a \in Accs : G[k][a] = AddParagraph(a, k, text[k])
  BY <1>1
<1> HIDE DEF G, N
<1>4. PICK g \in [0..N -> Accs] : g[0] = Start /\ \A k \in 1..N : g[k] = G[k][g[k - 1]]
  <2>1. Start \in Accs
    BY StartIsAcc
  <2>2. Loops(Accs, Start, G, N) # {}
    BY <1>1, <1>2, <2>1, Recursion
  <2> QED
    BY <2>2 DEF Loops
<1>5. \A k \in 0..N : g[k] = IF k = 0 THEN Start ELSE AddParagraph(g[k - 1], k, text[k])
  <2> SUFFICES ASSUME NEW k \in 0..N, k # 0
               PROVE  g[k] = AddParagraph(g[k - 1], k, text[k])
    BY <1>4
  <2>1. k \in 1..N /\ k - 1 \in 0..N
    BY <1>1
  <2> QED
    BY <1>3, <1>4, <2>1
<1>6. g = [k \in 0..N |-> IF k = 0 THEN Start ELSE AddParagraph(g[k - 1], k, text[k])]
  BY <1>4, <1>5
<1> QED
  BY <1>6 DEF Rounds, Start, N

\* After each paragraph, what has been read is in the chunks or in the current one.
LEMMA RoundsCarry ==
  ASSUME NEW text \in Seq(Nat), NEW acc, Rounds(text, acc)
  PROVE  \A n \in 0..Len(text) : acc[n] \in Accs /\ Carries(acc[n], n, text)
<1> DEFINE N == Len(text)
           S == {n \in Nat : n <= N => acc[n] \in Accs /\ Carries(acc[n], n, text)}
<1>1. N \in Nat /\ \A k \in 1..N : text[k] \in Nat
  OBVIOUS
<1>2. \A k \in 0..N : acc[k] = IF k = 0 THEN Start ELSE AddParagraph(acc[k - 1], k, text[k])
  BY DEF Rounds, Start
<1>3. 0 \in S
  <2>1. acc[0] = Start
    BY <1>1, <1>2
  <2>2. Start \in Accs /\ Carries(Start, 0, text)
    BY StartIsAcc DEF Carries
  <2> QED
    BY <2>1, <2>2
<1> HIDE DEF N
<1>4. ASSUME NEW m \in S
      PROVE  m + 1 \in S
  <2> SUFFICES ASSUME m + 1 <= N
               PROVE  acc[m + 1] \in Accs /\ Carries(acc[m + 1], m + 1, text)
    OBVIOUS
  <2> DEFINE a == acc[m]
             k == m + 1
             b == AddParagraph(a, k, text[k])
  <2>1. /\ m \in Nat /\ k \in Nat /\ k \in 0..N /\ k \in 1..N /\ k # 0 /\ k - 1 = m
        /\ a \in Accs /\ Carries(a, m, text)
    BY <1>1
  <2>2. acc[k] = b /\ text[k] \in Nat
    BY <1>1, <1>2, <2>1
  <2>3. 1..k = 1..m \cup {k}
    BY <2>1
  <2> HIDE DEF a, k
  <2>4. Bounded(a.chunks) /\ Chars(a.current) <= ChunkSize
        /\ \A i \in 1..m : \A x \in 1..text[i] : Shown(a.chunks, i, x) \/ Shows(a.current, i, x)
    BY <2>1 DEF Carries
  <2>5. /\ b \in Accs /\ Bounded(b.chunks) /\ Chars(b.current) <= ChunkSize
        /\ \A i, x : Shown(a.chunks, i, x) \/ Shows(a.current, i, x)
                       => Shown(b.chunks, i, x) \/ Shows(b.current, i, x)
        /\ \A x \in 1..text[k] : Shown(b.chunks, k, x) \/ Shows(b.current, k, x)
    BY <2>1, <2>2, <2>4, ParagraphHolds
  <2> HIDE DEF b
  <2>6. Carries(b, k, text)
    BY <2>3, <2>4, <2>5 DEF Carries
  <2> QED
    BY <2>2, <2>5, <2>6 DEF k
<1>5. \A n \in Nat : n \in S
  <2> HIDE DEF S
  <2> QED
    BY <1>3, <1>4, Induction DEF S
<1> QED
  BY <1>1, <1>5 DEF N

\* Whatever the text, no chunk of intelligent_chunking is longer than the limit and no
\* character of a paragraph is left out.
THEOREM ChunksHoldText ==
  ASSUME NEW text \in Seq(Nat)
  PROVE  HoldsText(Chunked(text), text)
<1> DEFINE acc == CHOOSE g : Rounds(text, g)
           last == acc[Len(text)]
           chunks == Chunked(text)
<1>1. Rounds(text, acc)
  BY RoundsExist
<1>2. chunks = Flushed(last)
  BY DEF Chunked, Rounds
<1> HIDE DEF acc, chunks
<1>3. Len(text) \in 0..Len(text) /\ DOMAIN text = 1..Len(text)
  OBVIOUS
<1>4. last \in Accs /\ Carries(last, Len(text), text)
  BY <1>1, <1>3, RoundsCarry
<1> HIDE DEF last
<1>5. /\ chunks \in Seq(Seq(Pieces)) /\ Bounded(chunks)
      /\ \A k, x : Shown(last.chunks, k, x) \/ Shows(last.current, k, x) => Shown(chunks, k, x)
  BY <1>2, <1>4, FlushedHolds DEF Carries
<1>6. \A k \in DOMAIN text : \A x \in 1..text[k] : Shown(chunks, k, x)
  BY <1>3, <1>4, <1>5 DEF Carries
<1> QED
  BY <1>5, <1>6 DEF HoldsText, Bounded, Shown, Shows, chunks

\* Every text is held by its chunks, so "whole" excludes no request.
LEMMA AllWhole == Whole = Requests
  BY ChunksHoldText, IngestAssumption DEF Whole, ChunksOf

-----------------------------------------------------------------------------
(* The documents                                                           *)

Typed ==
  /\ stage \in [Requests -> Stages]
  /\ row \in [status: {"absent", "processing", "completed", "failed"},
              owner: Requests \cup {Null}, live: BOOLEAN, doc: Requests \cup {Null}]
  /\ doc \in [Requests -> {"none", "queued", "processing"} \cup Settled]
  /\ copies \in [Requests -> Nat]
  /\ job \in [Requests -> {"none", "queued", "running", "done"}]
  /\ work \in [Requests -> {"idle", "load", "embed", "failing", "finish"}]
  /\ crashes \in 0..MaxCrashes
  /\ undone \in [Requests -> Nat]

\* What the stage of the handler says of document and job.
HandlerShape(r) ==
  /\ stage[r] \in {"idle", "create", "replayed", "conflict", "rejected"}
       => doc[r] = "none" /\ job[r] = "none"
  /\ stage[r] \in {"enqueue", "unreachable", "fallback"}
       => doc[r] = "queued" /\ job[r] = "none"
  /\ stage[r] = "store" => doc[r] = "processing" /\ job[r] = "none"
  /\ stage[r] \in {"complete", "accepted"} => job[r] # "none" \/ doc[r] \in Settled
  /\ stage[r] \in {"close", "unavailable"} => doc[r] # "queued"
  /\ stage[r] = "failed" /\ r \notin Uploads => doc[r] # "queued"

\* A worker runs on a running job, and stores the chunks of a document that is not
\* ready: nobody else makes it ready meanwhile.
WorkerShape(r) ==
  /\ job[r] = "running" <=> work[r] # "idle"
  /\ work[r] = "embed" => doc[r] # "ready"

\* Each stored copy made the document ready, and each mark as failed undid one; a text
\* without chunks is never ready.
CopyShape(r) ==
  /\ copies[r] = undone[r] + (IF doc[r] = "ready" THEN 1 ELSE 0)
  /\ doc[r] = "ready" => r \notin Blank

Shape(r) == HandlerShape(r) /\ WorkerShape(r) /\ CopyShape(r)

\* A completed record names a document whose handler was accepted.
RowShape == row.status = "completed" => row.doc \in Requests /\ stage[row.doc] = "accepted"

IngestInv == Typed /\ RowShape /\ \A r \in Requests : Shape(r)

USE IngestAssumption DEF Stages, Ends, Settled

-----------------------------------------------------------------------------
\* A step for r leaves everything of the other requests alone.
OnlyOf(r) ==
  \A q \in Requests \ {r} :
    /\ stage'[q] = stage[q] /\ doc'[q] = doc[q] /\ copies'[q] = copies[q]
    /\ job'[q] = job[q] /\ work'[q] = work[q] /\ undone'[q] = undone[q]

LEMMA IngestInitial == IngestInit => IngestInv
  BY DEF IngestInit, IngestInv, Typed, AbsentRow, RowShape, Shape, HandlerShape, WorkerShape,
         CopyShape

\* Marking a document changes its status, and counts what it undoes.
LEMMA MarkEffect ==
  ASSUME IngestInv, NEW r \in Requests, NEW s, Mark(r, s),
         s \in {"none", "queued", "processing"} \cup Settled
  PROVE  /\ doc' \in [Requests -> {"none", "queued", "processing"} \cup Settled]
         /\ undone' \in [Requests -> Nat]
         /\ doc'[r] = s
         /\ undone'[r] = IF doc[r] = "ready" /\ s = "failed" THEN undone[r] + 1 ELSE undone[r]
         /\ \A q \in Requests \ {r} : doc'[q] = doc[q] /\ undone'[q] = undone[q]
  BY DEF IngestInv, Typed, Mark

LEMMA StoredEffect ==
  ASSUME IngestInv, NEW r \in Requests, Stored(r), doc[r] # "ready"
  PROVE  /\ doc' \in [Requests -> {"none", "queued", "processing"} \cup Settled]
         /\ undone' \in [Requests -> Nat] /\ copies' \in [Requests -> Nat]
         /\ doc'[r] \in Settled
         /\ undone'[r] = undone[r]
         /\ CopyShape(r)'
         /\ \A q \in Requests \ {r} : /\ doc'[q] = doc[q] /\ undone'[q] = undone[q]
                                      /\ copies'[q] = copies[q]
  <1>1. Mark(r, IF r \in Blank THEN "failed" ELSE "ready")
    BY DEF Stored
  <1>2. /\ doc' \in [Requests -> {"none", "queued", "processing"} \cup Settled]
        /\ undone' \in [Requests -> Nat]
        /\ doc'[r] = IF r \in Blank THEN "failed" ELSE "ready"
        /\ undone'[r] = undone[r]
        /\ \A q \in Requests \ {r} : doc'[q] = doc[q] /\ undone'[q] = undone[q]
    BY <1>1, MarkEffect
  <1>3. /\ copies' \in [Requests -> Nat]
        /\ copies'[r] = IF r \in Blank THEN copies[r] ELSE copies[r] + 1
        /\ \A q \in Requests \ {r} : copies'[q] = copies[q]
    BY DEF Stored, IngestInv, Typed
  <1>4. copies[r] = undone[r] /\ undone[r] \in Nat
    BY DEF IngestInv, Typed, Shape, CopyShape
  <1> QED BY <1>2, <1>3, <1>4 DEF CopyShape

\* The record is closed by its owner, while its lease is live, or not at all.
LEMMA CloseEffect ==
  ASSUME IngestInv, NEW r \in Requests, NEW status \in {"completed", "failed"},
         Close(r, status)
  PROVE  /\ row' \in [status: {"absent", "processing", "completed", "failed"},
                      owner: Requests \cup {Null}, live: BOOLEAN, doc: Requests \cup {Null}]
         /\ row' = row \/ (row'.status = status /\ row'.doc = r)
  BY DEF IngestInv, Typed, Close

-----------------------------------------------------------------------------
\* What a step for r has to keep.
Kept(r) == Typed' /\ OnlyOf(r) /\ Shape(r)' /\ RowShape'

LEMMA KeptIsEnough ==
  ASSUME IngestInv, NEW r \in Requests, Kept(r)
  PROVE  IngestInv'
  <1> SUFFICES ASSUME NEW q \in Requests PROVE Shape(q)'
    BY DEF Kept, IngestInv
  <1>1. CASE q = r
    BY <1>1 DEF Kept
  <1>2. CASE q # r
    BY <1>2 DEF Kept, OnlyOf, IngestInv, Shape, HandlerShape, WorkerShape, CopyShape
  <1> QED BY <1>1, <1>2

\* A handler step that writes neither document nor job.
LEMMA HandlerGoes ==
  ASSUME IngestInv, NEW r \in Requests, NEW s \in Stages, Goto(r, s),
         UNCHANGED <<doc, job, workVars, undone>>,
         row' \in [status: {"absent", "processing", "completed", "failed"},
                   owner: Requests \cup {Null}, live: BOOLEAN, doc: Requests \cup {Null}],
         row' = row \/ (row'.status = "completed" => row'.doc = r /\ s = "accepted"),
         stage[r] # "accepted",
         s \in {"idle", "create", "replayed", "conflict", "rejected"}
           => stage[r] \in {"idle", "create", "replayed", "conflict", "rejected"},
         s \in {"enqueue", "unreachable", "fallback"} => stage[r] = "enqueue",
         s # "store",
         s \in {"complete", "accepted"} => job[r] # "none" \/ doc[r] \in Settled,
         s \in {"close", "unavailable"} => stage[r] = "close",
         s = "failed" /\ r \notin Uploads => stage[r] = "store"
  PROVE  Kept(r)
  <1> USE DEF IngestInv, workVars
  <1>1. /\ stage' \in [Requests -> Stages] /\ stage'[r] = s
        /\ \A q \in Requests \ {r} : stage'[q] = stage[q]
    BY DEF Typed, Goto
  <1>2. Typed'
    BY <1>1 DEF Typed
  <1>3. OnlyOf(r)
    BY <1>1 DEF OnlyOf
  <1>4. HandlerShape(r)'
    BY <1>1 DEF Shape, HandlerShape, Typed
  <1>5. WorkerShape(r)' /\ CopyShape(r)'
    BY DEF Shape, WorkerShape, CopyShape
  <1>6. RowShape'
    BY <1>1 DEF RowShape, Typed
  <1> QED BY <1>2, <1>3, <1>4, <1>5, <1>6 DEF Kept, Shape

LEMMA LedgerSteps ==
  ASSUME IngestInv, NEW r \in Requests,
         BeginClaims(r) \/ BeginAnswers(r) \/ CloseFailed(r) \/ Complete(r)
  PROVE  Kept(r)
  <1>0. row \in [status: {"absent", "processing", "completed", "failed"},
                 owner: Requests \cup {Null}, live: BOOLEAN, doc: Requests \cup {Null}]
    BY DEF IngestInv, Typed
  <1>1. CASE BeginClaims(r)
    <2>1. Claimed(r) \in [status: {"absent", "processing", "completed", "failed"},
                          owner: Requests \cup {Null}, live: BOOLEAN, doc: Requests \cup {Null}]
          /\ Claimed(r).status # "completed"
      BY DEF Claimed
    <2> QED BY <1>1, <2>1, HandlerGoes DEF BeginClaims
  <1>2. CASE BeginAnswers(r)
    BY <1>0, <1>2, HandlerGoes DEF BeginAnswers
  <1>3. CASE CloseFailed(r)
    BY <1>3, CloseEffect, HandlerGoes DEF CloseFailed
  <1>4. CASE Complete(r)
    <2>1. job[r] # "none" \/ doc[r] \in Settled
      BY <1>4 DEF Complete, IngestInv, Shape, HandlerShape
    <2> QED BY <1>4, <2>1, CloseEffect, HandlerGoes DEF Complete
  <1> QED BY <1>1, <1>2, <1>3, <1>4

LEMMA QuietSteps ==
  ASSUME IngestInv, NEW r \in Requests,
         Write(r) \/ EnqueueUnreachable(r) \/ StoreInlineRefused(r) \/ Crash(r)
  PROVE  Kept(r)
  <1>0. row \in [status: {"absent", "processing", "completed", "failed"},
                 owner: Requests \cup {Null}, live: BOOLEAN, doc: Requests \cup {Null}]
    BY DEF IngestInv, Typed
  <1>1. CASE Write(r)
    BY <1>0, <1>1, HandlerGoes DEF Write
  <1>2. CASE EnqueueUnreachable(r)
    BY <1>0, <1>2, HandlerGoes DEF EnqueueUnreachable
  <1>3. CASE StoreInlineRefused(r)
    BY <1>0, <1>3, HandlerGoes DEF StoreInlineRefused
  <1>4. CASE Crash(r)
    BY <1>0, <1>4, HandlerGoes DEF Crash
  <1> QED BY <1>1, <1>2, <1>3, <1>4

\* The job is put into the queue: the queue holds it whatever the handler is told.
LEMMA EnqueueSteps ==
  ASSUME IngestInv, NEW r \in Requests, Enqueued(r) \/ EnqueueRaises(r)
  PROVE  Kept(r)
  <1> USE DEF IngestInv, workVars
  <1>1. PICK s \in {"accepted", "complete", "failed", "fail"} :
          /\ Goto(r, s) /\ stage[r] = "enqueue"
          /\ s \in {"accepted", "complete"} => job' = [job EXCEPT ![r] = "queued"]
          /\ s = "failed" => r \in Uploads
          /\ job' \in {job, [job EXCEPT ![r] = "queued"]}
          /\ UNCHANGED <<row, doc, workVars, undone>>
    BY DEF Enqueued, EnqueueRaises
  <1>2. /\ stage' \in [Requests -> Stages] /\ stage'[r] = s
        /\ job' \in [Requests -> {"none", "queued", "running", "done"}]
        /\ job'[r] \in {"none", "queued"} /\ job[r] = "none" /\ doc[r] = "queued"
        /\ s \in {"accepted", "complete"} => job'[r] = "queued"
        /\ \A q \in Requests \ {r} : stage'[q] = stage[q] /\ job'[q] = job[q]
    <2>1. job[r] = "none" /\ doc[r] = "queued"
      BY <1>1 DEF Shape, HandlerShape
    <2>2. /\ stage' \in [Requests -> Stages] /\ stage'[r] = s
          /\ \A q \in Requests \ {r} : stage'[q] = stage[q]
      BY <1>1 DEF Typed, Goto
    <2>3. /\ job' \in [Requests -> {"none", "queued", "running", "done"}]
          /\ job'[r] \in {"none", "queued"}
          /\ s \in {"accepted", "complete"} => job'[r] = "queued"
          /\ \A q \in Requests \ {r} : job'[q] = job[q]
      <3>1. CASE job' = [job EXCEPT ![r] = "queued"]
        BY <3>1 DEF Typed
      <3>2. CASE job' = job /\ s \notin {"accepted", "complete"}
        BY <2>1, <3>2 DEF Typed
      <3> QED BY <1>1, <3>1, <3>2
    <2> QED BY <2>1, <2>2, <2>3
  <1>3. Typed' /\ OnlyOf(r)
    BY <1>1, <1>2 DEF Typed, OnlyOf
  <1>4. HandlerShape(r)'
    BY <1>1, <1>2 DEF HandlerShape
  <1>5. WorkerShape(r)' /\ CopyShape(r)'
    BY <1>1, <1>2 DEF Shape, WorkerShape, CopyShape, Typed
  <1>6. RowShape'
    BY <1>1, <1>2 DEF RowShape
  <1> QED BY <1>3, <1>4, <1>5, <1>6 DEF Kept, Shape

\* A handler writes the status of its document.
LEMMA MarkSteps ==
  ASSUME IngestInv, NEW r \in Requests,
         Create(r) \/ FailDocument(r) \/ Unreachable(r) \/ Fallback(r)
  PROVE  Kept(r)
  <1> USE DEF IngestInv, workVars
  <1>1. PICK s \in Stages, d \in {"queued", "processing", "failed"} :
          /\ Goto(r, s) /\ Mark(r, d)
          /\ \/ s = "enqueue" /\ d = "queued" /\ stage[r] = "create"
             \/ s = "store" /\ d = "processing" /\ stage[r] = "fallback"
             \/ s \in {"close", "unavailable"} /\ d = "failed"
                /\ stage[r] \in {"fail", "unreachable"}
          /\ UNCHANGED <<row, job, workVars>>
    BY DEF Create, FailDocument, Unreachable, Fallback
  <1>2. /\ stage' \in [Requests -> Stages] /\ stage'[r] = s
        /\ \A q \in Requests \ {r} : stage'[q] = stage[q]
    BY <1>1 DEF Typed, Goto
  <1>3. Typed' /\ OnlyOf(r)
    BY <1>1, <1>2, MarkEffect DEF Typed, OnlyOf
  <1>4. HandlerShape(r)'
    BY <1>1, <1>2, MarkEffect DEF Shape, HandlerShape
  <1>5. WorkerShape(r)'
    BY <1>1, MarkEffect DEF Shape, WorkerShape
  <1>6. CopyShape(r)'
    <2>1. doc[r] = "ready" => d = "failed"
      BY <1>1 DEF Shape, HandlerShape
    <2>2. copies[r] \in Nat /\ undone[r] \in Nat
      BY DEF Typed
    <2> QED BY <1>1, <2>1, <2>2, MarkEffect DEF Shape, CopyShape
  <1>7. RowShape'
    BY <1>1, <1>2 DEF RowShape
  <1> QED BY <1>3, <1>4, <1>5, <1>6, <1>7 DEF Kept, Shape

LEMMA StoreInlineStep ==
  ASSUME IngestInv, NEW r \in Requests, StoreInline(r)
  PROVE  Kept(r)
  <1> USE DEF IngestInv
  <1>1. /\ stage[r] = "store" /\ doc[r] = "processing" /\ job[r] = "none"
        /\ Stored(r) /\ Goto(r, "complete") /\ UNCHANGED <<row, job, work, crashes>>
    BY DEF StoreInline, Shape, HandlerShape
  <1>2. /\ stage' \in [Requests -> Stages] /\ stage'[r] = "complete"
        /\ \A q \in Requests \ {r} : stage'[q] = stage[q]
    BY <1>1 DEF Typed, Goto
  <1>3. Typed' /\ OnlyOf(r)
    BY <1>1, <1>2, StoredEffect DEF Typed, OnlyOf
  <1>4. HandlerShape(r)'
    BY <1>1, <1>2, StoredEffect DEF HandlerShape
  <1>5. WorkerShape(r)'
    BY <1>1 DEF Shape, WorkerShape, Typed
  <1>6. CopyShape(r)' /\ RowShape'
    BY <1>1, <1>2, StoredEffect DEF RowShape
  <1> QED BY <1>3, <1>4, <1>5, <1>6 DEF Kept, Shape

-----------------------------------------------------------------------------
(* The worker                                                              *)

\* The job of r moves on; document and chunks are as they were.
LEMMA JobMoves ==
  ASSUME IngestInv, NEW r \in Requests,
         Deliver(r) \/ Finish(r) \/ WorkerCrash(r) \/ StoreRefused(r)
  PROVE  Kept(r)
  <1> USE DEF IngestInv
  <1>1. PICK j \in {"queued", "running", "done"}, w \in {"idle", "load", "finish"} :
          /\ job[r] # "none" /\ job' = [job EXCEPT ![r] = j]
          /\ work' = [work EXCEPT ![r] = w] /\ (j = "running" <=> w # "idle")
          /\ crashes' \in 0..MaxCrashes
          /\ UNCHANGED <<stage, row, doc, copies, undone>>
    <2>0. crashes \in 0..MaxCrashes /\ job \in [Requests -> {"none", "queued", "running", "done"}]
      BY DEF Typed
    <2>1. CASE Deliver(r)
      BY <2>0, <2>1 DEF Deliver
    <2>2. CASE Finish(r)
      BY <2>0, <2>2 DEF Finish
    <2>3. CASE WorkerCrash(r)
      BY <2>0, <2>3 DEF WorkerCrash
    <2>4. CASE StoreRefused(r)
      <3>1. job' = [job EXCEPT ![r] = "running"]
        BY <2>0, <2>4 DEF StoreRefused
      <3> QED BY <2>0, <2>4, <3>1 DEF StoreRefused
    <2> QED BY <2>1, <2>2, <2>3, <2>4
  <1>2. /\ job'[r] = j /\ work'[r] = w
        /\ \A q \in Requests \ {r} : job'[q] = job[q] /\ work'[q] = work[q]
    BY <1>1 DEF Typed
  <1>3. Typed' /\ OnlyOf(r)
    BY <1>1, <1>2 DEF Typed, OnlyOf
  <1>4. HandlerShape(r)'
    BY <1>1, <1>2 DEF Shape, HandlerShape
  <1>5. WorkerShape(r)' /\ CopyShape(r)' /\ RowShape'
    BY <1>1, <1>2 DEF Shape, WorkerShape, CopyShape, RowShape
  <1> QED BY <1>3, <1>4, <1>5 DEF Kept, Shape

\* The worker writes the status of the document it has loaded.
LEMMA WorkerMarks ==
  ASSUME IngestInv, NEW r \in Requests, NEW d \in {"processing", "failed"}, Mark(r, d),
         NEW w \in {"embed", "finish"}, job[r] = "running",
         work' = [work EXCEPT ![r] = w], doc[r] = "ready" => d = "failed",
         UNCHANGED <<stage, row, copies, job, crashes>>
  PROVE  Kept(r)
  <1> USE DEF IngestInv
  <1>1. /\ work' \in [Requests -> {"idle", "load", "embed", "failing", "finish"}]
        /\ work'[r] = w /\ \A q \in Requests \ {r} : work'[q] = work[q]
    BY DEF Typed
  <1>2. Typed' /\ OnlyOf(r)
    BY <1>1, MarkEffect DEF Typed, OnlyOf
  <1>3. HandlerShape(r)'
    BY MarkEffect DEF Shape, HandlerShape
  <1>4. WorkerShape(r)' /\ RowShape'
    BY <1>1, MarkEffect DEF WorkerShape, RowShape
  <1>5. CopyShape(r)'
    <2>1. copies[r] \in Nat /\ undone[r] \in Nat
      BY DEF Typed
    <2> QED BY <2>1, MarkEffect DEF Shape, CopyShape
  <1> QED BY <1>2, <1>3, <1>4, <1>5 DEF Kept, Shape

\* The worker goes on and leaves the status as it is, or as "processing".
LEMMA WorkerGoes ==
  ASSUME IngestInv, NEW r \in Requests, NEW w \in {"failing", "finish"}, job[r] = "running",
         work' = [work EXCEPT ![r] = w],
         \/ doc' = doc
         \/ doc[r] # "ready" /\ doc' = [doc EXCEPT ![r] = "processing"],
         UNCHANGED <<stage, row, copies, job, crashes, undone>>
  PROVE  Kept(r)
  <1> USE DEF IngestInv
  <1>1. /\ work' \in [Requests -> {"idle", "load", "embed", "failing", "finish"}]
        /\ work'[r] = w /\ \A q \in Requests \ {r} : work'[q] = work[q]
    BY DEF Typed
  <1>2. /\ doc' \in [Requests -> {"none", "queued", "processing"} \cup Settled]
        /\ doc'[r] = doc[r] \/ (doc'[r] = "processing" /\ doc[r] # "ready")
        /\ \A q \in Requests \ {r} : doc'[q] = doc[q]
    BY DEF Typed
  <1>3. Typed' /\ OnlyOf(r)
    BY <1>1, <1>2 DEF Typed, OnlyOf
  <1>4. HandlerShape(r)'
    BY <1>2 DEF Shape, HandlerShape
  <1>5. WorkerShape(r)' /\ RowShape' /\ CopyShape(r)'
    BY <1>1, <1>2 DEF Shape, WorkerShape, RowShape, CopyShape
  <1> QED BY <1>3, <1>4, <1>5 DEF Kept, Shape

\* The worker stores the chunks.
LEMMA WorkerStores ==
  ASSUME IngestInv, NEW r \in Requests, NEW w \in {"failing", "finish"}, Stored(r),
         job[r] = "running", work[r] = "embed", work' = [work EXCEPT ![r] = w],
         UNCHANGED <<stage, row, job, crashes>>
  PROVE  Kept(r)
  <1> USE DEF IngestInv
  <1>1. /\ work' \in [Requests -> {"idle", "load", "embed", "failing", "finish"}]
        /\ work'[r] = w /\ \A q \in Requests \ {r} : work'[q] = work[q]
    BY DEF Typed
  <1>2. doc[r] # "ready"
    BY DEF Shape, WorkerShape
  <1>3. Typed' /\ OnlyOf(r)
    BY <1>1, <1>2, StoredEffect DEF Typed, OnlyOf
  <1>4. HandlerShape(r)'
    BY <1>2, StoredEffect DEF Shape, HandlerShape
  <1>5. WorkerShape(r)' /\ RowShape' /\ CopyShape(r)'
    BY <1>1, <1>2, StoredEffect DEF WorkerShape, RowShape
  <1> QED BY <1>3, <1>4, <1>5 DEF Kept, Shape

LEMMA WorkerSteps ==
  ASSUME IngestInv, NEW r \in Requests, WorkerStep(r) \/ WorkerCrash(r)
  PROVE  Kept(r)
  <1>1. CASE Load(r)
    <2>1. CASE doc[r] = "ready"
      BY <1>1, <2>1, WorkerGoes DEF Load
    <2>2. CASE doc[r] # "ready"
      BY <1>1, <2>2, WorkerMarks DEF Load
    <2> QED BY <2>1, <2>2
  <1>2. CASE LoadFails(r)
    BY <1>2, WorkerGoes DEF LoadFails
  <1>3. CASE Store(r)
    BY <1>3, WorkerStores DEF Store
  <1>4. CASE StoreFails(r)
    <2>1. CASE UNCHANGED <<doc, copies, undone>>
      BY <1>4, <2>1, WorkerGoes DEF StoreFails
    <2>2. CASE Stored(r)
      BY <1>4, <2>2, WorkerStores DEF StoreFails
    <2> QED BY <1>4, <2>1, <2>2 DEF StoreFails
  <1>5. CASE MarkFailed(r)
    <2>1. CASE Mark(r, "failed")
      BY <1>5, <2>1, WorkerMarks DEF MarkFailed
    <2>2. CASE UNCHANGED <<doc, undone>>
      BY <1>5, <2>2, WorkerGoes DEF MarkFailed
    <2> QED BY <1>5, <2>1, <2>2 DEF MarkFailed
  <1> QED BY <1>1, <1>2, <1>3, <1>4, <1>5, JobMoves DEF WorkerStep

LEMMA ExpiryStep ==
  ASSUME IngestInv, LeaseExpires
  PROVE  IngestInv'
  <1>1. /\ row' = [row EXCEPT !.live = FALSE]
        /\ UNCHANGED <<stage, doc, job, copies, work, crashes, undone>>
        /\ row.status = "processing"
    BY DEF LeaseExpires, workVars
  <1>2. Typed' /\ RowShape'
    BY <1>1 DEF IngestInv, Typed, RowShape
  <1> QED BY <1>1, <1>2 DEF IngestInv, Shape, HandlerShape, WorkerShape, CopyShape

LEMMA IngestStep == IngestInv /\ [IngestNext]_ingestVars => IngestInv'
  <1> SUFFICES ASSUME IngestInv, [IngestNext]_ingestVars PROVE IngestInv'
    OBVIOUS
  <1>1. CASE UNCHANGED ingestVars
    BY <1>1 DEF ingestVars, IngestInv, Typed, RowShape, Shape, HandlerShape, WorkerShape,
                CopyShape
  <1>2. ASSUME NEW r \in Requests, HandlerStep(r) \/ Crash(r) PROVE IngestInv'
    <2>1. Kept(r)
      BY <1>2, LedgerSteps, QuietSteps, EnqueueSteps, MarkSteps, StoreInlineStep
         DEF HandlerStep
    <2> QED BY <2>1, KeptIsEnough
  <1>3. ASSUME NEW r \in Requests, WorkerStep(r) \/ WorkerCrash(r) PROVE IngestInv'
    BY <1>3, WorkerSteps, KeptIsEnough
  <1> QED BY <1>1, <1>2, <1>3, ExpiryStep DEF IngestNext

-----------------------------------------------------------------------------
(* Theorems                                                                *)

\* Handlers, record, documents and workers stay consistent.
THEOREM IngestInvariance == IngestSpec => []IngestInv
  BY IngestInitial, IngestStep, PTL DEF IngestSpec

\* Every variable stays in its type, and a worker is at work exactly on the jobs that run.
THEOREM IngestTypes == IngestSpec => []IngestTypeOK
  <1>1. IngestInv => IngestTypeOK
    BY DEF IngestInv, Typed, Shape, WorkerShape, IngestTypeOK
  <1> QED BY <1>1, IngestInvariance, PTL

\* Every stored copy is accounted for, for any number of requests, redeliveries and
\* failed commits: only a mark as failed of a ready document lets the chunks be stored
\* again (process_document_ingestion, _fail_document_ingest).
THEOREM ChunksAreStoredOnce == IngestSpec => []StoredOnce
  <1>1. IngestInv => StoredOnce
    BY DEF IngestInv, Shape, CopyShape, StoredOnce
  <1> QED BY <1>1, IngestInvariance, PTL

\* A completed record and an answered request are backed by a job or a settled document
\* (ingest_document, complete_idempotency).
THEOREM AnswersAreBacked == IngestSpec => []AnswerIsBacked
  <1>1. IngestInv => AnswerIsBacked
    <2> SUFFICES ASSUME IngestInv PROVE AnswerIsBacked
      OBVIOUS
    <2>1. row.status = "completed" => job[row.doc] # "none" \/ doc[row.doc] \in Settled
      BY DEF IngestInv, RowShape, Shape, HandlerShape
    <2>2. ASSUME NEW r \in Requests \ Uploads, stage[r] \in Ends \ {"crashed"},
                 doc[r] = "queued"
          PROVE  job[r] # "none"
      BY <2>2 DEF IngestInv, Shape, HandlerShape
    <2> QED BY <2>1, <2>2 DEF AnswerIsBacked
  <1> QED BY <1>1, IngestInvariance, PTL

\* A document the workers or the fallback made ready has its chunks: at least one copy of
\* at least one chunk is stored, however often the job was delivered, the worker crashed
\* or somebody marked the document failed before.
THEOREM ReadyDocumentsHaveChunks ==
  IngestSpec => [](\A d \in Requests : doc[d] = "ready" => copies[d] > 0 /\ ChunksOf[d] # <<>>)
  <1>1. IngestInv => \A d \in Requests : doc[d] = "ready" => copies[d] > 0 /\ ChunksOf[d] # <<>>
    <2> SUFFICES ASSUME IngestInv, NEW d \in Requests, doc[d] = "ready"
                 PROVE  copies[d] > 0 /\ d \notin Blank
      BY DEF Blank
    <2>1. copies[d] = undone[d] + 1 /\ undone[d] \in Nat /\ d \notin Blank
      BY DEF IngestInv, Typed, Shape, CopyShape
    <2> QED BY <2>1
  <1> QED BY <1>1, IngestInvariance, PTL

\* A document that is ready has its chunks, and they hold every character of its text
\* within the size limit (process_document_ingestion, intelligent_chunking).
THEOREM ReadyDocumentsAreWhole == IngestSpec => []ReadyIsWhole
  <1>1. (\A d \in Requests : doc[d] = "ready" => copies[d] > 0 /\ ChunksOf[d] # <<>>)
          => ReadyIsWhole
    BY AllWhole DEF ReadyIsWhole
  <1> QED BY <1>1, ReadyDocumentsHaveChunks, PTL

=============================================================================
