---------------------------- MODULE ServerProofs ----------------------------
(***************************************************************************)
(* Proofs about Server, for any clients, any lines and any sizes of lines, *)
(* reads and writes.                                                       *)
(*                                                                         *)
(* A client's bytes are one stream.  Where each line of it ends is known   *)
(* (Ends), and at any time the stream falls into what was handled, what    *)
(* the trimming dropped, the buffer, the wire and what is unsent.          *)
(***************************************************************************)
EXTENDS Server, FiniteSetTheorems, SequenceTheorems, InductionFacts, TLAPS

-----------------------------------------------------------------------------
(* The stream of a client.                                                 *)

Byte == (Clients \X Nat \X Nat) \cup {Newline}
Script == Seq([len : Nat, ask : BOOLEAN])

\* Of the bytes b the first m lines of the script s end at e[1], ..., e[m], the
\* last one at the end of b.
Marks(c, s, m, b, e) ==
  /\ e \in [0 .. m -> 0 .. Len(b)] /\ e[0] = 0 /\ e[m] = Len(b)
  /\ \A i \in 1 .. m :
       /\ e[i] = e[i - 1] + s[i].len + 1
       /\ b[e[i]] = Newline
       /\ \A k \in 1 .. s[i].len : b[e[i - 1] + k] = <<c, i, k>>

Stream(c) == Bytes(c, script[c])
Ends(c) == CHOOSE e : Marks(c, script[c], Len(script[c]), Stream(c), e)

-----------------------------------------------------------------------------
(* The inductive invariant.                                                *)

Looking == {"read", "lines", "answer", "close"}

\* Descriptors: each is the connection of a client of its own, which is not
\* waiting to be accepted any more; those to look at are open.
ConnInv ==
  /\ IsFiniteSet(DOMAIN conn)
  /\ conn \in [DOMAIN conn -> Clients] /\ buffers \in [DOMAIN conn -> Seq(Byte)]
  /\ \A f, g \in DOMAIN conn : conn[f] = conn[g] => f = g
  /\ \A f \in DOMAIN conn : conn[f] \notin pending /\ peer[conn[f]] # "new"
  /\ \A c \in pending : peer[c] # "new"
  /\ \A p, q \in polled : p.fd = q.fd => p = q
  /\ pc = "poll" => polled = {}
  /\ pc \in Looking => \A p \in polled : p.fd # cur.fd

\* The number of bytes of c that the server has read.
ReadTo(c) == Len(Stream(c)) - Len(wire[c]) - Len(unsent[c])

\* The bytes in the socket and those still to be written are the rest of the
\* stream, and nothing was read from a client that was not accepted yet.
WireOf(c) ==
  /\ ReadTo(c) >= 0
  /\ \A j \in 1 .. Len(wire[c]) : wire[c][j] = Stream(c)[ReadTo(c) + j]
  /\ \A j \in 1 .. Len(unsent[c]) : unsent[c][j] = Stream(c)[ReadTo(c) + Len(wire[c]) + j]
  /\ peer[c] = "new" \/ c \in pending => ReadTo(c) = 0 /\ handled[c] = <<>>

WireInv ==
  /\ script \in [Clients -> Script]
  /\ unsent \in [Clients -> Seq(Byte)] /\ wire \in [Clients -> Seq(Byte)]
  /\ handled \in [Clients -> Seq(Seq(Byte))]
  /\ \A c \in Clients : WireOf(c)

\* The bytes of the client before the buffer of descriptor f.
Before(f) == ReadTo(conn[f]) - Len(buffers[f])
Handled(f) == Ends(conn[f])[Len(handled[conn[f]])]

\* The buffer follows the last line handled, or a part of the next line that
\* was dropped because that line is too long.
BufferOf(f) ==
  /\ Len(handled[conn[f]]) <= Len(script[conn[f]])
  /\ Handled(f) <= Before(f)
  /\ \A j \in 1 .. Len(buffers[f]) : buffers[f][j] = Stream(conn[f])[Before(f) + j]
  /\ \A x \in (Handled(f) + 1) .. Before(f) : Stream(conn[f])[x] # Newline
  /\ Handled(f) < Before(f) =>
       \A x \in (Handled(f) + 1) .. (Handled(f) + MaxLine + 1) : Stream(conn[f])[x] # Newline
  /\ HasLine(buffers[f]) => pc \in {"lines", "answer"} /\ f = cur.fd

BufferInv == \A f \in DOMAIN conn : BufferOf(f)

\* The line at work is the last one handled, and was not answered yet.
AnswerInv ==
  /\ answers \in [Clients -> Seq(Nat)]
  /\ pc = "answer" =>
       LET h == handled[Owner]
       IN /\ Len(h) > 0 /\ line = h[Len(h)]
          /\ \A k \in DOMAIN answers[Owner] : answers[Owner][k] < Len(h)

ServerInv ==
  TypeOK /\ ConnInv /\ WireInv /\ BufferInv /\ LinesArriveWhole /\ AnswerInv /\ AnswersInOrder

-----------------------------------------------------------------------------
(* Facts about sequences.                                                  *)

LEMMA PrefixFacts ==
  ASSUME NEW B, NEW s \in Seq(B), NEW n \in Nat
  PROVE  /\ Prefix(s, n) \in Seq(B)
         /\ Len(Prefix(s, n)) = IF n < Len(s) THEN n ELSE Len(s)
         /\ \A j \in 1 .. Len(Prefix(s, n)) : Prefix(s, n)[j] = s[j]
<1>1. PICK m \in 0 .. Len(s) : m = IF n < Len(s) THEN n ELSE Len(s)
  OBVIOUS
<1>2. Prefix(s, n) = SubSeq(s, 1, m)
  BY <1>1 DEF Prefix
<1>3. \A i \in 1 .. m : s[i] \in B
  OBVIOUS
<1>4. SubSeq(s, 1, m) \in Seq(B) /\ Len(SubSeq(s, 1, m)) = m
  BY <1>3, SubSeqProperties
<1>5. \A j \in 1 .. m : SubSeq(s, 1, m)[j] = s[j]
  BY SubSeqProperties
<1> QED
  BY <1>1, <1>2, <1>4, <1>5

LEMMA DropFacts ==
  ASSUME NEW B, NEW s \in Seq(B), NEW n \in Nat
  PROVE  /\ Drop(s, n) \in Seq(B)
         /\ Len(Drop(s, n)) = IF n < Len(s) THEN Len(s) - n ELSE 0
         /\ \A j \in 1 .. Len(Drop(s, n)) : Drop(s, n)[j] = s[n + j]
<1>1. \A i \in (n + 1) .. Len(s) : s[i] \in B
  OBVIOUS
<1>2. SubSeq(s, n + 1, Len(s)) \in Seq(B)
  BY <1>1
<1>3. Len(SubSeq(s, n + 1, Len(s))) = IF n < Len(s) THEN Len(s) - n ELSE 0
  BY SMT
<1>4. \A j \in 1 .. Len(SubSeq(s, n + 1, Len(s))) : SubSeq(s, n + 1, Len(s))[j] = s[n + j]
  BY SMT
<1> QED
  BY <1>2, <1>3, <1>4 DEF Drop

LEMMA ConcatFacts ==
  ASSUME NEW B, NEW s \in Seq(B), NEW t \in Seq(B)
  PROVE  /\ s \o t \in Seq(B) /\ Len(s \o t) = Len(s) + Len(t)
         /\ \A j \in 1 .. Len(s) : (s \o t)[j] = s[j]
         /\ \A j \in 1 .. Len(t) : (s \o t)[Len(s) + j] = t[j]
BY SMT

\* The first newline of a buffer that has one.
LEMMA LineEndFacts ==
  ASSUME NEW b \in Seq(Byte), HasLine(b)
  PROVE  /\ LineEnd(b) \in 1 .. Len(b) /\ b[LineEnd(b)] = Newline
         /\ \A j \in 1 .. (LineEnd(b) - 1) : b[j] # Newline
<1>1. PICK T : T = {k \in 1 .. Len(b) : b[k] = Newline}
  OBVIOUS
<1>2. T \subseteq Nat /\ T # {}
  BY <1>1 DEF HasLine
<1>3. PICK x \in T : \A y \in T : x <= y
  BY <1>2, LeastNatural
<1>4. x \in 1 .. Len(b) /\ b[x] = Newline
  BY <1>1
<1>5. ASSUME NEW j \in 1 .. (x - 1)
      PROVE  b[j] # Newline
  <2>1. j \in 1 .. Len(b) /\ ~(x <= j)
    BY <1>4
  <2> QED
    BY <1>1, <1>3, <2>1
<1>6. \E k \in 1 .. Len(b) : b[k] = Newline /\ \A j \in 1 .. (k - 1) : b[j] # Newline
  BY <1>4, <1>5
<1> QED
  BY <1>6 DEF LineEnd

LEMMA TextFacts ==
  ASSUME NEW c \in Clients, NEW i \in Nat, NEW n \in Nat
  PROVE  /\ Text(c, i, n) \in Seq(Byte) /\ Len(Text(c, i, n)) = n
         /\ \A k \in 1 .. n : Text(c, i, n)[k] = <<c, i, k>> /\ <<c, i, k>> \in Byte
<1>1. \A k \in 1 .. n : <<c, i, k>> \in Byte
  BY DEF Byte
<1> QED
  BY <1>1 DEF Text

-----------------------------------------------------------------------------
(* The recursion in Bytes.                                                 *)

EndOfLine == <<Newline>>

LEMMA EndOfLineFacts == EndOfLine \in Seq(Byte) /\ Len(EndOfLine) = 1 /\ EndOfLine[1] = Newline
BY DEF EndOfLine, Byte

\* The bytes of the first lines, as Bytes counts them up.
Upto(c, s, m, u) ==
  u = [i \in 0 .. m |-> IF i = 0 THEN <<>> ELSE u[i - 1] \o Text(c, i, s[i].len) \o EndOfLine]

\* The recursive function of Bytes is there, for any number of lines.
LEMMA UptoExists ==
  ASSUME NEW c, NEW s
  PROVE  \A m \in Nat : \E u : Upto(c, s, m, u)
<1>1. PICK S : S = {m \in Nat : \E u : Upto(c, s, m, u)}
  OBVIOUS
<1>2. 0 \in S
  <2>1. PICK u : u = [i \in 0 .. 0 |-> <<>>]
    OBVIOUS
  <2>2. Upto(c, s, 0, u)
    BY <2>1 DEF Upto
  <2> QED
    BY <1>1, <2>2
<1>3. ASSUME NEW m \in Nat, m \in S
      PROVE  m + 1 \in S
  <2>1. PICK u : Upto(c, s, m, u)
    BY <1>1, <1>3
  <2>2. PICK v : v = [i \in 0 .. (m + 1) |->
                        IF i <= m THEN u[i] ELSE u[m] \o Text(c, i, s[i].len) \o EndOfLine]
    OBVIOUS
  <2>3. ASSUME NEW i \in 0 .. (m + 1)
        PROVE  v[i] = IF i = 0 THEN <<>> ELSE v[i - 1] \o Text(c, i, s[i].len) \o EndOfLine
    <3>1. CASE i = 0
      BY <2>1, <2>2, <3>1 DEF Upto
    <3>2. CASE i # 0 /\ i <= m
      <4>1. i \in 0 .. m /\ i - 1 \in 0 .. m /\ i - 1 \in 0 .. (m + 1)
        BY <3>2
      <4>2. u[i] = u[i - 1] \o Text(c, i, s[i].len) \o EndOfLine
        BY <2>1, <3>2, <4>1 DEF Upto
      <4>3. v[i] = u[i] /\ v[i - 1] = u[i - 1]
        BY <2>2, <3>2, <4>1
      <4> QED
        BY <3>2, <4>2, <4>3
    <3>3. CASE i = m + 1
      <4>1. v[i] = u[m] \o Text(c, i, s[i].len) \o EndOfLine /\ v[i - 1] = u[m] /\ i # 0
        BY <2>2, <3>3
      <4> QED
        BY <4>1
    <3> QED
      BY <3>1, <3>2, <3>3
  <2>4. Upto(c, s, m + 1, v)
    BY <2>2, <2>3 DEF Upto
  <2> QED
    BY <1>1, <2>4
<1>4. Nat \subseteq S
  BY <1>2, <1>3, SetInduction
<1> QED
  BY <1>1, <1>4

LEMMA BytesIsUpto ==
  ASSUME NEW c, NEW s \in Script
  PROVE  \E u : Upto(c, s, Len(s), u) /\ Bytes(c, s) = u[Len(s)]
<1> DEFINE f == CHOOSE g : g = [i \in 0 .. Len(s) |->
                   IF i = 0 THEN <<>> ELSE g[i - 1] \o Text(c, i, s[i].len) \o EndOfLine]
<1>1. Len(s) \in Nat
  BY DEF Script
<1>2. \E g : Upto(c, s, Len(s), g)
  BY <1>1, UptoExists
<1>3. f = [i \in 0 .. Len(s) |->
             IF i = 0 THEN <<>> ELSE f[i - 1] \o Text(c, i, s[i].len) \o EndOfLine]
  BY <1>2 DEF Upto
<1>4. Bytes(c, s) = f[Len(s)]
  BY DEF Bytes, EndOfLine
<1> QED
  BY <1>3, <1>4 DEF Upto

LEMMA Within ==
  ASSUME NEW x \in Nat, NEW k \in Nat, NEW n \in Nat, NEW l \in Nat,
         1 <= k, k <= n, x + n + 1 <= l
  PROVE  x + k \in 1 .. l
OBVIOUS

\* Bytes, those of a line and its newline.
LEMMA LineFacts ==
  ASSUME NEW b \in Seq(Byte), NEW t \in Seq(Byte), NEW z \in Seq(Byte), NEW d, d = b \o t \o z
  PROVE  /\ d \in Seq(Byte) /\ Len(d) = Len(b) + Len(t) + Len(z)
         /\ \A j \in 1 .. Len(b) : d[j] = b[j]
         /\ \A j \in 1 .. Len(t) : d[Len(b) + j] = t[j]
         /\ \A j \in 1 .. Len(z) : d[Len(b) + Len(t) + j] = z[j]
<1>1. PICK a : a = b \o t
  OBVIOUS
<1>2. /\ a \in Seq(Byte) /\ Len(a) = Len(b) + Len(t)
      /\ \A j \in 1 .. Len(b) : a[j] = b[j]
      /\ \A j \in 1 .. Len(t) : a[Len(b) + j] = t[j]
  BY <1>1, ConcatFacts
<1>3. d = a \o z
  BY <1>1
<1>4. /\ d \in Seq(Byte) /\ Len(d) = Len(a) + Len(z)
      /\ \A j \in 1 .. Len(a) : d[j] = a[j]
      /\ \A j \in 1 .. Len(z) : d[Len(a) + j] = z[j]
  <2>1. a \in Seq(Byte)
    BY <1>2
  <2> QED
    BY <2>1, <1>3, ConcatFacts
<1> QED
  BY <1>2, <1>4

\* One more line moves no mark and adds one, at the end.
LEMMA MarksStep ==
  ASSUME NEW c \in Clients, NEW s \in Script, NEW m \in Nat, m + 1 <= Len(s),
         NEW b \in Seq(Byte), NEW e, Marks(c, s, m, b, e),
         NEW b2, b2 = b \o Text(c, m + 1, s[m + 1].len) \o EndOfLine
  PROVE  b2 \in Seq(Byte) /\ \E e2 : Marks(c, s, m + 1, b2, e2)
<1>1. PICK n : n = s[m + 1].len
  OBVIOUS
<1>2. /\ n \in Nat /\ m + 1 \in 1 .. Len(s) /\ m + 1 \in Nat
      /\ \A i \in 1 .. (m + 1) : s[i].len \in Nat
  <2>1. Len(s) \in Nat /\ \A i \in 1 .. Len(s) : s[i] \in [len : Nat, ask : BOOLEAN]
    BY ElementOfSeq, LenProperties DEF Script
  <2>2. \A i \in 1 .. (m + 1) : i \in 1 .. Len(s)
    BY <2>1
  <2>3. \A i \in 1 .. (m + 1) : s[i].len \in Nat
    BY <2>1, <2>2
  <2> QED
    BY <1>1, <2>1, <2>3
<1>3. PICK t : t = Text(c, m + 1, n)
  OBVIOUS
<1>4. /\ t \in Seq(Byte) /\ Len(t) = n /\ \A k \in 1 .. n : t[k] = <<c, m + 1, k>>
  BY <1>2, <1>3, TextFacts
<1>5. PICK z \in Seq(Byte) : z = EndOfLine
  BY EndOfLineFacts
<1>6. b2 = b \o t \o z
  BY <1>1, <1>3, <1>5
<1>7. /\ b2 \in Seq(Byte) /\ Len(b2) = Len(b) + Len(t) + Len(z)
      /\ \A j \in 1 .. Len(b) : b2[j] = b[j]
      /\ \A j \in 1 .. Len(t) : b2[Len(b) + j] = t[j]
      /\ \A j \in 1 .. Len(z) : b2[Len(b) + Len(t) + j] = z[j]
  <2>1. t \in Seq(Byte)
    BY <1>4
  <2>2. PICK x : x = b \o t \o z
    OBVIOUS
  <2>3. /\ x \in Seq(Byte) /\ Len(x) = Len(b) + Len(t) + Len(z)
        /\ \A j \in 1 .. Len(b) : x[j] = b[j]
        /\ \A j \in 1 .. Len(t) : x[Len(b) + j] = t[j]
        /\ \A j \in 1 .. Len(z) : x[Len(b) + Len(t) + j] = z[j]
    BY <2>1, <2>2, LineFacts
  <2>4. x = b2
    BY <2>2, <1>6
  <2> QED
    BY <2>3, <2>4
<1>8. Len(z) = 1 /\ z[1] = Newline
  BY <1>5, EndOfLineFacts
<1>9. PICK l \in Nat : l = Len(b)
  OBVIOUS
<1>10. /\ Len(b2) = l + n + 1
       /\ \A j \in 1 .. l : b2[j] = b[j]
       /\ \A k \in 1 .. n : b2[l + k] = <<c, m + 1, k>>
       /\ b2[l + n + 1] = Newline
  <2>1. Len(b2) = l + n + 1
    BY <1>4, <1>7, <1>8, <1>9
  <2>2. \A j \in 1 .. l : b2[j] = b[j]
    BY <1>7, <1>9
  <2>3. \A k \in 1 .. n : b2[l + k] = t[k]
    BY <1>4, <1>7, <1>9
  <2>4. b2[l + n + 1] = Newline
    <3>1. b2[Len(b) + Len(t) + 1] = z[1]
      BY <1>7, <1>8
    <3>2. Len(b) = l /\ Len(t) = n
      BY <1>4, <1>9
    <3> QED
      BY <3>1, <3>2, <1>8
  <2> QED
    BY <2>1, <2>2, <2>3, <2>4, <1>4
<1>11. PICK d : d = [i \in 0 .. (m + 1) |-> IF i <= m THEN e[i] ELSE l + n + 1]
  OBVIOUS
<1>12. /\ e \in [0 .. m -> 0 .. l] /\ e[0] = 0 /\ e[m] = l
       /\ \A i \in 1 .. m : /\ e[i] = e[i - 1] + s[i].len + 1
                            /\ b[e[i]] = Newline
                            /\ \A k \in 1 .. s[i].len : b[e[i - 1] + k] = <<c, i, k>>
  BY <1>9 DEF Marks
<1>13. /\ \A i \in 0 .. m : d[i] = e[i] /\ e[i] \in 0 .. l
       /\ d[m + 1] = l + n + 1
  BY <1>11, <1>12
<1>14. d \in [0 .. (m + 1) -> 0 .. Len(b2)] /\ d[0] = 0 /\ d[m + 1] = Len(b2)
  <2>1. ASSUME NEW i \in 0 .. (m + 1)
        PROVE  d[i] \in 0 .. (l + n + 1)
    <3>1. CASE i <= m
      <4>1. d[i] \in 0 .. l
        BY <3>1, <1>13
      <4> QED
        BY <4>1, <1>2, <1>9
    <3>2. CASE i = m + 1
      BY <3>2, <1>2, <1>9, <1>13
    <3> QED
      BY <3>1, <3>2
  <2>2. d[0] = 0 /\ d[m + 1] = Len(b2)
    BY <1>10, <1>12, <1>13
  <2>3. d \in [0 .. (m + 1) -> 0 .. (l + n + 1)]
    BY <2>1, <1>11
  <2> QED
    BY <2>2, <2>3, <1>10
<1>15. ASSUME NEW i \in 1 .. (m + 1)
       PROVE  /\ d[i] = d[i - 1] + s[i].len + 1
              /\ b2[d[i]] = Newline
              /\ \A k \in 1 .. s[i].len : b2[d[i - 1] + k] = <<c, i, k>>
  <2>1. CASE i <= m
    <3>1. i \in 1 .. m /\ i \in 0 .. m /\ i - 1 \in 0 .. m /\ s[i].len \in Nat
      BY <2>1, <1>2
    <3>2. /\ d[i] = e[i] /\ d[i - 1] = e[i - 1] /\ e[i] = e[i - 1] + s[i].len + 1
          /\ b[e[i]] = Newline /\ \A k \in 1 .. s[i].len : b[e[i - 1] + k] = <<c, i, k>>
          /\ e[i] \in 0 .. l /\ e[i - 1] \in 0 .. l
      BY <3>1, <1>12, <1>13
    <3>3. e[i] \in 1 .. l
      BY <3>1, <3>2
    <3>4. ASSUME NEW k \in 1 .. s[i].len
          PROVE  e[i - 1] + k \in 1 .. l
      <4>1. /\ k \in Nat /\ 1 <= k /\ k <= s[i].len
            /\ e[i - 1] \in Nat /\ e[i - 1] + s[i].len + 1 <= l
        BY <3>1, <3>2
      <4> QED
        BY <4>1, <3>1, Within
    <3> QED
      BY <3>2, <3>3, <3>4, <1>10
  <2>2. CASE i = m + 1
    <3>1. d[i] = l + n + 1 /\ d[i - 1] = l /\ s[i].len = n
      <4>1. i - 1 = m /\ m \in 0 .. m
        BY <2>2
      <4> QED
        BY <2>2, <4>1, <1>1, <1>12, <1>13
    <3> QED
      BY <2>2, <3>1, <1>10
  <2>3. i <= m \/ i = m + 1
    OBVIOUS
  <2> QED
    BY <2>1, <2>2, <2>3
<1>16. Marks(c, s, m + 1, b2, d)
  BY <1>14, <1>15 DEF Marks
<1> QED
  BY <1>7, <1>16

LEMMA MarksExist ==
  ASSUME NEW c \in Clients, NEW s \in Script
  PROVE  Bytes(c, s) \in Seq(Byte) /\ \E e : Marks(c, s, Len(s), Bytes(c, s), e)
<1>1. PICK u : Upto(c, s, Len(s), u) /\ Bytes(c, s) = u[Len(s)]
  BY BytesIsUpto
<1>2. Len(s) \in Nat
  BY DEF Script
<1>3. PICK S : S = {m \in Nat : m <= Len(s) =>
                      u[m] \in Seq(Byte) /\ \E e : Marks(c, s, m, u[m], e)}
  OBVIOUS
<1>4. 0 \in S
  <2>1. u[0] = <<>> /\ <<>> \in Seq(Byte) /\ Len(<<>>) = 0
    BY <1>1, <1>2 DEF Upto
  <2>2. PICK e : e = [i \in 0 .. 0 |-> 0]
    OBVIOUS
  <2>3. /\ e \in [0 .. 0 -> 0 .. Len(u[0])] /\ e[0] = 0 /\ e[0] = Len(u[0])
        /\ \A i \in 1 .. 0 : FALSE
    BY <2>1, <2>2
  <2>4. Marks(c, s, 0, u[0], e)
    BY <2>3 DEF Marks
  <2>5. u[0] \in Seq(Byte) /\ \E d : Marks(c, s, 0, u[0], d)
    BY <2>1, <2>4
  <2> QED
    BY <1>3, <2>5
<1>5. ASSUME NEW m \in Nat, m \in S
      PROVE  m + 1 \in S
  <2>1. SUFFICES ASSUME m + 1 <= Len(s)
                 PROVE  u[m + 1] \in Seq(Byte) /\ \E e : Marks(c, s, m + 1, u[m + 1], e)
    BY <1>3
  <2>2. u[m] \in Seq(Byte) /\ \E e : Marks(c, s, m, u[m], e)
    BY <1>2, <1>3, <1>5, <2>1
  <2>3. u[m + 1] = u[m] \o Text(c, m + 1, s[m + 1].len) \o EndOfLine
    <3>1. m + 1 \in 0 .. Len(s) /\ m + 1 # 0 /\ (m + 1) - 1 = m
      BY <1>2, <2>1
    <3> QED
      BY <1>1, <3>1 DEF Upto
  <2> QED
    BY <2>1, <2>2, <2>3, MarksStep
<1>6. Len(s) \in S
  BY <1>2, <1>4, <1>5, SetInduction
<1> QED
  BY <1>1, <1>3, <1>6

\* What is known of the stream of a client, and of where its lines end.
LEMMA StreamFacts ==
  ASSUME script \in [Clients -> Script], NEW c \in Clients
  PROVE  Stream(c) \in Seq(Byte) /\ Marks(c, script[c], Len(script[c]), Stream(c), Ends(c))
BY MarksExist DEF Stream, Ends

-----------------------------------------------------------------------------
(* What an action leaves alone.                                            *)

LEMMA StreamKept ==
  ASSUME script' = script, NEW c
  PROVE  Stream(c)' = Stream(c) /\ Ends(c)' = Ends(c)
BY DEF Stream, Ends

LEMMA WireOfKept ==
  ASSUME NEW c \in Clients, WireOf(c), script' = script,
         wire'[c] = wire[c], unsent'[c] = unsent[c], handled'[c] = handled[c],
         peer'[c] = "new" \/ c \in pending' => peer[c] = "new" \/ c \in pending
  PROVE  WireOf(c)' /\ ReadTo(c)' = ReadTo(c)
<1>1. Stream(c)' = Stream(c)
  BY StreamKept
<1>2. ReadTo(c)' = ReadTo(c)
  BY <1>1 DEF ReadTo
<1> QED
  BY <1>1, <1>2 DEF WireOf

LEMMA WireKept ==
  ASSUME WireInv, UNCHANGED <<script, unsent, wire, handled>>,
         \A c \in Clients : peer'[c] = "new" \/ c \in pending' => peer[c] = "new" \/ c \in pending
  PROVE  WireInv'
<1>1. ASSUME NEW c \in Clients
      PROVE  WireOf(c)'
  BY WireOfKept DEF WireInv
<1> QED
  BY <1>1 DEF WireInv

LEMMA BufferOfKept ==
  ASSUME NEW f, BufferOf(f), script' = script, conn'[f] = conn[f], buffers'[f] = buffers[f],
         wire'[conn[f]] = wire[conn[f]], unsent'[conn[f]] = unsent[conn[f]],
         handled'[conn[f]] = handled[conn[f]],
         HasLine(buffers[f]) => pc' \in {"lines", "answer"} /\ f = cur'.fd
  PROVE  BufferOf(f)'
<1>1. PICK c : c = conn[f]
  OBVIOUS
<1>2. Stream(c)' = Stream(c) /\ Ends(c)' = Ends(c)
  BY StreamKept
<1>3. ReadTo(c)' = ReadTo(c)
  BY <1>1, <1>2 DEF ReadTo
<1>4. Before(f)' = Before(f) /\ Handled(f)' = Handled(f) /\ Stream(conn[f])' = Stream(conn[f])
  <2>1. conn'[f] = c
    BY <1>1
  <2>2. Before(f) = ReadTo(c) - Len(buffers[f]) /\ Handled(f) = Ends(c)[Len(handled[c])]
    BY <1>1 DEF Before, Handled
  <2>3. Before(f)' = ReadTo(c)' - Len(buffers[f]) /\ Handled(f)' = Ends(c)'[Len(handled[c])]
    BY <2>1, <1>1, <1>2, <1>3 DEF Before, Handled, ReadTo, Stream, Ends
  <2>4. Stream(conn[f])' = Bytes(c, script[c])
    BY <2>1 DEF Stream
  <2> QED
    BY <2>2, <2>3, <2>4, <1>1, <1>2, <1>3 DEF Stream
<1>5. HasLine(buffers[f])' <=> HasLine(buffers[f])
  BY DEF HasLine
<1> QED
  BY <1>4, <1>5 DEF BufferOf

LEMMA BufferKept ==
  ASSUME BufferInv, UNCHANGED <<script, unsent, wire, handled>>, DOMAIN conn' \subseteq DOMAIN conn,
         \A f \in DOMAIN conn' :
           /\ conn'[f] = conn[f] /\ buffers'[f] = buffers[f]
           /\ HasLine(buffers[f]) => pc' \in {"lines", "answer"} /\ f = cur'.fd
  PROVE  BufferInv'
<1>1. ASSUME NEW f \in DOMAIN conn'
      PROVE  BufferOf(f)'
  <2>1. f \in DOMAIN conn /\ BufferOf(f)
    BY DEF BufferInv
  <2> QED
    BY <2>1, BufferOfKept
<1> QED
  BY <1>1 DEF BufferInv

LEMMA LinesKept ==
  ASSUME LinesArriveWhole, UNCHANGED <<script, handled>>
  PROVE  LinesArriveWhole'
BY DEF LinesArriveWhole

LEMMA AnswersKept ==
  ASSUME AnswersInOrder, UNCHANGED <<script, handled, answers>>
  PROVE  AnswersInOrder'
BY DEF AnswersInOrder

\* Before an answer there is nothing to say of the line at work.
LEMMA AnswerKept ==
  ASSUME AnswerInv, UNCHANGED answers, pc' # "answer"
  PROVE  AnswerInv'
BY DEF AnswerInv

-----------------------------------------------------------------------------
(* The initial states.                                                     *)

LEMMA ServerInit == Init => ServerInv
<1> SUFFICES ASSUME Init
             PROVE  ServerInv
  OBVIOUS
<1> USE ServerAssumption
<1>1. /\ conn = <<>> /\ buffers = <<>> /\ DOMAIN conn = {} /\ DOMAIN buffers = {}
      /\ polled = {} /\ pending = {} /\ pc = "poll"
  BY DEF Init
<1>2. script \in [Clients -> Script]
  BY DEF Init, Script
<1>3. TypeOK
  <2>1. peer \in [Clients -> {"new", "open", "gone"}]
    BY DEF Init
  <2>2. stop = FALSE /\ hangUps = 0 /\ lost = 0
    BY DEF Init
  <2>3. hangUps \in 0 .. MaxHangUps /\ lost \in 0 .. MaxLost
    BY <2>2
  <2>4. stop \in BOOLEAN
    BY <2>2
  <2> QED
    BY <1>1, <2>1, <2>3, <2>4 DEF TypeOK
<1>4. ConnInv
  BY <1>1, FS_EmptySet DEF ConnInv, Looking
<1>5. WireInv
  <2>1. \A c \in Clients : Stream(c) \in Seq(Byte) /\ unsent[c] = Stream(c)
    BY <1>2, StreamFacts DEF Init, Stream
  <2>2. \A c \in Clients : wire[c] = <<>> /\ Len(wire[c]) = 0 /\ handled[c] = <<>>
    BY DEF Init
  <2>3. ASSUME NEW c \in Clients
        PROVE  ReadTo(c) = 0
    <3>1. PICK l \in Nat : l = Len(Stream(c))
      BY <2>1
    <3>2. ReadTo(c) = l - 0 - l
      BY <2>1, <2>2, <3>1 DEF ReadTo
    <3> QED
      BY <3>2
  <2>4. unsent \in [Clients -> Seq(Byte)]
    BY <2>1 DEF Init
  <2>5. wire \in [Clients -> Seq(Byte)] /\ handled \in [Clients -> Seq(Seq(Byte))]
    BY DEF Init
  <2>6. ASSUME NEW c \in Clients
        PROVE  /\ \A j \in 1 .. Len(wire[c]) : wire[c][j] = Stream(c)[ReadTo(c) + j]
               /\ \A j \in 1 .. Len(unsent[c]) :
                    unsent[c][j] = Stream(c)[ReadTo(c) + Len(wire[c]) + j]
    BY <2>1, <2>2, <2>3
  <2> QED
    BY <1>2, <2>2, <2>3, <2>4, <2>5, <2>6 DEF WireInv, WireOf
<1>6. BufferInv
  BY <1>1 DEF BufferInv
<1>7. LinesArriveWhole
  BY DEF Init, LinesArriveWhole
<1>8. AnswerInv
  BY DEF Init, AnswerInv
<1>9. AnswersInOrder
  BY DEF Init, AnswersInOrder
<1> QED
  BY <1>3, <1>4, <1>5, <1>6, <1>7, <1>8, <1>9 DEF ServerInv

-----------------------------------------------------------------------------
(* The clients.                                                            *)

LEMMA ConnectStep ==
  ASSUME ServerInv, NEW c \in Clients, Connect(c)
  PROVE  ServerInv'
<1> USE DEF ServerInv
<1>1. /\ peer' = [peer EXCEPT ![c] = "open"] /\ pending' = pending \cup {c} /\ peer[c] = "new"
      /\ UNCHANGED <<script, unsent, wire, handled, conn, buffers, polled, cur, line>>
      /\ UNCHANGED <<pc, stop, answers, hangUps, lost>>
  BY DEF Connect, server
<1>2. TypeOK'
  BY <1>1 DEF TypeOK
<1>3. ConnInv'
  BY <1>1 DEF ConnInv, TypeOK
<1>4. WireInv'
  <2>1. \A d \in Clients : peer'[d] = "new" \/ d \in pending' => peer[d] = "new" \/ d \in pending
    BY <1>1 DEF TypeOK
  <2> QED
    BY <1>1, <2>1, WireKept
<1>5. BufferInv'
  <2>1. \A f \in DOMAIN conn : HasLine(buffers[f]) => pc' \in {"lines", "answer"} /\ f = cur'.fd
    BY <1>1 DEF BufferInv, BufferOf
  <2> QED
    BY <1>1, <2>1, BufferKept
<1>6. LinesArriveWhole' /\ AnswersInOrder'
  BY <1>1, LinesKept, AnswersKept
<1>7. AnswerInv'
  BY <1>1 DEF AnswerInv, Owner
<1> QED
  BY <1>2, <1>3, <1>4, <1>5, <1>6, <1>7

LEMMA WriteStep ==
  ASSUME ServerInv, NEW c \in Clients, Write(c)
  PROVE  ServerInv'
<1> USE DEF ServerInv
<1>1. PICK n \in Pieces : /\ wire' = [wire EXCEPT ![c] = @ \o Prefix(unsent[c], n)]
                          /\ unsent' = [unsent EXCEPT ![c] = Drop(@, n)]
  BY DEF Write
<1>2. /\ peer[c] = "open"
      /\ UNCHANGED <<script, handled, conn, buffers, polled, cur, line>>
      /\ UNCHANGED <<peer, pending, pc, stop, answers, hangUps, lost>>
  BY DEF Write, server
<1>3. n \in Nat
  BY ServerAssumption
<1>4. TypeOK'
  BY <1>2 DEF TypeOK
<1>5. ConnInv'
  BY <1>2 DEF ConnInv
<1>6. PICK u \in Seq(Byte) : u = unsent[c]
  BY DEF WireInv
<1>7. PICK w \in Seq(Byte) : w = wire[c]
  BY DEF WireInv
<1>8. PICK p \in Seq(Byte) : p = Prefix(u, n)
  BY <1>3, PrefixFacts
<1>9. PICK d \in Seq(Byte) : d = Drop(u, n)
  BY <1>3, DropFacts
<1>10. PICK q \in Seq(Byte) : q = w \o p
  BY ConcatFacts
<1>11. PICK m \in 0 .. Len(u) : m = IF n < Len(u) THEN n ELSE Len(u)
  BY <1>3
<1>12. /\ Len(p) = m /\ Len(d) = Len(u) - m
       /\ \A j \in 1 .. m : p[j] = u[j]
       /\ \A j \in 1 .. Len(d) : d[j] = u[m + j]
  <2>1. Len(p) = m /\ \A j \in 1 .. Len(p) : p[j] = u[j]
    BY <1>3, <1>8, <1>11, PrefixFacts
  <2>2. /\ Len(d) = IF n < Len(u) THEN Len(u) - n ELSE 0
        /\ \A j \in 1 .. Len(d) : d[j] = u[n + j]
    BY <1>3, <1>9, DropFacts
  <2>3. Len(d) = Len(u) - m
    BY <2>2, <1>3, <1>11
  <2>4. ASSUME NEW j \in 1 .. Len(d)
        PROVE  d[j] = u[m + j]
    <3>1. n < Len(u) /\ m = n
      BY <1>3, <1>11, <2>2
    <3> QED
      BY <2>2, <3>1
  <2> QED
    BY <2>1, <2>3, <2>4
<1>13. /\ Len(q) = Len(w) + Len(p)
       /\ \A j \in 1 .. Len(w) : q[j] = w[j]
       /\ \A j \in 1 .. Len(p) : q[Len(w) + j] = p[j]
  BY <1>10, ConcatFacts
<1>14. wire' = [wire EXCEPT ![c] = q] /\ unsent' = [unsent EXCEPT ![c] = d]
  BY <1>1, <1>6, <1>7, <1>8, <1>9, <1>10
<1>15. /\ wire' \in [Clients -> Seq(Byte)] /\ unsent' \in [Clients -> Seq(Byte)]
       /\ wire'[c] = q /\ unsent'[c] = d
       /\ \A e \in Clients : e # c => wire'[e] = wire[e] /\ unsent'[e] = unsent[e]
  BY <1>14 DEF WireInv
<1>16. \A e \in Clients : Stream(e)' = Stream(e) /\ Ends(e)' = Ends(e)
  BY <1>2, StreamKept
<1>17. \A e \in Clients : Len(Stream(e)) \in Nat
  BY StreamFacts DEF WireInv
<1>18. \A e \in Clients : ReadTo(e)' = ReadTo(e)
  <2>1. ReadTo(c) = Len(Stream(c)) - Len(w) - Len(u)
    BY <1>6, <1>7 DEF ReadTo
  <2>2. ReadTo(c)' = Len(Stream(c)) - Len(q) - Len(d)
    BY <1>15, <1>16 DEF ReadTo
  <2>3. Len(q) = Len(w) + m /\ Len(d) = Len(u) - m
    BY <1>12, <1>13
  <2>4. Len(w) \in Nat /\ Len(u) \in Nat /\ Len(Stream(c)) \in Nat
    BY <1>17
  <2>5. ReadTo(c)' = ReadTo(c)
    BY <2>1, <2>2, <2>3, <2>4, <1>11
  <2> QED
    BY <2>5, <1>15, <1>16 DEF ReadTo
<1>19. WireInv'
  <2>1. ASSUME NEW e \in Clients
        PROVE  /\ ReadTo(e)' >= 0
               /\ \A j \in 1 .. Len(wire'[e]) : wire'[e][j] = Stream(e)[ReadTo(e) + j]
               /\ \A j \in 1 .. Len(unsent'[e]) :
                    unsent'[e][j] = Stream(e)[ReadTo(e) + Len(wire'[e]) + j]
               /\ peer'[e] = "new" \/ e \in pending' => ReadTo(e) = 0 /\ handled'[e] = <<>>
    <3>1. /\ ReadTo(e) >= 0
          /\ \A j \in 1 .. Len(wire[e]) : wire[e][j] = Stream(e)[ReadTo(e) + j]
          /\ \A j \in 1 .. Len(unsent[e]) : unsent[e][j] = Stream(e)[ReadTo(e) + Len(wire[e]) + j]
          /\ peer'[e] = "new" \/ e \in pending' => ReadTo(e) = 0 /\ handled'[e] = <<>>
      BY <1>2 DEF WireInv, WireOf
    <3>2. CASE e # c
      BY <3>1, <3>2, <1>15, <1>18
    <3>3. CASE e = c
      <4>1. PICK r \in Nat : r = ReadTo(c)
        <5>1. ReadTo(c) \in Int
          <6>1. Len(Stream(c)) \in Nat /\ Len(wire[c]) \in Nat /\ Len(unsent[c]) \in Nat
            BY <1>6, <1>7, <1>17
          <6> QED
            BY <6>1 DEF ReadTo
        <5> QED
          BY <5>1, <3>1, <3>3
      <4>2. /\ \A j \in 1 .. Len(w) : w[j] = Stream(c)[r + j]
            /\ \A j \in 1 .. Len(u) : u[j] = Stream(c)[r + Len(w) + j]
        BY <3>1, <3>3, <4>1, <1>6, <1>7
      <4>3. Len(q) = Len(w) + m /\ Len(w) \in Nat /\ Len(u) \in Nat
        BY <1>12, <1>13
      <4>4. ASSUME NEW j \in 1 .. Len(q)
            PROVE  q[j] = Stream(c)[r + j]
        <5>1. CASE j <= Len(w)
          BY <5>1, <4>2, <1>13
        <5>2. CASE j > Len(w)
          <6>1. PICK i \in 1 .. m : j = Len(w) + i
            <7>1. j - Len(w) \in 1 .. m /\ j = Len(w) + (j - Len(w))
              BY <5>2, <4>3, <1>11
            <7> QED
              BY <7>1
          <6>2. q[Len(w) + i] = p[i] /\ p[i] = u[i]
            BY <6>1, <1>12, <1>13
          <6>3. i \in 1 .. Len(u) /\ i \in Nat
            BY <6>1, <1>11
          <6>4. u[i] = Stream(c)[r + Len(w) + i]
            BY <6>3, <4>2
          <6>5. r + Len(w) + i = r + j
            BY <6>1, <6>3, <4>3
          <6> QED
            BY <6>1, <6>2, <6>4, <6>5
        <5> QED
          BY <5>1, <5>2, <4>3
      <4>5. ASSUME NEW j \in 1 .. Len(d)
            PROVE  d[j] = Stream(c)[r + Len(q) + j]
        <5>1. d[j] = u[m + j] /\ m + j \in 1 .. Len(u)
          BY <1>11, <1>12, <4>3
        <5>2. u[m + j] = Stream(c)[r + Len(w) + (m + j)]
          BY <5>1, <4>2
        <5>3. r + Len(w) + (m + j) = r + Len(q) + j
          <6>1. PICK x \in Nat : x = Len(w)
            BY <4>3
          <6>2. Len(q) = x + m /\ m \in Nat /\ j \in Nat
            BY <4>3, <6>1
          <6>3. r + x + (m + j) = r + (x + m) + j
            BY <6>2
          <6> QED
            BY <6>1, <6>2, <6>3
        <5> QED
          BY <5>1, <5>2, <5>3
      <4> QED
        BY <3>1, <3>3, <4>1, <4>4, <4>5, <1>15, <1>18
    <3> QED
      BY <3>2, <3>3
  <2>2. script' \in [Clients -> Script] /\ handled' \in [Clients -> Seq(Seq(Byte))]
    BY <1>2 DEF WireInv
  <2>3. ASSUME NEW e \in Clients
        PROVE  /\ ReadTo(e)' >= 0
               /\ \A j \in 1 .. Len(wire'[e]) : wire'[e][j] = Stream(e)'[ReadTo(e)' + j]
               /\ \A j \in 1 .. Len(unsent'[e]) :
                    unsent'[e][j] = Stream(e)'[ReadTo(e)' + Len(wire'[e]) + j]
               /\ peer'[e] = "new" \/ e \in pending' => ReadTo(e)' = 0 /\ handled'[e] = <<>>
    <3>1. Stream(e)' = Stream(e) /\ ReadTo(e)' = ReadTo(e)
      BY <1>16, <1>18
    <3> QED
      BY <2>1, <3>1
  <2>4. wire' \in [Clients -> Seq(Byte)] /\ unsent' \in [Clients -> Seq(Byte)]
    BY <1>15
  <2> QED
    BY <2>2, <2>3, <2>4 DEF WireInv, WireOf
<1>20. BufferInv'
  <2>1. \A f \in DOMAIN conn : /\ conn[f] \in Clients
                               /\ Before(f)' = Before(f) /\ Handled(f)' = Handled(f)
                               /\ Stream(conn[f])' = Stream(conn[f])
    BY <1>2, <1>16, <1>18 DEF Before, Handled, ConnInv
  <2> QED
    BY <2>1, <1>2 DEF BufferInv, BufferOf, HasLine
<1>21. LinesArriveWhole' /\ AnswersInOrder'
  BY <1>2, LinesKept, AnswersKept
<1>22. AnswerInv'
  BY <1>2 DEF AnswerInv, Owner
<1> QED
  BY <1>4, <1>5, <1>19, <1>20, <1>21, <1>22

LEMMA HangUpStep ==
  ASSUME ServerInv, NEW c \in Clients, HangUp(c)
  PROVE  ServerInv'
<1> USE DEF ServerInv
<1>1. /\ peer' = [peer EXCEPT ![c] = "gone"] /\ peer[c] = "open"
      /\ UNCHANGED <<script, unsent, wire, handled, conn, buffers, polled, cur, line>>
      /\ UNCHANGED <<pending, pc, stop, answers, lost>>
      /\ hangUps' = hangUps \/ (hangUps < MaxHangUps /\ hangUps' = hangUps + 1)
  BY DEF HangUp, server
<1>2. TypeOK'
  <2>1. hangUps' \in 0 .. MaxHangUps
    BY <1>1, ServerAssumption DEF TypeOK
  <2> QED
    BY <1>1, <2>1 DEF TypeOK
<1>3. ConnInv'
  BY <1>1 DEF ConnInv, TypeOK
<1>4. WireInv'
  <2>1. \A d \in Clients : peer'[d] = "new" \/ d \in pending' => peer[d] = "new" \/ d \in pending
    BY <1>1 DEF TypeOK
  <2> QED
    BY <1>1, <2>1, WireKept
<1>5. BufferInv'
  <2>1. \A f \in DOMAIN conn : HasLine(buffers[f]) => pc' \in {"lines", "answer"} /\ f = cur'.fd
    BY <1>1 DEF BufferInv, BufferOf
  <2> QED
    BY <1>1, <2>1, BufferKept
<1>6. LinesArriveWhole' /\ AnswersInOrder'
  BY <1>1, LinesKept, AnswersKept
<1>7. AnswerInv'
  BY <1>1 DEF AnswerInv, Owner
<1> QED
  BY <1>2, <1>3, <1>4, <1>5, <1>6, <1>7

LEMMA SignalStep ==
  ASSUME ServerInv, Signal
  PROVE  ServerInv'
<1> USE DEF ServerInv
<1>1. /\ stop' = TRUE
      /\ UNCHANGED <<script, unsent, wire, handled, conn, buffers, polled, cur, line>>
      /\ UNCHANGED <<peer, pending, pc, answers, hangUps, lost>>
  BY DEF Signal, client, server
<1>2. TypeOK' /\ ConnInv'
  BY <1>1 DEF TypeOK, ConnInv
<1>3. WireInv'
  BY <1>1, WireKept
<1>4. BufferInv'
  BY <1>1, BufferKept DEF BufferInv, BufferOf
<1>5. LinesArriveWhole' /\ AnswersInOrder'
  BY <1>1, LinesKept, AnswersKept
<1>6. AnswerInv'
  BY <1>1 DEF AnswerInv, Owner
<1> QED
  BY <1>2, <1>3, <1>4, <1>5, <1>6

-----------------------------------------------------------------------------
(* The loop of main().                                                     *)

LEMMA ExitStep ==
  ASSUME ServerInv, Exit
  PROVE  ServerInv'
<1> USE DEF ServerInv
<1>1. /\ pc' = "exited" /\ pending' = {} /\ conn' = <<>> /\ buffers' = <<>>
      /\ UNCHANGED <<script, unsent, wire, handled, polled, cur, line>>
      /\ UNCHANGED <<peer, stop, answers, hangUps, lost>> /\ pc = "poll"
  BY DEF Exit, client
<1>2. DOMAIN conn' = {} /\ DOMAIN buffers' = {}
  BY <1>1
<1>3. polled = {}
  BY <1>1 DEF ConnInv
<1>4. TypeOK'
  BY <1>1, <1>2, <1>3 DEF TypeOK
<1>5. ConnInv'
  BY <1>1, <1>2, <1>3, FS_EmptySet DEF ConnInv, Looking
<1>6. WireInv'
  BY <1>1, WireKept
<1>7. BufferInv'
  BY <1>2 DEF BufferInv
<1>8. LinesArriveWhole' /\ AnswersInOrder'
  BY <1>1, LinesKept, AnswersKept
<1>9. AnswerInv'
  BY <1>1, AnswerKept
<1> QED
  BY <1>4, <1>5, <1>6, <1>7, <1>8, <1>9

LEMMA PollStep ==
  ASSUME ServerInv, Poll
  PROVE  ServerInv'
<1> USE DEF ServerInv
<1>1. /\ pc' = "clients" \/ pc' = "accept"
      /\ UNCHANGED <<script, unsent, wire, handled, conn, buffers, cur, line>>
      /\ UNCHANGED <<peer, pending, stop, answers, hangUps, lost>> /\ pc = "poll"
      /\ \A p \in polled' : p.fd \in DOMAIN conn /\ p = [fd |-> p.fd, hup |-> peer[conn[p.fd]] = "gone"]
  <2>1. polled' = { [fd |-> fd, hup |-> peer[conn[fd]] = "gone"] :
                     fd \in {g \in DOMAIN conn : Ready(g)} }
    BY DEF Poll
  <2> QED
    BY <2>1 DEF Poll, client
<1>2. TypeOK'
  BY <1>1 DEF TypeOK
<1>3. ConnInv'
  <2>1. \A p, q \in polled' : p.fd = q.fd => p = q
    BY <1>1
  <2> QED
    BY <1>1, <2>1 DEF ConnInv, Looking
<1>4. WireInv'
  BY <1>1, WireKept
<1>5. BufferInv'
  <2>1. \A f \in DOMAIN conn : ~HasLine(buffers[f])
    BY <1>1 DEF BufferInv, BufferOf
  <2> QED
    BY <1>1, <2>1, BufferKept
<1>6. LinesArriveWhole' /\ AnswersInOrder'
  BY <1>1, LinesKept, AnswersKept
<1>7. AnswerInv'
  BY <1>1, AnswerKept
<1> QED
  BY <1>2, <1>3, <1>4, <1>5, <1>6, <1>7

\* While a client waits to be accepted there is a free descriptor, among the
\* first as many as there are clients.
LEMMA FreeFdFacts ==
  ASSUME ConnInv, NEW c \in Clients, c \in pending
  PROVE  FreeFd \in 1 .. Cardinality(Clients) /\ FreeFd \notin DOMAIN conn
<1> USE ServerAssumption
<1>1. PICK D : D = DOMAIN conn
  OBVIOUS
<1>2. IsFiniteSet(D) /\ IsFiniteSet(Clients)
  BY <1>1 DEF ConnInv
<1>3. PICK n : n = Cardinality(D)
  OBVIOUS
<1>4. PICK m : m = Cardinality(Clients)
  OBVIOUS
<1>5. n \in Nat /\ m \in Nat
  BY <1>2, <1>3, <1>4, FS_CardinalityType
<1>6. n + 1 <= m
  <2>1. PICK R : R = Clients \ {c}
    OBVIOUS
  <2>2. IsFiniteSet(R) /\ Cardinality(R) = m - 1
    BY <2>1, <1>2, <1>4, FS_RemoveElement
  <2>3. conn \in [D -> R]
    BY <2>1, <1>1 DEF ConnInv
  <2>4. ~(Cardinality(R) < Cardinality(D))
    <3>1. SUFFICES ASSUME Cardinality(R) < Cardinality(D)
                   PROVE  FALSE
      OBVIOUS
    <3>2. \E x, y \in D : x # y /\ conn[x] = conn[y]
      BY <3>1, <2>2, <2>3, <1>2, FS_PigeonHole
    <3> QED
      BY <3>2, <1>1 DEF ConnInv
  <2> QED
    BY <2>2, <2>4, <1>3, <1>5
<1>7. PICK T : T = {x \in 1 .. (n + 1) : x \notin D}
  OBVIOUS
<1>8. T # {}
  <2>1. SUFFICES ASSUME 1 .. (n + 1) \subseteq D
                 PROVE  FALSE
    BY <1>7
  <2>2. Cardinality(1 .. (n + 1)) <= n
    BY <2>1, <1>2, <1>3, FS_Subset
  <2>3. Cardinality(1 .. (n + 1)) = n + 1
    <3>1. 1 \in Int /\ n + 1 \in Int /\ ~(1 > n + 1) /\ (n + 1) - 1 + 1 = n + 1
      BY <1>5
    <3> QED
      BY <3>1, FS_Interval
  <2> QED
    BY <2>2, <2>3, <1>5
<1>9. T \subseteq Nat
  BY <1>7
<1>10. PICK x \in T : \A y \in T : x <= y
  BY <1>8, <1>9, LeastNatural
<1>11. x \in 1 .. (n + 1) /\ x \notin D
  BY <1>7
<1>12. ASSUME NEW y \in 1 .. (x - 1)
       PROVE  y \in D
  <2>1. y \in 1 .. (n + 1) /\ ~(x <= y)
    BY <1>5, <1>11
  <2> QED
    BY <2>1, <1>7, <1>10
<1>13. \E z \in 1 .. (Cardinality(DOMAIN conn) + 1) :
         z \notin DOMAIN conn /\ \A y \in 1 .. (z - 1) : y \in DOMAIN conn
  BY <1>1, <1>3, <1>11, <1>12
<1>14. FreeFd \in 1 .. (n + 1) /\ FreeFd \notin DOMAIN conn
  BY <1>1, <1>3, <1>13 DEF FreeFd
<1> QED
  BY <1>4, <1>5, <1>6, <1>14

LEMMA AcceptStep ==
  ASSUME ServerInv, Accept
  PROVE  ServerInv'
<1> USE DEF ServerInv
<1>1. /\ UNCHANGED <<script, unsent, wire, handled, polled, cur, line>>
      /\ UNCHANGED <<peer, stop, answers, hangUps, lost>> /\ pc = "accept"
  BY DEF Accept, client
<1>2. LinesArriveWhole' /\ AnswersInOrder'
  BY <1>1, LinesKept, AnswersKept
<1>3. \A f \in DOMAIN conn : ~HasLine(buffers[f])
  BY <1>1 DEF BufferInv, BufferOf
<1>4. CASE pending = {}
  <2>1. pc' = "clients" /\ UNCHANGED <<pending, conn, buffers>>
    BY <1>4 DEF Accept
  <2>2. TypeOK' /\ ConnInv'
    BY <1>1, <2>1 DEF TypeOK, ConnInv, Looking
  <2>3. WireInv'
    BY <1>1, <2>1, WireKept
  <2>4. BufferInv'
    BY <1>1, <1>3, <2>1, BufferKept
  <2>5. AnswerInv'
    BY <1>1, <2>1, AnswerKept
  <2> QED
    BY <1>2, <2>2, <2>3, <2>4, <2>5
<1>5. CASE pending # {}
  <2>1. PICK c \in pending :
          /\ pending' = pending \ {c}
          /\ conn' = [fd \in DOMAIN conn \cup {FreeFd} |-> IF fd = FreeFd THEN c ELSE conn[fd]]
          /\ buffers' = [fd \in DOMAIN buffers \cup {FreeFd} |->
                           IF fd \in DOMAIN buffers THEN buffers[fd] ELSE <<>>]
          /\ UNCHANGED pc
    BY <1>5 DEF Accept
  <2>2. c \in Clients /\ DOMAIN buffers = DOMAIN conn
    BY DEF TypeOK
  <2>3. PICK g \in 1 .. Cardinality(Clients) : g = FreeFd /\ g \notin DOMAIN conn
    BY <2>2, FreeFdFacts
  <2>4. /\ DOMAIN conn' = DOMAIN conn \cup {g} /\ DOMAIN buffers' = DOMAIN conn \cup {g}
        /\ conn'[g] = c /\ buffers'[g] = <<>>
        /\ \A f \in DOMAIN conn : f # g /\ conn'[f] = conn[f] /\ buffers'[f] = buffers[f]
    BY <2>1, <2>2, <2>3
  <2>5. <<>> \in Seq(Byte) /\ Len(<<>>) = 0
    OBVIOUS
  <2>6. TypeOK'
    <3>1. \A f \in DOMAIN conn' : conn'[f] \in Clients /\ Len(buffers'[f]) <= 2 * MaxLine
      <4>1. 0 <= 2 * MaxLine
        BY ServerAssumption
      <4>2. \A f \in DOMAIN conn : conn[f] \in Clients /\ Len(buffers[f]) <= 2 * MaxLine
        BY DEF TypeOK
      <4> QED
        BY <4>1, <4>2, <2>2, <2>4, <2>5
    <3>2. DOMAIN conn' = DOMAIN buffers' /\ DOMAIN conn' \subseteq 1 .. Cardinality(Clients)
      BY <2>3, <2>4 DEF TypeOK
    <3>3. pending' \subseteq Clients
      BY <2>1 DEF TypeOK
    <3>4. \A p \in polled' : p.fd \in DOMAIN conn'
      BY <1>1, <2>4 DEF TypeOK
    <3>5. pc' = "accept"
      BY <1>1, <2>1
    <3> QED
      BY <3>1, <3>2, <3>3, <3>4, <3>5, <1>1 DEF TypeOK
  <2>7. ConnInv'
    <3>1. IsFiniteSet(DOMAIN conn')
      BY <2>4, FS_AddElement DEF ConnInv
    <3>2. conn' \in [DOMAIN conn' -> Clients] /\ buffers' \in [DOMAIN conn' -> Seq(Byte)]
      <4>1. \A f \in DOMAIN conn' : conn'[f] \in Clients /\ buffers'[f] \in Seq(Byte)
        BY <2>2, <2>4, <2>5 DEF ConnInv
      <4>2. conn' = [f \in DOMAIN conn' |-> conn'[f]] /\ buffers' = [f \in DOMAIN conn' |-> buffers'[f]]
        BY <2>1, <2>2, <2>4
      <4> QED
        BY <4>1, <4>2
    <3>3. \A f \in DOMAIN conn : conn[f] # c
      BY <2>1 DEF ConnInv
    <3>4. \A e, f \in DOMAIN conn' : conn'[e] = conn'[f] => e = f
      BY <2>4, <3>3 DEF ConnInv
    <3>5. \A f \in DOMAIN conn' : conn'[f] \notin pending' /\ peer'[conn'[f]] # "new"
      BY <1>1, <2>1, <2>4 DEF ConnInv
    <3>6. \A d \in pending' : peer'[d] # "new"
      BY <1>1, <2>1 DEF ConnInv
    <3>7. (\A p, q \in polled' : p.fd = q.fd => p = q) /\ pc' \notin Looking /\ pc' # "poll"
      BY <1>1, <2>1 DEF ConnInv, Looking
    <3> QED
      BY <3>1, <3>2, <3>4, <3>5, <3>6, <3>7 DEF ConnInv
  <2>8. WireInv'
    BY <1>1, <2>1, WireKept
  <2>9. BufferInv'
    <3>1. ASSUME NEW f \in DOMAIN conn
          PROVE  BufferOf(f)'
      <4>1. /\ BufferOf(f) /\ conn'[f] = conn[f] /\ buffers'[f] = buffers[f]
        BY <2>4 DEF BufferInv
      <4> QED
        BY <4>1, <1>1, <1>3, BufferOfKept
    <3>2. BufferOf(g)'
      <4>1. /\ script[c] \in Script /\ handled[c] = <<>> /\ ReadTo(c) = 0
        BY <2>1, <2>2 DEF WireInv, WireOf
      <4>2. Ends(c)[0] = 0
        BY <2>2, StreamFacts DEF WireInv, Marks
      <4>3. conn'[g] = c /\ handled'[c] = <<>> /\ script'[c] = script[c] /\ buffers'[g] = <<>>
        BY <4>1, <2>4, <1>1
      <4>4. Handled(g)' = 0
        <5>1. Handled(g)' = Ends(c)'[Len(handled[c])]
          BY <4>3, <1>1 DEF Handled, Ends, Stream
        <5>2. Len(handled[c]) = 0
          BY <4>1
        <5> QED
          BY <5>1, <5>2, <4>2, <1>1, StreamKept
      <4>5. Before(g)' = 0
        <5>1. Before(g)' = ReadTo(c)' - Len(buffers'[g])
          BY <4>3, <1>1 DEF Before, ReadTo, Stream
        <5>2. ReadTo(c)' = 0
          BY <4>1, <1>1, StreamKept DEF ReadTo
        <5>3. Len(buffers'[g]) = 0
          BY <4>3, <2>5
        <5> QED
          BY <5>1, <5>2, <5>3
      <4>6. Len(handled'[conn'[g]]) <= Len(script'[conn'[g]])
        <5>1. Len(script[c]) \in Nat
          BY <4>1 DEF Script
        <5> QED
          BY <5>1, <4>3, <2>5
      <4>7. ~HasLine(buffers[g])'
        BY <4>3, <2>5 DEF HasLine
      <4> QED
        BY <4>3, <4>4, <4>5, <4>6, <4>7, <2>5 DEF BufferOf
    <3> QED
      BY <2>4, <3>1, <3>2 DEF BufferInv
  <2>10. AnswerInv'
    BY <1>1, <2>1, AnswerKept
  <2> QED
    BY <1>2, <2>6, <2>7, <2>8, <2>9, <2>10
<1> QED
  BY <1>4, <1>5

LEMMA LookStep ==
  ASSUME ServerInv, Look
  PROVE  ServerInv'
<1> USE DEF ServerInv
<1>1. /\ UNCHANGED <<script, unsent, wire, handled, conn, buffers, line>>
      /\ UNCHANGED <<peer, pending, stop, answers, hangUps, lost>> /\ pc = "clients"
      /\ \/ pc' = "poll" /\ polled = {} /\ UNCHANGED <<polled, cur>>
         \/ pc' = "read" /\ cur' \in polled /\ polled' = polled \ {cur'}
  BY DEF Look, client
<1>2. TypeOK'
  BY <1>1 DEF TypeOK
<1>3. ConnInv'
  BY <1>1 DEF ConnInv, Looking
<1>4. WireInv'
  BY <1>1, WireKept
<1>5. BufferInv'
  <2>1. \A f \in DOMAIN conn : ~HasLine(buffers[f])
    BY <1>1 DEF BufferInv, BufferOf
  <2> QED
    BY <1>1, <2>1, BufferKept
<1>6. LinesArriveWhole' /\ AnswersInOrder'
  BY <1>1, LinesKept, AnswersKept
<1>7. AnswerInv'
  BY <1>1, AnswerKept
<1> QED
  BY <1>2, <1>3, <1>4, <1>5, <1>6, <1>7

LEMMA ReadNothingStep ==
  ASSUME ServerInv, ReadNothing
  PROVE  ServerInv'
<1> USE DEF ServerInv
<1>1. /\ UNCHANGED <<script, unsent, wire, handled, conn, buffers, polled, cur, line>>
      /\ UNCHANGED <<peer, pending, stop, answers, hangUps, lost>> /\ pc = "read"
      /\ pc' = "close" \/ pc' = "clients"
  BY DEF ReadNothing, client, server
<1>2. TypeOK'
  BY <1>1 DEF TypeOK
<1>3. ConnInv'
  BY <1>1 DEF ConnInv, Looking
<1>4. WireInv'
  BY <1>1, WireKept
<1>5. BufferInv'
  <2>1. \A f \in DOMAIN conn : ~HasLine(buffers[f])
    BY <1>1 DEF BufferInv, BufferOf
  <2> QED
    BY <1>1, <2>1, BufferKept
<1>6. LinesArriveWhole' /\ AnswersInOrder'
  BY <1>1, LinesKept, AnswersKept
<1>7. AnswerInv'
  BY <1>1, AnswerKept
<1> QED
  BY <1>2, <1>3, <1>4, <1>5, <1>6, <1>7

LEMMA CloseStep ==
  ASSUME ServerInv, Close
  PROVE  ServerInv'
<1> USE DEF ServerInv
<1>1. /\ UNCHANGED <<script, unsent, wire, handled, polled, line>>
      /\ UNCHANGED <<peer, pending, stop, answers, hangUps, lost>> /\ pc = "close"
      /\ pc' = "clients"
      /\ conn' = Restrict(conn, DOMAIN conn \ {cur.fd})
      /\ buffers' = Restrict(buffers, DOMAIN buffers \ {cur.fd})
  BY DEF Close, client
<1>2. DOMAIN buffers = DOMAIN conn
  BY DEF TypeOK
<1>3. PICK D : D = DOMAIN conn \ {cur.fd}
  OBVIOUS
<1>4. conn' = [f \in D |-> conn[f]] /\ buffers' = [f \in D |-> buffers[f]]
  BY <1>1, <1>2, <1>3 DEF Restrict
<1>5. /\ DOMAIN conn' = D /\ DOMAIN buffers' = D /\ D \subseteq DOMAIN conn
      /\ \A f \in D : conn'[f] = conn[f] /\ buffers'[f] = buffers[f]
  BY <1>3, <1>4
<1>6. \A p \in polled : p.fd \in D
  BY <1>1, <1>3 DEF TypeOK, ConnInv, Looking
<1>7. TypeOK'
  <2>1. \A f \in D : conn'[f] \in Clients /\ Len(buffers'[f]) <= 2 * MaxLine
    BY <1>5 DEF TypeOK
  <2>2. D \subseteq 1 .. Cardinality(Clients)
    BY <1>5 DEF TypeOK
  <2> QED
    BY <1>1, <1>5, <1>6, <2>1, <2>2 DEF TypeOK
<1>8. ConnInv'
  <2>1. IsFiniteSet(D)
    BY <1>5, FS_Subset DEF ConnInv
  <2>2. conn' \in [D -> Clients] /\ buffers' \in [D -> Seq(Byte)]
    <3>1. \A f \in D : conn[f] \in Clients /\ buffers[f] \in Seq(Byte)
      BY <1>5 DEF ConnInv
    <3> QED
      BY <1>4, <3>1
  <2>3. \A e, f \in D : conn'[e] = conn'[f] => e = f
    BY <1>5 DEF ConnInv
  <2>4. \A f \in D : conn'[f] \notin pending /\ peer[conn'[f]] # "new"
    BY <1>5 DEF ConnInv
  <2>5. /\ \A c \in pending : peer[c] # "new"
        /\ \A p, q \in polled : p.fd = q.fd => p = q
    BY DEF ConnInv
  <2> QED
    BY <1>1, <1>5, <2>1, <2>2, <2>3, <2>4, <2>5 DEF ConnInv, Looking
<1>9. WireInv'
  BY <1>1, WireKept
<1>10. BufferInv'
  <2>1. \A f \in DOMAIN conn : ~HasLine(buffers[f])
    BY <1>1 DEF BufferInv, BufferOf
  <2> QED
    BY <1>1, <1>5, <2>1, BufferKept
<1>11. LinesArriveWhole' /\ AnswersInOrder'
  BY <1>1, LinesKept, AnswersKept
<1>12. AnswerInv'
  BY <1>1, AnswerKept
<1> QED
  BY <1>7, <1>8, <1>9, <1>10, <1>11, <1>12

-----------------------------------------------------------------------------
(* handleClientData.                                                       *)

\* What the trimming leaves is an end of the buffer; it drops something only
\* from a buffer of more than two lines, and then keeps one.
LEMMA TrimFacts ==
  ASSUME NEW b \in Seq(Byte)
  PROVE  \E k \in 0 .. Len(b) :
           /\ Trim(b) \in Seq(Byte) /\ Len(Trim(b)) = Len(b) - k
           /\ \A j \in 1 .. (Len(b) - k) : Trim(b)[j] = b[k + j]
           /\ Len(b) - k <= 2 * MaxLine
           /\ k > 0 => Len(b) > 2 * MaxLine /\ Len(b) - k = MaxLine
<1> USE ServerAssumption
<1>1. CASE Len(b) > 2 * MaxLine
  <2>1. PICK k \in 0 .. Len(b) : k = Len(b) - MaxLine
    BY <1>1
  <2>2. k \in Nat /\ Trim(b) = Drop(b, k)
    BY <1>1, <2>1 DEF Trim
  <2>3. /\ Drop(b, k) \in Seq(Byte)
        /\ Len(Drop(b, k)) = IF k < Len(b) THEN Len(b) - k ELSE 0
        /\ \A j \in 1 .. Len(Drop(b, k)) : Drop(b, k)[j] = b[k + j]
    BY <2>2, DropFacts
  <2>4. PICK t : t = Drop(b, k)
    OBVIOUS
  <2>5. t \in Seq(Byte) /\ Len(t) = Len(b) - k /\ \A j \in 1 .. (Len(b) - k) : t[j] = b[k + j]
    <3>1. Len(t) = Len(b) - k
      BY <2>1, <2>3, <2>4
    <3>2. \A j \in 1 .. Len(t) : t[j] = b[k + j]
      BY <2>3, <2>4
    <3> QED
      BY <2>3, <2>4, <3>1, <3>2
  <2>6. Len(b) - k = MaxLine /\ Len(b) - k <= 2 * MaxLine
    BY <2>1
  <2>7. /\ Trim(b) \in Seq(Byte) /\ Len(Trim(b)) = Len(b) - k
        /\ \A j \in 1 .. (Len(b) - k) : Trim(b)[j] = b[k + j]
    <3>1. Trim(b) = t
      BY <2>2, <2>4
    <3> QED
      BY <3>1, <2>5
  <2> QED
    BY <1>1, <2>6, <2>7
<1>2. CASE ~(Len(b) > 2 * MaxLine)
  <2>1. PICK k \in 0 .. Len(b) : k = 0
    OBVIOUS
  <2>2. Trim(b) = b /\ Len(b) - k = Len(b)
    BY <1>2, <2>1 DEF Trim
  <2>3. \A j \in 1 .. (Len(b) - k) : Trim(b)[j] = b[k + j]
    BY <2>1, <2>2
  <2>4. /\ Trim(b) \in Seq(Byte) /\ Len(Trim(b)) = Len(b) - k
        /\ Len(b) - k <= 2 * MaxLine /\ ~(k > 0)
    BY <1>2, <2>1, <2>2
  <2> QED
    BY <2>1, <2>2, <2>3, <2>4
<1> QED
  BY <1>1, <1>2

\* The bytes that the trimming drops are of one line, and that line is longer
\* than the server takes: a read brings no more than a line may have.
LEMMA DroppedFacts ==
  ASSUME NEW s, NEW l \in Nat, NEW m \in Nat, NEW k \in Nat, NEW z \in Nat, NEW h \in Nat,
         m <= MaxLine, h <= z,
         \A i \in 1 .. l : s[z + i] # Newline,
         \A x \in (h + 1) .. z : s[x] # Newline,
         h < z => \A x \in (h + 1) .. (h + MaxLine + 1) : s[x] # Newline,
         k > 0 => l + m > 2 * MaxLine /\ l + m - k = MaxLine
  PROVE  /\ \A x \in (h + 1) .. (z + k) : s[x] # Newline
         /\ h < z + k => \A x \in (h + 1) .. (h + MaxLine + 1) : s[x] # Newline
<1> USE ServerAssumption
<1>1. k <= l
  OBVIOUS
<1>2. ASSUME NEW x \in (z + 1) .. (z + k)
      PROVE  s[x] # Newline
  <2>1. x - z \in 1 .. l /\ z + (x - z) = x
    BY <1>1
  <2> QED
    BY <2>1
<1>3. \A x \in (h + 1) .. (z + k) : s[x] # Newline
  <2>1. \A x \in (h + 1) .. (z + k) : x \in (h + 1) .. z \/ x \in (z + 1) .. (z + k)
    OBVIOUS
  <2> QED
    BY <1>2, <2>1
<1>4. ASSUME h < z + k, NEW x \in (h + 1) .. (h + MaxLine + 1)
      PROVE  s[x] # Newline
  <2>1. CASE h < z
    BY <2>1
  <2>2. CASE h = z
    <3>1. k > 0 /\ k >= MaxLine + 1
      BY <1>4, <2>2
    <3>2. h + 1 <= x /\ x <= h + MaxLine + 1 /\ x \in Int
      BY <1>4
    <3>3. x <= z + k
      BY <2>2, <3>1, <3>2
    <3> QED
      BY <1>3, <3>2, <3>3
  <2> QED
    BY <2>1, <2>2
<1> QED
  BY <1>3, <1>4

LEMMA ReadStep ==
  ASSUME ServerInv, Read
  PROVE  ServerInv'
<1> USE DEF ServerInv
<1>0. MaxLine \in Nat /\ Chunk \in Nat /\ 0 < Chunk /\ Chunk <= MaxLine
  BY ServerAssumption
<1>1. PICK f : f = cur.fd
  OBVIOUS
<1>2. f \in DOMAIN conn /\ pc = "read" /\ DOMAIN buffers = DOMAIN conn
  BY <1>1 DEF Read, TypeOK
<1>3. PICK c \in Clients : c = conn[f]
  BY <1>2 DEF TypeOK
<1>4. /\ UNCHANGED <<script, unsent, handled, conn, polled, cur, line>>
      /\ UNCHANGED <<peer, pending, stop, answers, hangUps, lost>>
      /\ pc' = "lines"
      /\ wire' = [wire EXCEPT ![c] = Drop(@, Chunk)]
      /\ buffers' = [buffers EXCEPT ![f] = Trim(@ \o Prefix(wire[c], Chunk))]
  BY <1>1, <1>3 DEF Read, Owner
<1>5. PICK w : w = wire[c] /\ w \in Seq(Byte)
  BY DEF WireInv
<1>6. PICK u : u = unsent[c] /\ u \in Seq(Byte)
  BY DEF WireInv
<1>7. PICK b : b = buffers[f] /\ b \in Seq(Byte)
  BY <1>2 DEF ConnInv
<1>8. PICK p : p = Prefix(w, Chunk) /\ p \in Seq(Byte)
  BY <1>0, <1>5, PrefixFacts
<1>9. PICK q : q = Drop(w, Chunk) /\ q \in Seq(Byte)
  BY <1>0, <1>5, DropFacts
<1>10. PICK a : a = b \o p /\ a \in Seq(Byte)
  BY <1>7, <1>8, ConcatFacts
<1>11. PICK t : t = Trim(a) /\ t \in Seq(Byte)
  BY <1>10, TrimFacts
<1>12. PICK m \in 0 .. Len(w) : m = IF Chunk < Len(w) THEN Chunk ELSE Len(w)
  BY <1>0, <1>5
<1>13. Len(p) = m /\ \A j \in 1 .. m : p[j] = w[j]
  <2>1. Len(p) = (IF Chunk < Len(w) THEN Chunk ELSE Len(w)) /\ \A j \in 1 .. Len(p) : p[j] = w[j]
    BY <1>0, <1>5, <1>8, PrefixFacts
  <2> QED
    BY <2>1, <1>0, <1>12
<1>14. Len(q) = Len(w) - m /\ \A j \in 1 .. Len(q) : q[j] = w[m + j]
  <2>1. /\ Len(q) = IF Chunk < Len(w) THEN Len(w) - Chunk ELSE 0
        /\ \A j \in 1 .. Len(q) : q[j] = w[Chunk + j]
    BY <1>0, <1>5, <1>9, DropFacts
  <2>2. Len(q) = Len(w) - m
    BY <2>1, <1>0, <1>5, <1>12
  <2>3. ASSUME NEW j \in 1 .. Len(q)
        PROVE  q[j] = w[m + j]
    <3>1. Chunk < Len(w) /\ m = Chunk
      BY <2>1, <1>0, <1>5, <1>9, <1>12
    <3> QED
      BY <2>1, <3>1
  <2> QED
    BY <2>2, <2>3
<1>15. PICK lb \in Nat : lb = Len(b)
  BY <1>7
<1>16. PICK lw \in Nat : lw = Len(w)
  BY <1>5
<1>17. PICK lu \in Nat : lu = Len(u)
  BY <1>6
<1>18. PICK s : s = Stream(c) /\ s \in Seq(Byte)
  BY StreamFacts DEF WireInv
<1>19. PICK r \in Nat : r = ReadTo(c) /\ r = Len(s) - lw - lu
  <2>1. ReadTo(c) = Len(s) - lw - lu
    BY <1>5, <1>6, <1>16, <1>17, <1>18 DEF ReadTo
  <2>2. ReadTo(c) >= 0
    BY DEF WireInv, WireOf
  <2>3. PICK l \in Nat : l = Len(s)
    BY <1>18
  <2>4. l - lw - lu \in Nat
    BY <2>1, <2>2, <2>3
  <2> QED
    BY <2>1, <2>3, <2>4
<1>20. /\ \A j \in 1 .. lw : w[j] = s[r + j]
       /\ \A j \in 1 .. lu : u[j] = s[r + lw + j]
  <2>1. /\ \A j \in 1 .. Len(wire[c]) : wire[c][j] = Stream(c)[ReadTo(c) + j]
        /\ \A j \in 1 .. Len(unsent[c]) :
             unsent[c][j] = Stream(c)[ReadTo(c) + Len(wire[c]) + j]
    BY DEF WireInv, WireOf
  <2>2. /\ wire[c] = w /\ unsent[c] = u /\ Stream(c) = s /\ ReadTo(c) = r
        /\ Len(w) = lw /\ Len(u) = lu
    BY <1>5, <1>6, <1>16, <1>17, <1>18, <1>19
  <2> QED
    BY <2>1, <2>2
<1>21. /\ Len(a) = lb + m
       /\ \A j \in 1 .. lb : a[j] = b[j]
       /\ \A j \in 1 .. m : a[lb + j] = w[j]
  <2>1. /\ Len(a) = Len(b) + Len(p)
        /\ \A j \in 1 .. Len(b) : a[j] = b[j]
        /\ \A j \in 1 .. Len(p) : a[Len(b) + j] = p[j]
    BY <1>7, <1>8, <1>10, ConcatFacts
  <2> QED
    BY <2>1, <1>13, <1>15
<1>22. PICK k \in 0 .. (lb + m) :
         /\ Len(t) = lb + m - k
         /\ \A j \in 1 .. (lb + m - k) : t[j] = a[k + j]
         /\ lb + m - k <= 2 * MaxLine
         /\ k > 0 => lb + m > 2 * MaxLine /\ lb + m - k = MaxLine
  <2>1. \E k \in 0 .. Len(a) :
          /\ Len(t) = Len(a) - k
          /\ \A j \in 1 .. (Len(a) - k) : t[j] = a[k + j]
          /\ Len(a) - k <= 2 * MaxLine
          /\ k > 0 => Len(a) > 2 * MaxLine /\ Len(a) - k = MaxLine
    BY <1>10, <1>11, TrimFacts
  <2> QED
    BY <2>1, <1>21
<1>23. /\ wire' = [wire EXCEPT ![c] = q] /\ wire'[c] = q
       /\ \A d \in Clients : d # c => wire'[d] = wire[d]
       /\ wire' \in [Clients -> Seq(Byte)]
  BY <1>4, <1>5, <1>9 DEF WireInv
<1>24. buffers' = [buffers EXCEPT ![f] = t]
  BY <1>4, <1>5, <1>7, <1>8, <1>10, <1>11
<1>25. /\ DOMAIN buffers' = DOMAIN conn /\ buffers'[f] = t
       /\ \A g \in DOMAIN conn : g # f => buffers'[g] = buffers[g]
  BY <1>2, <1>24
<1>26. ReadTo(c)' = r + m /\ Stream(c)' = s
  <2>1. Stream(c)' = s
    BY <1>4, <1>18, StreamKept
  <2>2. ReadTo(c)' = Len(s) - Len(q) - lu
    BY <2>1, <1>4, <1>6, <1>17, <1>23 DEF ReadTo
  <2>3. Len(q) = lw - m
    BY <1>14, <1>16
  <2>4. PICK l \in Nat : l = Len(s)
    BY <1>18
  <2>5. ReadTo(c)' = l - (lw - m) - lu /\ r = l - lw - lu
    BY <2>2, <2>3, <2>4, <1>19
  <2>6. m \in Nat
    BY <1>12
  <2> QED
    BY <2>1, <2>5, <2>6
<1>27. \A g \in DOMAIN conn : ~HasLine(buffers[g])
  BY <1>2 DEF BufferInv, BufferOf
<1>28. TypeOK'
  <2>1. \A g \in DOMAIN conn : conn[g] \in Clients /\ Len(buffers'[g]) <= 2 * MaxLine
    BY <1>22, <1>25 DEF TypeOK
  <2>2. /\ peer' \in [Clients -> {"new", "open", "gone"}] /\ pending' \subseteq Clients
        /\ DOMAIN conn' = DOMAIN buffers' /\ DOMAIN conn' \subseteq 1 .. Cardinality(Clients)
        /\ \A p1 \in polled' : p1.fd \in DOMAIN conn'
        /\ stop' \in BOOLEAN /\ hangUps' \in 0 .. MaxHangUps /\ lost' \in 0 .. MaxLost
    BY <1>4, <1>25 DEF TypeOK
  <2>3. cur'.fd \in DOMAIN conn'
    BY <1>1, <1>2, <1>4
  <2> QED
    BY <2>1, <2>2, <2>3, <1>4 DEF TypeOK
<1>29. ConnInv'
  <2>1. buffers' \in [DOMAIN conn' -> Seq(Byte)]
    BY <1>2, <1>4, <1>11, <1>24 DEF ConnInv
  <2>2. /\ IsFiniteSet(DOMAIN conn) /\ conn \in [DOMAIN conn -> Clients]
        /\ \A e, g \in DOMAIN conn : conn[e] = conn[g] => e = g
        /\ \A g \in DOMAIN conn : conn[g] \notin pending /\ peer[conn[g]] # "new"
        /\ \A d \in pending : peer[d] # "new"
        /\ \A p1, q1 \in polled : p1.fd = q1.fd => p1 = q1
        /\ \A p1 \in polled : p1.fd # cur.fd
    BY <1>2 DEF ConnInv, Looking
  <2>3. pc' # "poll"
    BY <1>4
  <2> QED
    BY <2>1, <2>2, <2>3, <1>4 DEF ConnInv
<1>30. WireInv'
  <2>1. ASSUME NEW d \in Clients, d # c
        PROVE  WireOf(d)'
    <3>1. WireOf(d)
      BY DEF WireInv
    <3> QED
      BY <2>1, <3>1, <1>4, <1>23, WireOfKept
  <2>2. WireOf(c)'
    <3>1. m \in Nat /\ m <= lw
      BY <1>12, <1>16
    <3>2. r + m >= 0
      BY <3>1
    <3>3. ASSUME NEW j \in 1 .. Len(q)
          PROVE  q[j] = s[(r + m) + j]
      <4>1. PICK x \in Nat : x = Len(q)
        BY <1>9
      <4>5. j \in 1 .. x /\ x = lw - m
        BY <4>1, <1>14, <1>16
      <4>6. m + j \in 1 .. lw
        BY <4>5, <3>1
      <4>7. q[j] = w[m + j]
        BY <1>14
      <4>2. w[m + j] = s[r + (m + j)]
        BY <4>6, <1>20
      <4>3. j \in Nat /\ r + (m + j) = (r + m) + j
        BY <3>1
      <4> QED
        BY <4>2, <4>3, <4>7
    <3>4. ASSUME NEW j \in 1 .. lu
          PROVE  u[j] = s[(r + m) + Len(q) + j]
      <4>1. u[j] = s[r + lw + j]
        BY <1>20
      <4>2. PICK x \in Nat : x = Len(q)
        BY <1>9
      <4>3. x = lw - m /\ j \in Nat
        BY <4>2, <1>14, <1>16
      <4>4. (r + m) + x + j = r + lw + j
        BY <4>3, <3>1
      <4> QED
        BY <4>1, <4>2, <4>4
    <3>5. ~(peer'[c] = "new" \/ c \in pending')
      BY <1>2, <1>3, <1>4 DEF ConnInv
    <3>6. wire'[c] = q /\ unsent'[c] = u /\ Len(u) = lu
      BY <1>4, <1>6, <1>17, <1>23
    <3> QED
      BY <3>2, <3>3, <3>4, <3>5, <3>6, <1>26 DEF WireOf
  <2>3. /\ script' \in [Clients -> Script] /\ unsent' \in [Clients -> Seq(Byte)]
        /\ handled' \in [Clients -> Seq(Seq(Byte))]
    BY <1>4 DEF WireInv
  <2>4. \A d \in Clients : WireOf(d)'
    BY <2>1, <2>2
  <2> QED
    BY <2>3, <2>4, <1>23 DEF WireInv
<1>31. BufferInv'
  <2>1. ASSUME NEW g \in DOMAIN conn, g # f
        PROVE  BufferOf(g)'
    <3>1. conn[g] \in Clients /\ conn[g] # c
      BY <2>1, <1>2, <1>3 DEF ConnInv
    <3>2. BufferOf(g) /\ buffers'[g] = buffers[g]
      BY <2>1, <1>25 DEF BufferInv
    <3>3. /\ wire'[conn[g]] = wire[conn[g]] /\ unsent'[conn[g]] = unsent[conn[g]]
          /\ handled'[conn[g]] = handled[conn[g]]
      BY <3>1, <1>4, <1>23
    <3> QED
      BY <3>2, <3>3, <1>4, <1>27, BufferOfKept
  <2>2. BufferOf(f)'
    <3>1. BufferOf(f)
      BY <1>2 DEF BufferInv
    <3>2. PICK h : h = Handled(f)
      OBVIOUS
    <3>3. h \in Nat
      <4>1. Len(handled[c]) \in 0 .. Len(script[c])
        <5>1. handled[c] \in Seq(Seq(Byte)) /\ script[c] \in Script
          BY DEF WireInv
        <5>2. Len(handled[c]) \in Nat /\ Len(script[c]) \in Nat
          BY <5>1 DEF Script
        <5> QED
          BY <5>2, <3>1, <1>3 DEF BufferOf
      <4>2. Ends(c) \in [0 .. Len(script[c]) -> 0 .. Len(s)]
        BY <1>18, StreamFacts DEF WireInv, Marks
      <4>3. h = Ends(c)[Len(handled[c])]
        BY <3>2, <1>3 DEF Handled
      <4>4. h \in 0 .. Len(s)
        BY <4>1, <4>2, <4>3
      <4> QED
        BY <4>4
    <3>4. PICK z : z = Before(f)
      OBVIOUS
    <3>5. z = r - lb
      BY <3>4, <1>3, <1>7, <1>15, <1>19 DEF Before
    <3>6. /\ h <= z
          /\ \A j \in 1 .. lb : b[j] = s[z + j]
          /\ \A x \in (h + 1) .. z : s[x] # Newline
          /\ h < z => \A x \in (h + 1) .. (h + MaxLine + 1) : s[x] # Newline
          /\ Len(handled[c]) <= Len(script[c])
      BY <3>1, <3>2, <3>4, <1>3, <1>7, <1>15, <1>18 DEF BufferOf
    <3>7. z \in Nat
      BY <3>3, <3>5, <3>6
    <3>8. \A i \in 1 .. lb : s[z + i] # Newline
      <4>1. \A i \in 1 .. lb : b[i] # Newline
        BY <1>2, <1>7, <1>15, <1>27 DEF HasLine
      <4> QED
        BY <4>1, <3>6
    <3>9. m \in Nat /\ k \in Nat /\ m <= MaxLine
      BY <1>0, <1>5, <1>12, <1>22
    <3>10. /\ \A x \in (h + 1) .. (z + k) : s[x] # Newline
           /\ h < z + k => \A x \in (h + 1) .. (h + MaxLine + 1) : s[x] # Newline
      <4>1. k > 0 => lb + m > 2 * MaxLine /\ lb + m - k = MaxLine
        BY <1>22
      <4>2. m \in Nat /\ k \in Nat /\ z \in Nat /\ h \in Nat /\ lb \in Nat
        BY <3>3, <3>7, <3>9
      <4>3. m <= MaxLine /\ h <= z
        BY <3>6, <3>9
      <4>4. /\ \A x \in (h + 1) .. z : s[x] # Newline
            /\ h < z => \A x \in (h + 1) .. (h + MaxLine + 1) : s[x] # Newline
        BY <3>6
      <4> QED
        BY <4>1, <4>2, <4>3, <4>4, <3>8, DroppedFacts, ZenonT(60)
    <3>11. Handled(f)' = h
      <4>1. Handled(f)' = Ends(c)'[Len(handled[c])]
        BY <1>3, <1>4 DEF Handled, Ends, Stream
      <4> QED
        BY <4>1, <3>2, <1>3, <1>4, StreamKept DEF Handled
    <3>12. Before(f)' = z + k
      <4>1. Before(f)' = ReadTo(c)' - Len(t)
        BY <1>3, <1>4, <1>25 DEF Before, ReadTo, Stream
      <4>2. Len(t) = lb + m - k
        BY <1>22
      <4>3. Before(f)' = (r + m) - (lb + m - k)
        BY <4>1, <4>2, <1>26
      <4> QED
        BY <4>3, <3>5, <3>9
    <3>13. ASSUME NEW j \in 1 .. Len(t)
           PROVE  t[j] = s[(z + k) + j]
      <4>1. t[j] = a[k + j] /\ k + j \in 1 .. (lb + m) /\ j \in Nat
        BY <1>22, <3>9
      <4>2. PICK i \in 1 .. (lb + m) : i = k + j
        BY <4>1
      <4>3. (z + k) + j = z + i
        BY <4>1, <4>2, <3>7, <3>9
      <4>4. a[i] = s[z + i]
        <5>1. CASE i <= lb
          BY <5>1, <1>21, <3>6
        <5>2. CASE i > lb
          <6>1. PICK y \in 1 .. m : i = lb + y
            <7>1. i - lb \in 1 .. m /\ i = lb + (i - lb)
              BY <5>2, <3>9
            <7> QED
              BY <7>1
          <6>2. a[lb + y] = w[y]
            BY <1>21
          <6>3. y \in 1 .. lw /\ y \in Nat
            BY <1>12, <1>16
          <6>4. w[y] = s[r + y]
            BY <6>3, <1>20
          <6>5. z + i = r + y
            BY <6>1, <6>3, <3>5
          <6> QED
            BY <6>1, <6>2, <6>4, <6>5
        <5> QED
          BY <5>1, <5>2
      <4> QED
        BY <4>1, <4>2, <4>3, <4>4
    <3>14. h <= z + k
      BY <3>3, <3>6, <3>7, <3>9
    <3>15. /\ conn'[f] = c /\ buffers'[f] = t /\ handled'[c] = handled[c] /\ script'[c] = script[c]
           /\ pc' \in {"lines", "answer"} /\ f = cur'.fd
      BY <1>1, <1>3, <1>4, <1>25
    <3>16. Stream(conn[f])' = s
      BY <3>15, <1>26 DEF Stream
    <3> QED
      BY <3>6, <3>10, <3>11, <3>12, <3>13, <3>14, <3>15, <3>16 DEF BufferOf
  <2>3. DOMAIN conn' = DOMAIN conn
    BY <1>4
  <2> QED
    BY <2>1, <2>2, <2>3 DEF BufferInv
<1>32. LinesArriveWhole' /\ AnswersInOrder'
  BY <1>4, LinesKept, AnswersKept
<1>33. AnswerInv'
  BY <1>4, AnswerKept
<1> QED
  BY <1>28, <1>29, <1>30, <1>31, <1>32, <1>33

\* In the stream s a line of n bytes starts after h; the bytes up to z were
\* dropped, and the first newline after them is at z + e.
NextLine(s, n, h, z, e) ==
  /\ h <= z /\ 1 <= e
  /\ s[h + n + 1] = Newline /\ \A k \in 1 .. n : s[h + k] # Newline
  /\ s[z + e] = Newline /\ \A j \in 1 .. (e - 1) : s[z + j] # Newline
  /\ \A x \in (h + 1) .. z : s[x] # Newline
  /\ h < z => \A x \in (h + 1) .. (h + MaxLine + 1) : s[x] # Newline

\* That newline ends the line; and nothing of the line was dropped when it is
\* not too long.
LEMMA NextLineFacts ==
  ASSUME NEW s, NEW n \in Nat, NEW h \in Nat, NEW z \in Nat, NEW e \in Nat,
         NextLine(s, n, h, z, e)
  PROVE  z + e = h + n + 1 /\ (n <= MaxLine => z = h)
<1> USE DEF NextLine
<1>0. MaxLine \in Nat
  BY ServerAssumption
<1>1. ~(z + e < h + n + 1)
  <2>1. SUFFICES ASSUME z + e < h + n + 1
                 PROVE  FALSE
    OBVIOUS
  <2>2. PICK k \in 1 .. n : z + e = h + k
    <3>1. (z + e) - h \in 1 .. n /\ z + e = h + ((z + e) - h)
      BY <2>1
    <3> QED
      BY <3>1
  <2> QED
    BY <2>2
<1>2. ~(h + n + 1 < z + e)
  <2>1. SUFFICES ASSUME h + n + 1 < z + e
                 PROVE  FALSE
    OBVIOUS
  <2>2. CASE h + n + 1 <= z
    <3>1. h + n + 1 \in (h + 1) .. z
      BY <2>2
    <3> QED
      BY <3>1
  <2>3. CASE h + n + 1 > z
    <3>1. PICK j \in 1 .. (e - 1) : h + n + 1 = z + j
      <4>1. (h + n + 1) - z \in 1 .. (e - 1) /\ h + n + 1 = z + ((h + n + 1) - z)
        BY <2>1, <2>3
      <4> QED
        BY <4>1
    <3> QED
      BY <3>1
  <2> QED
    BY <2>2, <2>3
<1>3. ASSUME n <= MaxLine
      PROVE  z = h
  <2>1. h + n + 1 \in (h + 1) .. (h + MaxLine + 1)
    BY <1>0, <1>3
  <2> QED
    BY <2>1
<1> QED
  BY <1>1, <1>2, <1>3

\* x is what a line of n bytes has after its first d, cut to the length allowed.
Cut(c, i, n, d, e, x) ==
  /\ 1 <= e /\ d + e = n + 1 /\ (n <= MaxLine => d = 0)
  /\ Len(x) = IF MaxLine < e - 1 THEN MaxLine ELSE e - 1
  /\ \A j \in 1 .. Len(x) : x[j] = <<c, i, d + j>>

\* x is the i-th line of c, of n bytes, or a piece of it when it is too long.
LineOrPiece(c, i, n, x) ==
  IF n <= MaxLine THEN x = Text(c, i, n)
  ELSE \E k \in 0 .. n : \E m \in 0 .. MaxLine :
         k + m <= n /\ x = SubSeq(Text(c, i, n), k + 1, k + m)

\* A cut is no more than that.
LEMMA PieceFacts ==
  ASSUME NEW c \in Clients, NEW i \in Nat, NEW n \in Nat, NEW d \in Nat, NEW e \in Nat,
         NEW x \in Seq(Byte), Cut(c, i, n, d, e, x)
  PROVE  LineOrPiece(c, i, n, x)
<1> USE DEF Cut, LineOrPiece
<1>0. MaxLine \in Nat
  BY ServerAssumption
<1>1. PICK t : t = Text(c, i, n)
  OBVIOUS
<1>2. /\ t \in Seq(Byte) /\ Len(t) = n
      /\ \A k \in 1 .. n : t[k] = <<c, i, k>> /\ <<c, i, k>> \in Byte
  BY <1>1, TextFacts
<1>3. PICK m \in 0 .. n : m = Len(x) /\ m <= MaxLine /\ d + m <= n /\ (d = 0 /\ n <= MaxLine => m = n)
  BY <1>0
<1>4. CASE n <= MaxLine
  <2>1. d = 0 /\ Len(x) = n
    BY <1>3, <1>4
  <2>2. ASSUME NEW j \in 1 .. Len(x)
        PROVE  x[j] = t[j]
    <3>1. j \in 1 .. n /\ d + j = j
      BY <2>1
    <3>2. x[j] = <<c, i, d + j>>
      OBVIOUS
    <3> QED
      BY <3>1, <3>2, <1>2
  <2>3. t \in Seq(Byte) /\ Len(x) = Len(t)
    BY <2>1, <1>2
  <2>4. x = t
    BY <2>2, <2>3, SeqEqual
  <2> QED
    BY <2>4, <1>1, <1>4
<1>5. CASE ~(n <= MaxLine)
  <2>1. PICK y : y = SubSeq(t, d + 1, d + m)
    OBVIOUS
  <2>2. \A j \in (d + 1) .. (d + m) : t[j] \in Byte
    BY <1>2, <1>3
  <2>3. d + 1 \in Int /\ d + m \in Int
    OBVIOUS
  <2>4. /\ SubSeq(t, d + 1, d + m) \in Seq(Byte)
        /\ Len(SubSeq(t, d + 1, d + m)) = IF d + 1 <= d + m THEN (d + m) - (d + 1) + 1 ELSE 0
        /\ \A j \in 1 .. ((d + m) - (d + 1) + 1) : SubSeq(t, d + 1, d + m)[j] = t[(d + 1) + j - 1]
    BY <2>2, <2>3, SubSeqProperties
  <2>5. /\ y \in Seq(Byte)
        /\ Len(y) = IF d + 1 <= d + m THEN (d + m) - (d + 1) + 1 ELSE 0
        /\ \A j \in 1 .. ((d + m) - (d + 1) + 1) : y[j] = t[(d + 1) + j - 1]
    BY <2>1, <2>4
  <2>6. Len(y) = m
    BY <2>5
  <2>7. ASSUME NEW j \in 1 .. Len(x)
        PROVE  x[j] = y[j]
    <3>1. j \in 1 .. m /\ j \in Nat
      BY <1>3
    <3>2. j \in 1 .. ((d + m) - (d + 1) + 1) /\ (d + 1) + j - 1 = d + j /\ d + j \in 1 .. n
      BY <3>1, <1>3
    <3>3. y[j] = t[d + j]
      BY <3>2, <2>5
    <3>4. x[j] = <<c, i, d + j>>
      OBVIOUS
    <3> QED
      BY <3>2, <3>3, <3>4, <1>2
  <2>8. Len(x) = Len(y) /\ y \in Seq(Byte)
    BY <1>3, <2>5, <2>6
  <2>9. x = y
    BY <2>7, <2>8, SeqEqual
  <2>10. d \in 0 .. n /\ m \in 0 .. MaxLine /\ d + m <= n
    BY <1>3
  <2> QED
    BY <2>1, <2>9, <2>10, <1>1, <1>5
<1> QED
  BY <1>4, <1>5

LEMMA TakeLineStep ==
  ASSUME ServerInv, TakeLine
  PROVE  ServerInv'
<1> USE DEF ServerInv
<1>0. MaxLine \in Nat
  BY ServerAssumption
<1>1. PICK f : f = cur.fd
  OBVIOUS
<1>2. f \in DOMAIN conn /\ pc = "lines" /\ DOMAIN buffers = DOMAIN conn
  BY <1>1 DEF TakeLine, TypeOK
<1>3. PICK c \in Clients : c = conn[f]
  BY <1>2 DEF TypeOK
<1>4. PICK b : b = buffers[f] /\ b \in Seq(Byte)
  BY <1>2 DEF ConnInv
<1>5. /\ UNCHANGED <<script, unsent, wire, conn, polled, cur>>
      /\ UNCHANGED <<peer, pending, stop, answers, hangUps, lost>>
  BY DEF TakeLine, client
<1>6. /\ peer \in [Clients -> {"new", "open", "gone"}] /\ pending \subseteq Clients
      /\ DOMAIN conn \subseteq 1 .. Cardinality(Clients)
      /\ \A p \in polled : p.fd \in DOMAIN conn
      /\ \A g \in DOMAIN conn : conn[g] \in Clients /\ Len(buffers[g]) <= 2 * MaxLine
      /\ stop \in BOOLEAN /\ hangUps \in 0 .. MaxHangUps /\ lost \in 0 .. MaxLost
  BY DEF TypeOK
<1>7. /\ IsFiniteSet(DOMAIN conn) /\ conn \in [DOMAIN conn -> Clients]
      /\ \A e, g \in DOMAIN conn : conn[e] = conn[g] => e = g
      /\ \A g \in DOMAIN conn : conn[g] \notin pending /\ peer[conn[g]] # "new"
      /\ \A d \in pending : peer[d] # "new"
      /\ \A p, q \in polled : p.fd = q.fd => p = q
      /\ \A p \in polled : p.fd # cur.fd
  BY <1>2 DEF ConnInv, Looking
<1>8. \A g \in DOMAIN conn : g # f => ~HasLine(buffers[g])
  BY <1>1 DEF BufferInv, BufferOf
<1>9. CASE ~HasLine(b)
  <2>1. pc' = "read" /\ UNCHANGED <<line, buffers, handled>>
    BY <1>1, <1>4, <1>9 DEF TakeLine
  <2>2. TypeOK'
    BY <1>1, <1>2, <1>5, <1>6, <2>1 DEF TypeOK
  <2>3. ConnInv'
    <3>1. buffers \in [DOMAIN conn -> Seq(Byte)]
      BY DEF ConnInv
    <3> QED
      BY <1>5, <1>7, <2>1, <3>1 DEF ConnInv
  <2>4. WireInv'
    BY <1>5, <2>1, WireKept
  <2>5. BufferInv'
    <3>1. \A g \in DOMAIN conn : ~HasLine(buffers[g])
      BY <1>4, <1>8, <1>9
    <3> QED
      BY <1>5, <2>1, <3>1, BufferKept
  <2>6. LinesArriveWhole' /\ AnswersInOrder'
    BY <1>5, <2>1, LinesKept, AnswersKept
  <2>7. AnswerInv'
    BY <1>5, <2>1, AnswerKept
  <2> QED
    BY <2>2, <2>3, <2>4, <2>5, <2>6, <2>7
<1>10. CASE HasLine(b)
  <2>1. PICK e : e = LineEnd(b)
    OBVIOUS
  <2>2. e \in 1 .. Len(b) /\ b[e] = Newline /\ \A j \in 1 .. (e - 1) : b[j] # Newline
    BY <2>1, <1>4, <1>10, LineEndFacts
  <2>3. PICK x : x = Prefix(Prefix(b, e - 1), MaxLine)
    OBVIOUS
  <2>4. PICK t : t = Drop(b, e)
    OBVIOUS
  <2>5. /\ line' = x /\ pc' = "answer"
        /\ buffers' = [buffers EXCEPT ![f] = t]
        /\ handled' = [handled EXCEPT ![c] = Append(@, x)]
    <3>1. (e - 1) + 1 = e
      BY <2>2, <1>4
    <3>2. /\ line' = Prefix(Prefix(b, LineEnd(b) - 1), MaxLine)
          /\ buffers' = [buffers EXCEPT ![f] = Drop(b, (LineEnd(b) - 1) + 1)]
          /\ handled' = [handled EXCEPT ![c] = Append(@, Prefix(Prefix(b, LineEnd(b) - 1), MaxLine))]
          /\ pc' = "answer"
      BY <1>1, <1>3, <1>4, <1>10 DEF TakeLine, Owner
    <3> QED
      BY <3>1, <3>2, <2>1, <2>3, <2>4
  <2>6. PICK lb \in Nat : lb = Len(b)
    BY <1>4
  <2>7. /\ x \in Seq(Byte) /\ Len(x) = IF MaxLine < e - 1 THEN MaxLine ELSE e - 1
        /\ \A j \in 1 .. Len(x) : x[j] = b[j]
    <3>1. PICK y : y = Prefix(b, e - 1)
      OBVIOUS
    <3>2. e - 1 \in Nat /\ e - 1 < lb
      BY <2>2, <2>6
    <3>3. /\ y \in Seq(Byte)
          /\ Len(y) = IF e - 1 < Len(b) THEN e - 1 ELSE Len(b)
          /\ \A j \in 1 .. Len(y) : y[j] = b[j]
      BY <3>1, <3>2, <1>4, PrefixFacts
    <3>4. x = Prefix(y, MaxLine)
      BY <2>3, <3>1
    <3>5. /\ x \in Seq(Byte)
          /\ Len(x) = IF MaxLine < Len(y) THEN MaxLine ELSE Len(y)
          /\ \A j \in 1 .. Len(x) : x[j] = y[j]
      BY <3>3, <3>4, <1>0, PrefixFacts
    <3>6. Len(y) = e - 1
      BY <3>2, <3>3, <2>6
    <3>7. PICK lx \in Nat : lx = Len(x)
      BY <3>5
    <3>8. lx = (IF MaxLine < e - 1 THEN MaxLine ELSE e - 1) /\ lx <= e - 1
      BY <3>2, <3>5, <3>6, <3>7, <1>0
    <3>9. \A j \in 1 .. lx : j \in 1 .. (e - 1)
      BY <3>2, <3>8
    <3> QED
      BY <3>3, <3>5, <3>6, <3>7, <3>8, <3>9
  <2>8. /\ t \in Seq(Byte) /\ Len(t) = lb - e
        /\ \A j \in 1 .. Len(t) : t[j] = b[e + j]
    <3>1. e \in Nat /\ e <= lb
      BY <2>2, <2>6
    <3>2. /\ t \in Seq(Byte) /\ Len(t) = IF e < Len(b) THEN Len(b) - e ELSE 0
          /\ \A j \in 1 .. Len(t) : t[j] = b[e + j]
      BY <2>4, <3>1, <1>4, DropFacts
    <3>3. (IF e < lb THEN lb - e ELSE 0) = lb - e
      BY <3>1
    <3> QED
      BY <3>2, <3>3, <2>6
  <2>9. /\ DOMAIN buffers' = DOMAIN conn /\ buffers'[f] = t
        /\ \A g \in DOMAIN conn : g # f => buffers'[g] = buffers[g]
        /\ buffers' \in [DOMAIN conn -> Seq(Byte)]
    <3>1. buffers \in [DOMAIN conn -> Seq(Byte)] /\ t \in Seq(Byte)
      BY <2>8 DEF ConnInv
    <3> QED
      BY <3>1, <2>5, <1>2
  <2>10. PICK hc : hc = handled[c] /\ hc \in Seq(Seq(Byte))
    BY DEF WireInv
  <2>11. PICK n \in Nat : n = Len(hc)
    BY <2>10
  <2>12. PICK h2 : h2 = Append(hc, x)
    OBVIOUS
  <2>13. /\ h2 \in Seq(Seq(Byte)) /\ Len(h2) = n + 1
         /\ \A i \in 1 .. n : h2[i] = hc[i]
         /\ h2[n + 1] = x
    BY <2>7, <2>10, <2>11, <2>12, AppendProperties
  <2>14. /\ handled'[c] = h2
         /\ \A d \in Clients : d # c => handled'[d] = handled[d]
         /\ handled' \in [Clients -> Seq(Seq(Byte))]
    <3>1. handled \in [Clients -> Seq(Seq(Byte))] /\ h2 \in Seq(Seq(Byte))
      BY <2>13 DEF WireInv
    <3>2. handled' = [handled EXCEPT ![c] = h2]
      BY <2>5, <2>10, <2>12
    <3> QED
      BY <3>1, <3>2
  <2>15. PICK ls \in Nat : ls = Len(script[c])
    BY DEF WireInv, Script
  <2>16. PICK s : s = Stream(c)
    OBVIOUS
  <2>17. PICK l \in Nat : l = Len(s) /\ Marks(c, script[c], ls, s, Ends(c))
    BY <2>15, <2>16, StreamFacts DEF WireInv
  <2>18. BufferOf(f)
    BY <1>2 DEF BufferInv
  <2>19. PICK h : h = Handled(f)
    OBVIOUS
  <2>20. PICK z : z = Before(f)
    OBVIOUS
  <2>21. n <= ls /\ h = Ends(c)[n] /\ h \in 0 .. l
    <3>1. n <= ls
      BY <2>10, <2>11, <2>15, <2>18, <1>3 DEF BufferOf
    <3>2. h = Ends(c)[n]
      BY <2>10, <2>11, <2>19, <1>3 DEF Handled
    <3>3. Ends(c) \in [0 .. ls -> 0 .. l]
      BY <2>17 DEF Marks
    <3> QED
      BY <3>1, <3>2, <3>3
  <2>22. /\ h <= z
         /\ \A j \in 1 .. lb : b[j] = s[z + j]
         /\ \A y \in (h + 1) .. z : s[y] # Newline
         /\ h < z => \A y \in (h + 1) .. (h + MaxLine + 1) : s[y] # Newline
    BY <2>6, <2>16, <2>18, <2>19, <2>20, <1>3, <1>4 DEF BufferOf
  <2>23. /\ z \in Nat /\ z = ReadTo(c) - lb /\ z + lb <= l
    <3>1. z = ReadTo(c) - lb
      BY <2>6, <2>20, <1>3, <1>4 DEF Before
    <3>2. PICK lw \in Nat : lw = Len(wire[c])
      BY DEF WireInv
    <3>3. PICK lu \in Nat : lu = Len(unsent[c])
      BY DEF WireInv
    <3>4. ReadTo(c) = l - lw - lu
      BY <3>2, <3>3, <2>16, <2>17 DEF ReadTo
    <3> QED
      BY <3>1, <3>4, <2>21, <2>22
  <2>24. /\ s[z + e] = Newline /\ \A j \in 1 .. (e - 1) : s[z + j] # Newline
         /\ e \in Nat /\ 1 <= e /\ e <= lb
    <3>1. e \in Nat /\ 1 <= e /\ e <= lb
      BY <2>2, <2>6
    <3>2. e \in 1 .. lb /\ \A j \in 1 .. (e - 1) : j \in 1 .. lb
      BY <3>1
    <3> QED
      BY <3>1, <3>2, <2>2, <2>22
  <2>25. n < ls
    <3>1. SUFFICES ASSUME n = ls
                   PROVE  FALSE
      BY <2>21
    <3>2. h = l
      BY <3>1, <2>17, <2>21 DEF Marks
    <3> QED
      BY <3>2, <2>22, <2>23, <2>24
  <2>26. PICK i \in 1 .. ls : i = n + 1
    BY <2>25
  <2>27. PICK w \in Nat : w = script[c][i].len
    <3>1. script[c] \in Script
      BY DEF WireInv
    <3>2. script[c][i] \in [len : Nat, ask : BOOLEAN]
      BY <3>1, <2>15, <2>26, ElementOfSeq DEF Script
    <3> QED
      BY <3>2
  <2>28. /\ Ends(c)[i] = h + w + 1 /\ s[h + w + 1] = Newline
         /\ \A k \in 1 .. w : s[h + k] = <<c, i, k>>
    <3>1. i - 1 = n
      BY <2>26
    <3> QED
      BY <3>1, <2>17, <2>21, <2>26, <2>27 DEF Marks
  <2>29. \A k \in 1 .. w : s[h + k] # Newline
    <3>1. \A k \in 1 .. w : <<c, i, k>> \in Clients \X Nat \X Nat
      BY <2>26
    <3> QED
      BY <3>1, <2>28, ServerAssumption
  <2>30. z + e = h + w + 1 /\ (w <= MaxLine => z = h)
    <3>1. h \in Nat /\ z \in Nat /\ h <= z
      BY <2>21, <2>22, <2>23
    <3>2. NextLine(s, w, h, z, e)
      BY <3>1, <2>22, <2>24, <2>28, <2>29 DEF NextLine
    <3> QED
      BY <3>1, <3>2, <2>24, NextLineFacts
  <2>31. LineOrPiece(c, i, w, x)
    <3>1. PICK d \in Nat : d = z - h
      BY <2>21, <2>22, <2>23
    <3>2. d + e = w + 1 /\ (w <= MaxLine => d = 0) /\ i \in Nat
      BY <3>1, <2>21, <2>23, <2>24, <2>26, <2>30
    <3>3. PICK lx \in Nat : lx = Len(x)
      BY <2>7
    <3>4. lx = (IF MaxLine < e - 1 THEN MaxLine ELSE e - 1) /\ lx <= e - 1
      BY <3>3, <2>7, <2>24, <1>0
    <3>5. ASSUME NEW j \in 1 .. lx
          PROVE  x[j] = <<c, i, d + j>>
      <4>1. x[j] = b[j]
        BY <3>3, <2>7
      <4>2. j \in 1 .. lb /\ d + j \in 1 .. w /\ z + j = h + (d + j)
        BY <3>1, <3>2, <3>4, <2>21, <2>23, <2>24
      <4>3. PICK k \in 1 .. w : k = d + j
        BY <4>2
      <4>4. b[j] = s[h + k]
        BY <4>2, <4>3, <2>22
      <4>5. s[h + k] = <<c, i, k>>
        BY <2>28
      <4> QED
        BY <4>1, <4>3, <4>4, <4>5
    <3>6. \A j \in 1 .. Len(x) : x[j] = <<c, i, d + j>>
      BY <3>3, <3>5
    <3>7. x \in Seq(Byte) /\ Len(x) = IF MaxLine < e - 1 THEN MaxLine ELSE e - 1
      BY <2>7
    <3>8. Cut(c, i, w, d, e, x)
      BY <3>2, <3>6, <3>7, <2>24 DEF Cut
    <3>9. i \in Nat /\ e \in Nat
      BY <3>2, <2>24
    <3>10. x \in Seq(Byte)
      BY <3>7
    <3> QED
      BY <3>8, <3>9, <3>10, PieceFacts, Zenon
  <2>32. TypeOK'
    <3>1. \A g \in DOMAIN conn : conn[g] \in Clients /\ Len(buffers'[g]) <= 2 * MaxLine
      <4>1. lb <= 2 * MaxLine
        BY <1>2, <1>4, <1>6, <2>6
      <4>2. Len(t) <= 2 * MaxLine
        BY <4>1, <2>8, <2>24, <1>0
      <4> QED
        BY <4>2, <1>6, <2>9
    <3> QED
      BY <3>1, <1>1, <1>2, <1>5, <1>6, <2>5, <2>9 DEF TypeOK
  <2>33. ConnInv'
    BY <1>5, <1>7, <2>5, <2>9 DEF ConnInv
  <2>34. WireInv'
    <3>1. ASSUME NEW d \in Clients
          PROVE  WireOf(d)'
      <4>1. WireOf(d)
        BY DEF WireInv
      <4>2. CASE d # c
        BY <4>1, <4>2, <1>5, <2>14, WireOfKept
      <4>3. CASE d = c
        <5>1. ~(peer'[c] = "new" \/ c \in pending')
          BY <1>2, <1>3, <1>5, <1>7
        <5>2. Stream(c)' = Stream(c)
          BY <1>5, StreamKept
        <5>3. ReadTo(c)' = ReadTo(c)
          BY <5>2, <1>5 DEF ReadTo
        <5> QED
          BY <4>1, <4>3, <5>1, <5>2, <5>3, <1>5 DEF WireOf
      <4> QED
        BY <4>2, <4>3
    <3>2. /\ script' \in [Clients -> Script] /\ unsent' \in [Clients -> Seq(Byte)]
          /\ wire' \in [Clients -> Seq(Byte)]
      BY <1>5 DEF WireInv
    <3> QED
      BY <3>1, <3>2, <2>14 DEF WireInv
  <2>35. BufferInv'
    <3>1. ASSUME NEW g \in DOMAIN conn, g # f
          PROVE  BufferOf(g)'
      <4>1. conn[g] \in Clients /\ conn[g] # c
        BY <3>1, <1>2, <1>3, <1>7
      <4>2. BufferOf(g) /\ ~HasLine(buffers[g])
        BY <3>1, <1>8 DEF BufferInv
      <4>3. buffers'[g] = buffers[g] /\ handled'[conn[g]] = handled[conn[g]]
        BY <3>1, <4>1, <2>9, <2>14
      <4> QED
        BY <4>2, <4>3, <1>5, BufferOfKept
    <3>2. BufferOf(f)'
      <4>1. /\ conn'[f] = c /\ buffers'[f] = t /\ handled'[c] = h2 /\ script'[c] = script[c]
            /\ pc' = "answer" /\ f = cur'.fd
        BY <1>1, <1>3, <1>5, <2>5, <2>9, <2>14
      <4>2. Stream(c)' = s /\ Ends(c)' = Ends(c)
        BY <1>5, <2>16, StreamKept
      <4>3. Stream(conn[f])' = s
        BY <4>1, <4>2 DEF Stream
      <4>4. Handled(f)' = z + e
        <5>1. Handled(f)' = Ends(c)'[Len(handled'[c])]
          BY <4>1 DEF Handled, Ends, Stream
        <5>2. Len(handled'[c]) = i
          BY <4>1, <2>13, <2>26
        <5> QED
          BY <5>1, <5>2, <4>2, <2>28, <2>30
      <4>5. Before(f)' = z + e
        <5>1. Before(f)' = ReadTo(c)' - Len(t)
          BY <4>1 DEF Before, ReadTo, Stream
        <5>2. ReadTo(c)' = ReadTo(c)
          BY <1>5, <2>16, <4>2 DEF ReadTo
        <5>3. ReadTo(c) = z + lb
          <6>1. PICK lw \in Nat : lw = Len(wire[c])
            BY DEF WireInv
          <6>2. PICK lu \in Nat : lu = Len(unsent[c])
            BY DEF WireInv
          <6>3. ReadTo(c) = l - lw - lu
            BY <6>1, <6>2, <2>16, <2>17 DEF ReadTo
          <6> QED
            BY <6>3, <2>23
        <5>4. Before(f)' = (z + lb) - (lb - e)
          BY <5>1, <5>2, <5>3, <2>8
        <5> QED
          BY <5>4, <2>23, <2>24
      <4>6. PICK y \in Nat : y = z + e
        BY <2>23, <2>24
      <4>7. ASSUME NEW j \in 1 .. Len(t)
            PROVE  t[j] = s[y + j]
        <5>1. t[j] = b[e + j]
          BY <2>8
        <5>2. PICK lt : lt = Len(t)
          OBVIOUS
        <5>3. j \in 1 .. lt /\ lt = lb - e
          BY <5>2, <2>8
        <5>4. e + j \in 1 .. lb /\ z + (e + j) = y + j
          BY <5>3, <4>6, <2>23, <2>24
        <5> QED
          BY <5>1, <5>4, <2>22
      <4>8. Len(h2) <= ls /\ ls = Len(script[c])
        BY <2>13, <2>15, <2>25
      <4>9. \A v \in (y + 1) .. y : FALSE
        OBVIOUS
      <4>10. ~(y < y) /\ y <= y
        OBVIOUS
      <4> QED
        BY <4>1, <4>3, <4>4, <4>5, <4>6, <4>7, <4>8, <4>9, <4>10 DEF BufferOf
    <3>3. DOMAIN conn' = DOMAIN conn
      BY <1>5
    <3> QED
      BY <3>1, <3>2, <3>3 DEF BufferInv
  <2>36. DOMAIN hc = 1 .. n /\ DOMAIN h2 = 1 .. (n + 1) /\ DOMAIN script[c] = 1 .. ls
    BY <2>10, <2>11, <2>13, <2>15 DEF WireInv, Script
  <2>37. LinesArriveWhole'
    <3>1. ASSUME NEW d \in Clients, NEW k \in DOMAIN handled'[d]
          PROVE  /\ k \in DOMAIN script[d]
                 /\ IF script[d][k].len <= MaxLine
                    THEN handled'[d][k] = Text(d, k, script[d][k].len)
                    ELSE \E v \in 0 .. script[d][k].len : \E m \in 0 .. MaxLine :
                           /\ v + m <= script[d][k].len
                           /\ handled'[d][k] = SubSeq(Text(d, k, script[d][k].len), v + 1, v + m)
      <4>1. CASE d # c \/ k # i
        <5>1. k \in DOMAIN handled[d] /\ handled'[d][k] = handled[d][k]
          <6>1. CASE d # c
            BY <6>1, <2>14
          <6>2. CASE d = c
            <7>1. k \in 1 .. n
              BY <4>1, <6>2, <2>14, <2>26, <2>36
            <7> QED
              BY <6>2, <7>1, <2>10, <2>13, <2>14, <2>36
          <6> QED
            BY <6>1, <6>2
        <5> QED
          BY <5>1 DEF LinesArriveWhole
      <4>2. CASE d = c /\ k = i
        <5>1. handled'[d][k] = x /\ script[d][k].len = w /\ k \in DOMAIN script[d]
          BY <4>2, <2>13, <2>14, <2>26, <2>27, <2>36
        <5> QED
          BY <4>2, <5>1, <2>31 DEF LineOrPiece
      <4> QED
        BY <4>1, <4>2
    <3> QED
      BY <3>1, <1>5 DEF LinesArriveWhole
  <2>38. AnswersInOrder'
    <3>1. \A d \in Clients : DOMAIN handled[d] \subseteq DOMAIN handled'[d]
      <4>1. 1 .. n \subseteq 1 .. (n + 1)
        OBVIOUS
      <4> QED
        BY <4>1, <2>10, <2>14, <2>36
    <3> QED
      BY <3>1, <1>5 DEF AnswersInOrder
  <2>39. AnswerInv'
    <3>1. answers \in [Clients -> Seq(Nat)]
      BY DEF AnswerInv
    <3>2. Owner' = c
      BY <1>1, <1>3, <1>5 DEF Owner
    <3>3. \A k \in DOMAIN answers[c] : answers[c][k] \in 1 .. n
      BY <2>10, <2>36 DEF AnswersInOrder
    <3>4. \A k \in DOMAIN answers[c] : answers[c][k] < n + 1
      BY <3>3
    <3>5. Len(h2) > 0 /\ x = h2[Len(h2)] /\ Len(h2) = n + 1
      BY <2>13
    <3>6. handled'[c] = h2 /\ line' = x /\ answers' = answers
      BY <1>5, <2>5, <2>14
    <3> QED
      BY <3>1, <3>2, <3>4, <3>5, <3>6 DEF AnswerInv
  <2> QED
    BY <2>32, <2>33, <2>34, <2>35, <2>37, <2>38, <2>39
<1> QED
  BY <1>9, <1>10

\* A line that asks shows its number, since it is a piece of that line.
LEMMA NumberFacts ==
  ASSUME ServerInv, pc = "answer", Asks
  PROVE  Owner \in Clients /\ Number \in DOMAIN handled[Owner] /\ Number = Len(handled[Owner])
         /\ script[Owner][Number].ask
<1> USE DEF ServerInv
<1>1. PICK c \in Clients : c = Owner
  BY DEF TypeOK, Owner
<1>2. PICK hc : hc = handled[c] /\ hc \in Seq(Seq(Byte))
  BY DEF WireInv
<1>3. PICK n \in Nat : n = Len(hc)
  BY <1>2
<1>4. n > 0 /\ line = hc[n]
  BY <1>1, <1>2, <1>3 DEF AnswerInv
<1>5. n \in DOMAIN hc /\ line \in Seq(Byte) /\ line # <<>>
  BY <1>2, <1>3, <1>4 DEF Asks
<1>6. PICK w : w = script[c][n].len
  OBVIOUS
<1>7. n \in DOMAIN script[c] /\ w \in Nat
  <2>1. n \in DOMAIN script[c] /\ script[c] \in Script
    BY <1>2, <1>5 DEF LinesArriveWhole, WireInv
  <2>2. script[c][n] \in [len : Nat, ask : BOOLEAN]
    <3>1. script[c] \in Seq([len : Nat, ask : BOOLEAN]) /\ n \in 1 .. Len(script[c])
      BY <2>1 DEF Script
    <3> QED
      BY <3>1, ElementOfSeq
  <2> QED
    BY <2>1, <2>2, <1>6
<1>8. IF w <= MaxLine THEN line = Text(c, n, w)
      ELSE \E k \in 0 .. w : \E m \in 0 .. MaxLine :
             k + m <= w /\ line = SubSeq(Text(c, n, w), k + 1, k + m)
  BY <1>2, <1>4, <1>5, <1>6 DEF LinesArriveWhole
<1>9. PICK t : t = Text(c, n, w)
  OBVIOUS
<1>10. /\ t \in Seq(Byte) /\ Len(t) = w
       /\ \A k \in 1 .. w : t[k] = <<c, n, k>> /\ <<c, n, k>> \in Byte
  BY <1>7, <1>9, TextFacts
<1>11. \E k \in Nat : Head(line) = <<c, n, k>>
  <2>1. CASE w <= MaxLine
    <3>1. line = t
      BY <2>1, <1>8, <1>9
    <3>2. 1 \in 1 .. w /\ Head(t) = t[1]
      BY <3>1, <1>5, <1>7, <1>10
    <3> QED
      BY <3>1, <3>2, <1>10
  <2>2. CASE ~(w <= MaxLine)
    <3>1. PICK k \in 0 .. w, m \in 0 .. MaxLine :
            k + m <= w /\ line = SubSeq(t, k + 1, k + m)
      BY <2>2, <1>8, <1>9
    <3>2. k \in Nat /\ m \in Nat
      BY <3>1, ServerAssumption
    <3>3. \A j \in (k + 1) .. (k + m) : t[j] \in Byte
      BY <3>1, <3>2, <1>7, <1>10
    <3>4. k + 1 \in Int /\ k + m \in Int
      BY <3>2
    <3>5. /\ Len(SubSeq(t, k + 1, k + m)) = IF k + 1 <= k + m THEN (k + m) - (k + 1) + 1 ELSE 0
          /\ \A j \in 1 .. ((k + m) - (k + 1) + 1) : SubSeq(t, k + 1, k + m)[j] = t[(k + 1) + j - 1]
      BY <3>3, <3>4, SubSeqProperties
    <3>6. /\ Len(line) = IF k + 1 <= k + m THEN (k + m) - (k + 1) + 1 ELSE 0
          /\ \A j \in 1 .. ((k + m) - (k + 1) + 1) : line[j] = t[(k + 1) + j - 1]
      BY <3>1, <3>5
    <3>7. Len(line) # 0 /\ Head(line) = line[1]
      BY <1>5
    <3>8. m > 0 /\ 1 \in 1 .. ((k + m) - (k + 1) + 1) /\ (k + 1) + 1 - 1 = k + 1
      BY <3>2, <3>6, <3>7
    <3>9. line[1] = t[k + 1]
      BY <3>6, <3>8
    <3>10. k + 1 \in 1 .. w /\ k + 1 \in Nat
      BY <3>1, <3>2, <3>8, <1>7
    <3>11. t[k + 1] = <<c, n, k + 1>>
      BY <3>10, <1>10
    <3> QED
      BY <3>7, <3>9, <3>10, <3>11
  <2> QED
    BY <2>1, <2>2
<1>12. Head(line)[1] = c /\ Number = n
  BY <1>11 DEF Number
<1>13. script[c][n].ask
  BY <1>12 DEF Asks
<1> QED
  BY <1>1, <1>2, <1>3, <1>5, <1>12, <1>13

LEMMA AnswerStep ==
  ASSUME ServerInv, Answer
  PROVE  ServerInv'
<1> USE DEF ServerInv
<1>1. /\ UNCHANGED <<script, unsent, wire, handled, conn, buffers, polled, cur>>
      /\ UNCHANGED <<peer, pending, stop, hangUps>> /\ pc = "answer" /\ pc' = "lines"
  BY DEF Answer, client
<1>2. \/ UNCHANGED <<answers, lost>>
      \/ Asks /\ answers' = [answers EXCEPT ![Owner] = Append(@, Number)] /\ UNCHANGED lost
      \/ lost < MaxLost /\ lost' = lost + 1 /\ UNCHANGED answers
  BY DEF Answer
<1>3. TypeOK'
  <2>1. lost' \in 0 .. MaxLost
    BY <1>2, ServerAssumption DEF TypeOK
  <2> QED
    BY <1>1, <2>1 DEF TypeOK
<1>4. ConnInv'
  BY <1>1 DEF ConnInv, Looking
<1>5. WireInv'
  BY <1>1, WireKept
<1>6. BufferInv'
  BY <1>1, BufferKept DEF BufferInv, BufferOf
<1>7. LinesArriveWhole'
  BY <1>1, LinesKept
<1>8. CASE answers' = answers
  <2>1. AnswersInOrder'
    BY <1>1, <1>8, AnswersKept
  <2>2. AnswerInv'
    BY <1>1, <1>8, AnswerKept
  <2> QED
    BY <2>1, <2>2, <1>3, <1>4, <1>5, <1>6, <1>7
<1>9. CASE Asks /\ answers' = [answers EXCEPT ![Owner] = Append(@, Number)]
  <2>1. PICK c : c = Owner
    OBVIOUS
  <2>2. PICK n : n = Number
    OBVIOUS
  <2>3. /\ c \in Clients /\ n \in DOMAIN handled[c] /\ n = Len(handled[c]) /\ script[c][n].ask
    BY <2>1, <2>2, <1>1, <1>9, NumberFacts
  <2>4. n \in Nat
    BY <2>3 DEF WireInv
  <2>5. PICK a : a = answers[c] /\ a \in Seq(Nat)
    BY <2>3 DEF AnswerInv
  <2>6. PICK l \in Nat : l = Len(a)
    BY <2>5
  <2>7. PICK b : b = Append(a, n)
    OBVIOUS
  <2>8. /\ b \in Seq(Nat) /\ Len(b) = l + 1 /\ b[l + 1] = n
        /\ \A k \in 1 .. l : b[k] = a[k]
    BY <2>4, <2>5, <2>6, <2>7, AppendProperties
  <2>9. DOMAIN a = 1 .. l /\ DOMAIN b = 1 .. (l + 1)
    BY <2>5, <2>6, <2>8
  <2>10. /\ answers' \in [Clients -> Seq(Nat)] /\ answers'[c] = b
         /\ \A d \in Clients : d # c => answers'[d] = answers[d]
    <3>1. answers \in [Clients -> Seq(Nat)]
      BY DEF AnswerInv
    <3>2. answers' = [answers EXCEPT ![c] = b]
      BY <1>9, <2>1, <2>2, <2>5, <2>7
    <3> QED
      BY <3>1, <3>2, <2>3, <2>8
  <2>11. AnswerInv'
    BY <1>1, <2>10 DEF AnswerInv
  <2>12. \A k \in 1 .. l : a[k] < n /\ a[k] \in DOMAIN handled[c] /\ script[c][a[k]].ask
    <3>1. \A k \in DOMAIN answers[Owner] : answers[Owner][k] < Len(handled[Owner])
      BY <1>1 DEF AnswerInv
    <3>2. \A k \in DOMAIN answers[c] : answers[c][k] \in DOMAIN handled[c] /\ script[c][answers[c][k]].ask
      BY <2>3 DEF AnswersInOrder
    <3> QED
      BY <3>1, <3>2, <2>1, <2>3, <2>5, <2>9
  <2>13. ASSUME NEW k \in 1 .. (l + 1)
         PROVE  b[k] \in DOMAIN handled[c] /\ script[c][b[k]].ask /\ (k > 1 => b[k - 1] < b[k])
    <3>1. CASE k <= l
      <4>1. k \in 1 .. l /\ (k > 1 => k - 1 \in 1 .. l)
        BY <3>1
      <4>2. k > 1 => a[k - 1] < a[k]
        BY <4>1, <2>3, <2>5, <2>9 DEF AnswersInOrder
      <4> QED
        BY <4>1, <4>2, <2>8, <2>12
    <3>2. CASE k = l + 1
      <4>1. k > 1 => k - 1 \in 1 .. l
        BY <3>2, <2>6
      <4> QED
        BY <3>2, <4>1, <2>3, <2>8, <2>12
    <3> QED
      BY <3>1, <3>2, <2>6
  <2>14. AnswersInOrder'
    <3>1. ASSUME NEW d \in Clients
          PROVE  /\ \A k \in DOMAIN answers'[d] : /\ answers'[d][k] \in DOMAIN handled[d]
                                                 /\ script[d][answers'[d][k]].ask
                 /\ \A k \in DOMAIN answers'[d] : k > 1 => answers'[d][k - 1] < answers'[d][k]
      <4>1. CASE d = c
        BY <4>1, <2>9, <2>10, <2>13
      <4>2. CASE d # c
        BY <4>2, <2>10 DEF AnswersInOrder
      <4> QED
        BY <4>1, <4>2
    <3> QED
      BY <3>1, <1>1 DEF AnswersInOrder
  <2> QED
    BY <2>11, <2>14, <1>3, <1>4, <1>5, <1>6, <1>7
<1> QED
  BY <1>2, <1>8, <1>9

-----------------------------------------------------------------------------
(* The theorems.                                                           *)

LEMMA ServerNext == ServerInv /\ [Next]_vars => ServerInv'
<1> SUFFICES ASSUME ServerInv, [Next]_vars
             PROVE  ServerInv'
  OBVIOUS
<1>1. CASE Main
  BY <1>1, ExitStep, PollStep, AcceptStep, LookStep, ReadStep, ReadNothingStep, TakeLineStep,
     AnswerStep, CloseStep DEF Main
<1>2. CASE Signal
  BY <1>2, SignalStep
<1>3. ASSUME NEW c \in Clients, Connect(c) \/ Write(c) \/ HangUp(c)
      PROVE  ServerInv'
  BY <1>3, ConnectStep, WriteStep, HangUpStep
<1>4. CASE UNCHANGED vars
  <2>1. /\ UNCHANGED <<script, unsent, wire, handled, conn, buffers, polled, cur, line>>
        /\ UNCHANGED <<peer, pending, pc, stop, answers, hangUps, lost>>
    BY <1>4 DEF vars, client, server
  <2>2. TypeOK' /\ ConnInv'
    BY <2>1 DEF ServerInv, TypeOK, ConnInv
  <2>3. WireInv'
    BY <2>1, WireKept DEF ServerInv
  <2>4. BufferInv'
    BY <2>1, BufferKept DEF ServerInv, BufferInv, BufferOf
  <2>5. LinesArriveWhole' /\ AnswersInOrder'
    BY <2>1, LinesKept, AnswersKept DEF ServerInv
  <2>6. AnswerInv'
    BY <2>1 DEF ServerInv, AnswerInv, Owner
  <2> QED
    BY <2>2, <2>3, <2>4, <2>5, <2>6 DEF ServerInv
<1> QED
  BY <1>1, <1>2, <1>3, <1>4 DEF Next

\* Whatever the clients write, in whatever pieces, and however they connect and
\* hang up, the server's buffers, sockets and histories fit together: each
\* client's stream falls into the lines handled, what the trimming dropped of a
\* line that is too long, the buffer, the socket and what is unsent.
THEOREM ServerInvariant == Spec => []ServerInv
BY ServerInit, ServerNext, PTL DEF Spec

\* The descriptors of the clients that are connected are among the lowest, each
\* has a buffer of at most two lines, and the loop of main() looks only at
\* descriptors that are open.
THEOREM TypeCorrect == Spec => []TypeOK
BY ServerInvariant, PTL DEF ServerInv

\* The i-th line that the server handles on a connection is the client's i-th
\* line, whole when it has at most kMaxLineLength bytes and otherwise a piece of
\* that line alone (handleClientData, closeClient).
THEOREM LinesWhole == Spec => []LinesArriveWhole
BY ServerInvariant, PTL DEF ServerInv

\* A client is answered only what it asked on its own connection, in the order
\* of its lines and nothing twice.
THEOREM AnswersOrdered == Spec => []AnswersInOrder
BY ServerInvariant, PTL DEF ServerInv
=============================================================================
