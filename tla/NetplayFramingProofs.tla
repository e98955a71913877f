------------------------ MODULE NetplayFramingProofs ------------------------
(***************************************************************************)
(* A connection carries messages whole and in order, for every set of      *)
(* threads that send, whatever they send, and however TCP cuts the bytes.  *)
(* The inductive invariant says where in the bytes that have not been      *)
(* handled each message begins that has not been delivered.                *)
(***************************************************************************)
EXTENDS NetplayFraming, SequenceTheorems, TLAPS

-----------------------------------------------------------------------------
(* The bytes of a message *)

ByteSpace == MessageSpace \X Nat
Size(m) == 4 + m.text

LEMMA Assoc == \A s, t, u \in Seq(ByteSpace) : s \o (t \o u) = (s \o t) \o u
<1> SUFFICES ASSUME NEW s \in Seq(ByteSpace), NEW t \in Seq(ByteSpace),
                    NEW u \in Seq(ByteSpace)
             PROVE  s \o (t \o u) = (s \o t) \o u
  OBVIOUS
<1>1. (s \o t) \o u = s \o (t \o u)
  BY ConcatAssociative
<1> QED
  BY <1>1

LEMMA Joined ==
  ASSUME NEW S, NEW s \in Seq(S), NEW t \in Seq(S)
  PROVE  /\ s \o t \in Seq(S) /\ Len(s \o t) = Len(s) + Len(t)
         /\ Len(s) \in Nat /\ Len(t) \in Nat
         /\ \A j \in 1 .. Len(s) : (s \o t)[j] = s[j]
         /\ \A j \in 1 .. Len(t) : (s \o t)[Len(s) + j] = t[j]
         /\ \A j \in Len(s) + 1 .. Len(s) + Len(t) :
              j - Len(s) \in 1 .. Len(t) /\ (s \o t)[j] = t[j - Len(s)]
<1> DEFINE a == Len(s)
           b == Len(t)
           c == s \o t
<1>1. /\ c \in Seq(S) /\ Len(c) = a + b
      /\ \A j \in 1 .. a + b : c[j] = IF j <= a THEN s[j] ELSE t[j - a]
  BY ConcatProperties, Zenon
<1>2. a \in Nat /\ b \in Nat
  OBVIOUS
<1> HIDE DEF a, b, c
<1>3. \A j \in 1 .. a : c[j] = s[j]
  BY <1>1, <1>2
<1>4. ASSUME NEW j \in 1 .. b PROVE c[a + j] = t[j]
  <2>1. a + j \in 1 .. a + b /\ ~(a + j <= a) /\ (a + j) - a = j
    BY <1>2
  <2> QED
    BY <1>1, <2>1
<1>5. \A j \in a + 1 .. a + b : j - a \in 1 .. b /\ c[j] = t[j - a]
  BY <1>1, <1>2
<1> QED
  BY <1>1, <1>2, <1>3, <1>4, <1>5, Zenon DEF a, b, c

LEMMA BytesAre ==
  ASSUME NEW m \in MessageSpace
  PROVE  /\ Size(m) \in Nat /\ Size(m) >= 4 /\ m.text \in Nat
         /\ Word(m) \in Seq(ByteSpace) /\ Len(Word(m)) = 4
         /\ Text(m) \in Seq(ByteSpace) /\ Len(Text(m)) = m.text
         /\ Bytes(m) \in Seq(ByteSpace) /\ Len(Bytes(m)) = Size(m)
         /\ \A j \in 1 .. 4 : Word(m)[j] = <<m, j>>
         /\ \A j \in 1 .. Size(m) : Bytes(m)[j] = <<m, j>>
<1>1. m.text \in Nat
  BY DEF MessageSpace
<1>2. \A j \in Nat : <<m, j>> \in ByteSpace
  BY DEF ByteSpace
<1>3. /\ Word(m) \in Seq(ByteSpace) /\ Len(Word(m)) = 4
      /\ \A j \in 1 .. 4 : Word(m)[j] = <<m, j>>
  BY <1>2 DEF Word
<1>4. /\ Text(m) \in Seq(ByteSpace) /\ Len(Text(m)) = m.text
      /\ \A j \in 1 .. m.text : Text(m)[j] = <<m, 4 + j>>
  <2>1. \A j \in 1 .. m.text : <<m, 4 + j>> \in ByteSpace
    BY <1>1, <1>2
  <2> DEFINE k == m.text
             x == [i \in 1 .. k |-> <<m, 4 + i>>]
  <2>2. x \in [1 .. k -> ByteSpace] /\ k \in Nat
    BY <1>1, <2>1
  <2>3. \A j \in 1 .. k : x[j] = <<m, 4 + j>>
    OBVIOUS
  <2> HIDE DEF x, k
  <2>4. x \in Seq(ByteSpace)
    BY <2>2
  <2>5. Len(x) = k
    BY <2>2, <2>4, LenProperties
  <2> QED
    BY <2>3, <2>4, <2>5 DEF Text, x, k
<1>5. /\ Bytes(m) \in Seq(ByteSpace) /\ Len(Bytes(m)) = 4 + m.text
      /\ \A j \in 1 .. 4 : Bytes(m)[j] = Word(m)[j]
      /\ \A j \in 1 .. m.text : Bytes(m)[4 + j] = Text(m)[j]
  <2> DEFINE w == Word(m)
             x == Text(m)
  <2>1. w \in Seq(ByteSpace) /\ x \in Seq(ByteSpace)
    BY <1>3, <1>4
  <2>2. /\ w \o x \in Seq(ByteSpace) /\ Len(w \o x) = Len(w) + Len(x)
        /\ \A j \in 1 .. Len(w) : (w \o x)[j] = w[j]
        /\ \A j \in 1 .. Len(x) : (w \o x)[Len(w) + j] = x[j]
    <3> HIDE DEF w, x
    <3> QED
      BY <2>1, Joined
  <2>3. Len(w) = 4 /\ Len(x) = m.text /\ Bytes(m) = w \o x
    BY <1>3, <1>4 DEF Bytes
  <2> HIDE DEF w, x
  <2> QED
    BY <2>2, <2>3 DEF w, x
<1>6. ASSUME NEW j \in 1 .. 4 + m.text PROVE Bytes(m)[j] = <<m, j>>
  <2>1. CASE j <= 4
    BY <1>1, <1>3, <1>5, <2>1
  <2>2. CASE j > 4
    <3>1. j - 4 \in 1 .. m.text /\ 4 + (j - 4) = j
      BY <1>1, <2>2
    <3>2. Text(m)[j - 4] = <<m, 4 + (j - 4)>>
      BY <1>4, <3>1
    <3>3. Bytes(m)[4 + (j - 4)] = Text(m)[j - 4]
      BY <1>5, <3>1
    <3> QED
      BY <3>1, <3>2, <3>3
  <2> QED
    BY <1>1, <2>1, <2>2
<1> QED
  BY <1>1, <1>3, <1>4, <1>5, <1>6 DEF Size

-----------------------------------------------------------------------------
(* Messages in bytes *)

\* The bytes s are those of the messages of l after the first n, of which the
\* i-th ends at e[i].
Carries(s, l, n, e) ==
  /\ e[n] = 0 /\ e[Len(l)] = Len(s)
  /\ \A i, k \in n .. Len(l) : i <= k => e[i] <= e[k]
  /\ \A i \in n + 1 .. Len(l) :
       /\ e[i] = e[i - 1] + Size(l[i])
       /\ \A j \in 1 .. Size(l[i]) : s[e[i - 1] + j] = <<l[i], j>>

Carried(s, l, n) == \E e \in [n .. Len(l) -> Nat] : Carries(s, l, n, e)

\* A message that is sent follows the others.
LEMMA SentFollows ==
  ASSUME NEW s \in Seq(ByteSpace), NEW l \in Seq(MessageSpace),
         NEW n \in 0 .. Len(l), Carried(s, l, n), NEW m \in MessageSpace
  PROVE  Carried(s \o Bytes(m), Append(l, m), n)
<1> DEFINE L == Len(l)
           t == s \o Bytes(m)
           k == Append(l, m)
<1>1. PICK e \in [n .. L -> Nat] : Carries(s, l, n, e)
  BY DEF Carried
<1> DEFINE f == [i \in n .. L + 1 |-> IF i = L + 1 THEN Len(s) + Size(m)
                                                   ELSE e[i]]
<1>2. L \in Nat /\ Len(s) \in Nat /\ n \in Nat /\ n <= L
  OBVIOUS
<1>3. /\ Len(k) = L + 1 /\ k[L + 1] = m /\ \A i \in 1 .. L : k[i] = l[i]
  BY AppendProperties
<1>4. /\ Len(t) = Len(s) + Size(m)
      /\ \A j \in 1 .. Len(s) : t[j] = s[j]
      /\ \A j \in 1 .. Size(m) : t[Len(s) + j] = <<m, j>>
  <2> DEFINE x == Bytes(m)
  <2>1. /\ x \in Seq(ByteSpace) /\ Len(x) = Size(m)
        /\ \A j \in 1 .. Size(m) : x[j] = <<m, j>>
    BY BytesAre
  <2> HIDE DEF x
  <2>2. /\ Len(s \o x) = Len(s) + Len(x)
        /\ \A j \in 1 .. Len(s) : (s \o x)[j] = s[j]
        /\ \A j \in 1 .. Len(x) : (s \o x)[Len(s) + j] = x[j]
    BY <2>1, Joined
  <2>3. t = s \o x
    BY DEF x
  <2> HIDE DEF t
  <2> QED
    BY <2>1, <2>2, <2>3
<1> HIDE DEF L, t, k
<1>5. Size(m) \in Nat
  BY BytesAre
<1>6. /\ e[n] = 0 /\ e[L] = Len(s)
      /\ \A i, j \in n .. L : i <= j => e[i] <= e[j]
  BY <1>1 DEF Carries, L
<1>7. ASSUME NEW i \in n + 1 .. L
      PROVE  /\ i \in 1 .. L /\ i \in n .. L /\ i - 1 \in n .. L
             /\ e[i] = e[i - 1] + Size(l[i]) /\ Size(l[i]) \in Nat
             /\ e[i] <= Len(s)
             /\ \A j \in 1 .. Size(l[i]) : s[e[i - 1] + j] = <<l[i], j>>
  <2>1. i \in 1 .. L /\ i \in n .. L /\ i - 1 \in n .. L /\ L \in n .. L
    BY <1>2
  <2>2. l[i] \in MessageSpace
    BY <2>1 DEF L
  <2>3. e[i] <= e[L]
    BY <1>6, <2>1
  <2> QED
    BY <1>1, <1>6, <2>1, <2>2, <2>3, BytesAre DEF Carries, L
<1>8. f \in [n .. L + 1 -> Nat]
  BY <1>2, <1>5
<1>9. f[n] = 0 /\ f[L + 1] = Len(t)
  BY <1>2, <1>4, <1>6
<1>10. \A i, j \in n .. L + 1 : i <= j => f[i] <= f[j]
  <2>1. \A i \in n .. L : e[i] <= Len(s) /\ e[i] \in Nat
    BY <1>2, <1>6
  <2> QED
    BY <1>2, <1>5, <1>6, <2>1
<1>11. ASSUME NEW i \in n + 1 .. L + 1
       PROVE  /\ f[i] = f[i - 1] + Size(k[i])
              /\ \A j \in 1 .. Size(k[i]) : t[f[i - 1] + j] = <<k[i], j>>
  <2>1. CASE i = L + 1
    <3>1. k[i] = m /\ f[i] = Len(s) + Size(m) /\ f[i - 1] = Len(s)
      BY <1>2, <1>3, <1>6, <2>1
    <3> QED
      BY <1>4, <3>1
  <2>2. CASE i # L + 1
    <3>1. i \in n + 1 .. L
      BY <1>2, <2>2
    <3>2. k[i] = l[i] /\ f[i] = e[i] /\ f[i - 1] = e[i - 1]
      BY <1>2, <1>3, <1>7, <3>1
    <3>3. \A j \in 1 .. Size(l[i]) : e[i - 1] + j \in 1 .. Len(s)
      <4> DEFINE x == e[i - 1]
                 y == e[i]
                 z == Size(l[i])
      <4>1. y = x + z /\ z \in Nat /\ y <= Len(s) /\ x \in Nat
        BY <1>7, <3>1
      <4> HIDE DEF x, y, z
      <4>2. \A j \in 1 .. z : x + j \in 1 .. Len(s)
        BY <1>2, <4>1
      <4> QED
        BY <4>2 DEF x, z
    <3>4. \A j \in 1 .. Size(l[i]) : t[e[i - 1] + j] = <<l[i], j>>
      BY <1>4, <1>7, <3>1, <3>3
    <3> QED
      BY <1>7, <3>1, <3>2, <3>4
  <2> QED
    BY <2>1, <2>2
<1> HIDE DEF f
<1>12. Carries(t, k, n, f)
  BY <1>3, <1>9, <1>10, <1>11 DEF Carries
<1>13. f \in [n .. Len(k) -> Nat]
  BY <1>3, <1>8
<1> QED
  BY <1>12, <1>13 DEF Carried, t, k

\* Where there are bytes there is a message, and it begins there.
LEMMA FirstIsThere ==
  ASSUME NEW s \in Seq(ByteSpace), NEW l \in Seq(MessageSpace),
         NEW n \in 0 .. Len(l), Carried(s, l, n), Len(s) > 0
  PROVE  /\ n < Len(l) /\ n + 1 \in 1 .. Len(l) /\ l[n + 1] \in MessageSpace
         /\ Size(l[n + 1]) <= Len(s)
         /\ \A j \in 1 .. Size(l[n + 1]) : s[j] = <<l[n + 1], j>>
<1>1. PICK e \in [n .. Len(l) -> Nat] : Carries(s, l, n, e)
  BY DEF Carried
<1>2. /\ e[n] = 0 /\ e[Len(l)] = Len(s) /\ Len(l) \in Nat /\ n \in Nat
      /\ \A i, k \in n .. Len(l) : i <= k => e[i] <= e[k]
  BY <1>1 DEF Carries
<1>3. n < Len(l)
  BY <1>2
<1>4. n + 1 \in 1 .. Len(l) /\ l[n + 1] \in MessageSpace
  BY <1>2, <1>3
<1>5. n + 1 \in n + 1 .. Len(l) /\ (n + 1) - 1 = n
  BY <1>2, <1>3
<1>6. /\ e[n + 1] = 0 + Size(l[n + 1])
      /\ \A j \in 1 .. Size(l[n + 1]) : s[0 + j] = <<l[n + 1], j>>
  BY <1>1, <1>2, <1>5 DEF Carries
<1>7. e[n + 1] <= Len(s)
  BY <1>2, <1>3
<1>8. Size(l[n + 1]) \in Nat
  BY <1>4, BytesAre
<1>9. \A j \in 1 .. Size(l[n + 1]) : 0 + j = j
  BY <1>8
<1> QED
  BY <1>3, <1>4, <1>6, <1>7, <1>8, <1>9

\* When the first is taken away whole, the next begins.
LEMMA RestIsCarried ==
  ASSUME NEW a \in Seq(ByteSpace), NEW r \in Seq(ByteSpace),
         NEW l \in Seq(MessageSpace), NEW n \in 0 .. Len(l), n < Len(l),
         Carried(a \o r, l, n), Len(a) = Size(l[n + 1])
  PROVE  /\ a = Bytes(l[n + 1])
         /\ Carried(r, l, n + 1)
<1> DEFINE s == a \o r
           m == l[n + 1]
           z == Len(a)
<1>1. /\ s \in Seq(ByteSpace) /\ Len(s) = z + Len(r)
      /\ \A j \in 1 .. z : s[j] = a[j]
      /\ \A j \in z + 1 .. z + Len(r) : s[j] = r[j - z]
      /\ Len(r) \in Nat /\ z \in Nat /\ Len(l) \in Nat
  BY Joined
<1>2. m \in MessageSpace /\ z >= 4 /\ z = Size(m)
  <2>1. m \in MessageSpace
    OBVIOUS
  <2> QED
    BY <2>1, BytesAre
<1>3. PICK e \in [n .. Len(l) -> Nat] : Carries(s, l, n, e)
  BY DEF Carried
<1>4. a = Bytes(m)
  <2>1. /\ Bytes(m) \in Seq(ByteSpace) /\ Len(Bytes(m)) = z
        /\ \A j \in 1 .. z : Bytes(m)[j] = <<m, j>>
    BY <1>2, BytesAre
  <2>2. Len(s) > 0
    BY <1>1, <1>2
  <2>a. Carried(s, l, n)
    OBVIOUS
  <2>b. \A j \in 1 .. Size(m) : s[j] = <<m, j>>
    <3> HIDE DEF s
    <3> QED
      BY <1>1, <2>2, <2>a, FirstIsThere
  <2>3. \A j \in 1 .. z : a[j] = s[j] /\ s[j] = <<m, j>>
    BY <1>1, <1>2, <2>b
  <2> HIDE DEF s
  <2> QED
    BY <2>1, <2>2, <2>3, SeqEqual
<1> HIDE DEF s, z, m
<1>5. /\ e[n] = 0 /\ e[Len(l)] = Len(s) /\ e[n + 1] = z
      /\ \A i, k \in n .. Len(l) : i <= k => e[i] <= e[k]
  <2>1. n + 1 \in n + 1 .. Len(l) /\ (n + 1) - 1 = n
    BY <1>1
  <2>2. e[n + 1] = e[(n + 1) - 1] + Size(l[n + 1])
    BY <1>3, <2>1 DEF Carries
  <2>3. /\ e[n] = 0 /\ e[Len(l)] = Len(s)
        /\ \A i, k \in n .. Len(l) : i <= k => e[i] <= e[k]
    BY <1>3 DEF Carries
  <2> QED
    BY <1>1, <1>2, <2>1, <2>2, <2>3 DEF m
<1> DEFINE f == [i \in n + 1 .. Len(l) |-> e[i] - z]
<1>6. ASSUME NEW i \in n + 1 .. Len(l)
      PROVE  e[i] >= z /\ e[i] \in Nat /\ e[i] <= Len(s)
  <2>1. i \in n .. Len(l) /\ n + 1 \in n .. Len(l) /\ Len(l) \in n .. Len(l)
    BY <1>1
  <2>2. n + 1 <= i /\ i <= Len(l)
    BY <1>1
  <2>3. e[n + 1] <= e[i] /\ e[i] <= e[Len(l)]
    BY <1>5, <2>1, <2>2
  <2> QED
    BY <1>1, <1>5, <2>1, <2>3
<1>7. f \in [n + 1 .. Len(l) -> Nat]
  BY <1>1, <1>6
<1>8. f[n + 1] = 0 /\ f[Len(l)] = Len(r)
  BY <1>1, <1>5
<1>9. \A i, k \in n + 1 .. Len(l) : i <= k => f[i] <= f[k]
  <2>1. \A i \in n + 1 .. Len(l) : i \in n .. Len(l)
    BY <1>1
  <2>2. \A i, k \in n + 1 .. Len(l) : i <= k => e[i] <= e[k]
    BY <1>5, <2>1
  <2>3. \A i \in n + 1 .. Len(l) : e[i] \in Nat /\ f[i] = e[i] - z
    BY <1>6
  <2> HIDE DEF f
  <2> QED
    BY <1>1, <2>2, <2>3
<1>10. ASSUME NEW i \in (n + 1) + 1 .. Len(l)
       PROVE  /\ f[i] = f[i - 1] + Size(l[i])
              /\ \A j \in 1 .. Size(l[i]) : r[f[i - 1] + j] = <<l[i], j>>
  <2>1. /\ i \in n + 1 .. Len(l) /\ i - 1 \in n + 1 .. Len(l)
        /\ i \in 1 .. Len(l)
    BY <1>1
  <2>2. /\ e[i] = e[i - 1] + Size(l[i])
        /\ \A j \in 1 .. Size(l[i]) : s[e[i - 1] + j] = <<l[i], j>>
    BY <1>3, <2>1 DEF Carries
  <2>3. f[i] = e[i] - z /\ f[i - 1] = e[i - 1] - z
    BY <2>1
  <2>4. Size(l[i]) \in Nat
    <3>1. l[i] \in MessageSpace
      BY <2>1
    <3> QED
      BY <3>1, BytesAre
  <2>c. e[i] \in Nat /\ e[i - 1] \in Nat /\ e[i - 1] >= z /\ e[i] <= Len(s)
    BY <1>6, <2>1
  <2> HIDE DEF f
  <2>5. f[i] = f[i - 1] + Size(l[i])
    BY <1>1, <2>2, <2>3, <2>4, <2>c, SMTT(20)
  <2>6. ASSUME NEW j \in 1 .. Size(l[i])
        PROVE  r[f[i - 1] + j] = <<l[i], j>>
    <3> DEFINE p == e[i - 1] + j
    <3>1. p \in z + 1 .. z + Len(r) /\ p - z = f[i - 1] + j
      <4> DEFINE x == e[i - 1]
                 y == e[i]
                 k == Size(l[i])
      <4>1. /\ k \in Nat /\ j \in 1 .. k /\ y = x + k /\ x \in Nat /\ x >= z
            /\ y <= Len(s) /\ f[i - 1] = x - z /\ p = x + j
        BY <2>2, <2>3, <2>4, <2>c
      <4> HIDE DEF x, y, k, p
      <4> QED
        BY <1>1, <4>1
    <3>2. s[p] = r[p - z]
      BY <1>1, <3>1
    <3>3. s[p] = <<l[i], j>>
      BY <2>2
    <3> QED
      BY <3>1, <3>2, <3>3
  <2> QED
    BY <2>5, <2>6
<1> HIDE DEF f
<1>11. Carries(r, l, n + 1, f)
  BY <1>8, <1>9, <1>10 DEF Carries
<1>12. Carried(r, l, n + 1)
  BY <1>7, <1>11 DEF Carried
<1> QED
  BY <1>4, <1>12 DEF m

-----------------------------------------------------------------------------
(* The invariant *)

TypeInv ==
  /\ side \in Sides
  /\ unsent \in [Threads -> Seq(Sent)]
  /\ sending = Unlocked \/ \E m \in MessageSpace : sending = <<m>>
  /\ wire \in Seq(ByteSpace) /\ data \in Seq(ByteSpace)
  /\ text \in Seq(ByteSpace) /\ missing \in Nat
  /\ accepted \in Seq(Sent) /\ delivered \in Seq(Seq(ByteSpace))

\* The text that the thread with the mutex has still to send.
ToSend == IF sending = Unlocked THEN << >> ELSE Text(sending[1])

\* All bytes of messages that have been sent and not been handled.
Coming == (data \o text) \o (wire \o ToSend)

\* Bytes are only missing of the text that the word just read announces.
ReadInv ==
  /\ missing = 0 => text = << >>
  /\ missing > 0 =>
       /\ Len(data) = 4 /\ Len(delivered) < Len(accepted)
       /\ accepted[Len(delivered) + 1].text = Len(text) + missing

StreamInv == /\ Len(delivered) <= Len(accepted)
             /\ Carried(Coming, accepted, Len(delivered))

Inv == TypeInv /\ ReadInv /\ StreamInv

\* What a step does to the histories.
Sends == /\ \E m \in Sent : accepted' = Append(accepted, m)
         /\ UNCHANGED delivered
Delivers ==
  /\ Len(delivered) < Len(accepted)
  /\ delivered' = Append(delivered, Bytes(accepted[Len(delivered) + 1]))
  /\ UNCHANGED accepted
Rests == UNCHANGED <<accepted, delivered>>

LEMMA OutgoingIsSent ==
  /\ Sent \subseteq MessageSpace
  /\ \A s \in Sides : Outgoing[s] \in [Threads -> Seq(Sent)]
<1>1. ASSUME NEW s \in Sides, NEW t \in Threads
      PROVE  /\ Outgoing[s][t] \in Seq(MessageSpace)
             /\ Range(Outgoing[s][t]) \subseteq MessageSpace
             /\ Outgoing[s][t] \in Seq(Range(Outgoing[s][t]))
             /\ Range(Outgoing[s][t]) \subseteq Sent
  <2>1. Outgoing[s][t] \in Seq(MessageSpace)
    BY FramingAssumption
  <2>2. Range(Outgoing[s][t]) \in SUBSET MessageSpace
    BY <2>1, RangeOfSeq
  <2>3. Outgoing[s][t] \in Seq(Range(Outgoing[s][t]))
    BY <2>1, SeqOfRange
  <2>4. Range(Outgoing[s][t]) \subseteq Sent
    BY DEF Sent
  <2> QED
    BY <2>1, <2>2, <2>3, <2>4
<1>2. Sent \subseteq MessageSpace
  BY <1>1 DEF Sent
<1>3. ASSUME NEW s \in Sides, NEW t \in Threads
      PROVE  Outgoing[s][t] \in Seq(Sent)
  BY <1>1, SeqMonotonic
<1>4. \A s \in Sides : Outgoing[s] \in [Threads -> Seq(Sent)]
  BY <1>3, FramingAssumption
<1> QED
  BY <1>2, <1>4

LEMMA InitInv == Init => Inv
<1> SUFFICES ASSUME Init PROVE Inv
  OBVIOUS
<1>1. TypeInv
  BY OutgoingIsSent DEF Init, TypeInv
<1>2. ReadInv
  BY DEF Init, ReadInv
<1>3. Coming = << >> /\ Len(accepted) = 0 /\ Len(delivered) = 0
  <2>1. << >> \in Seq(ByteSpace)
    OBVIOUS
  <2>2. << >> \o << >> = << >>
    BY <2>1, ConcatEmptySeq
  <2> QED
    BY <2>2 DEF Init, Coming, ToSend
<1> DEFINE e == [i \in 0 .. 0 |-> 0]
<1>4. Carries(Coming, accepted, Len(delivered), e)
  BY <1>3 DEF Carries
<1>5. e \in [Len(delivered) .. Len(accepted) -> Nat]
  BY <1>3
<1> HIDE DEF e
<1>6. StreamInv
  BY <1>3, <1>4, <1>5 DEF StreamInv, Carried
<1> QED
  BY <1>1, <1>2, <1>6 DEF Inv

LEMMA ToSendType == ASSUME Inv PROVE ToSend \in Seq(ByteSpace)
<1>1. CASE sending = Unlocked
  BY <1>1 DEF ToSend
<1>2. CASE sending # Unlocked
  <2>1. PICK x \in MessageSpace : sending = <<x>>
    BY <1>2 DEF Inv, TypeInv
  <2>2. ToSend = Text(x)
    BY <1>2, <2>1 DEF ToSend
  <2> QED
    BY <2>2, BytesAre
<1> QED
  BY <1>1, <1>2

\* The messages and their bytes, in the terms of the lemmas on them.
LEMMA Unpacked ==
  ASSUME Inv
  PROVE  /\ accepted \in Seq(MessageSpace) /\ Len(accepted) \in Nat
         /\ Len(delivered) \in 0 .. Len(accepted)
         /\ Coming \in Seq(ByteSpace)
         /\ Carried(Coming, accepted, Len(delivered))
<1>1. accepted \in Seq(MessageSpace)
  BY OutgoingIsSent, SeqMonotonic DEF Inv, TypeInv
<1>2. Len(delivered) \in 0 .. Len(accepted) /\ Len(accepted) \in Nat
  BY DEF Inv, TypeInv, StreamInv
<1>3. data \o text \in Seq(ByteSpace) /\ wire \o ToSend \in Seq(ByteSpace)
  BY ToSendType, Joined DEF Inv, TypeInv
<1>4. Coming \in Seq(ByteSpace)
  BY <1>3, Joined DEF Coming
<1> QED
  BY <1>1, <1>2, <1>4 DEF Inv, StreamInv

-----------------------------------------------------------------------------
(* Sending *)

\* The bytes of the next message join those that come.
LEMMA Queues ==
  ASSUME Inv, NEW t \in Threads, unsent[t] # << >>,
         NEW m, m = Head(unsent[t]),
         accepted' = Append(accepted, m), Coming' = Coming \o Bytes(m),
         unsent' = [unsent EXCEPT ![t] = Tail(@)],
         wire' \in Seq(ByteSpace),
         sending' = Unlocked \/ sending' = <<m>>,
         UNCHANGED <<side, recvVars>>
  PROVE  Inv' /\ Sends
<1> USE DEF recvVars
<1>1. unsent[t] \in Seq(Sent)
  BY DEF Inv, TypeInv
<1>2. m \in Sent /\ Tail(unsent[t]) \in Seq(Sent)
  BY <1>1, HeadTailProperties
<1>3. m \in MessageSpace
  BY <1>2, OutgoingIsSent
<1>4. accepted \in Seq(Sent) /\ accepted \in Seq(MessageSpace)
  BY OutgoingIsSent, SeqMonotonic DEF Inv, TypeInv
<1>5. /\ accepted' \in Seq(Sent) /\ Len(accepted') = Len(accepted) + 1
      /\ \A i \in 1 .. Len(accepted) : accepted'[i] = accepted[i]
      /\ Len(accepted) \in Nat
  BY <1>2, <1>4, AppendProperties
<1>6. TypeInv'
  BY <1>2, <1>3, <1>5 DEF Inv, TypeInv
<1>7. ReadInv'
  <2>1. Len(delivered) \in Nat
    BY DEF Inv, TypeInv
  <2>2. CASE missing > 0
    <3>1. Len(delivered) + 1 \in 1 .. Len(accepted)
      BY <1>5, <2>1, <2>2 DEF Inv, ReadInv
    <3>2. accepted'[Len(delivered) + 1] = accepted[Len(delivered) + 1]
      BY <1>5, <3>1
    <3> QED
      BY <1>5, <2>1, <2>2, <3>2 DEF Inv, ReadInv
  <2>3. CASE ~(missing > 0)
    BY <2>3 DEF Inv, ReadInv
  <2> QED
    BY <2>2, <2>3
<1>8. StreamInv'
  <2>1. Carried(Coming \o Bytes(m), Append(accepted, m), Len(delivered))
    BY <1>3, Unpacked, SentFollows
  <2> QED
    BY <1>5, <2>1, Unpacked DEF StreamInv
<1> QED
  BY <1>2, <1>6, <1>7, <1>8 DEF Inv, Sends

LEMMA SendWordStep ==
  ASSUME Inv, NEW t \in Threads, SendWord(t)
  PROVE  Inv' /\ Sends
<1> DEFINE m == Head(unsent[t])
           d == data \o text
<1>1. unsent[t] # << >> /\ unsent[t] \in Seq(Sent)
  BY DEF SendWord, Inv, TypeInv
<1>2. m \in MessageSpace
  BY <1>1, OutgoingIsSent, HeadTailProperties
<1>3. /\ wire' = wire \o Bytes(m) /\ accepted' = Append(accepted, m)
      /\ unsent' = [unsent EXCEPT ![t] = Tail(@)]
      /\ UNCHANGED <<side, sending, recvVars>> /\ sending = Unlocked
  BY DEF SendWord
<1>4. /\ Bytes(m) \in Seq(ByteSpace) /\ d \in Seq(ByteSpace)
      /\ wire \in Seq(ByteSpace)
  BY <1>2, BytesAre, Joined DEF Inv, TypeInv
<1>5. wire' \in Seq(ByteSpace) /\ wire \o << >> = wire /\ wire' \o << >> = wire'
  BY <1>3, <1>4, Joined, ConcatEmptySeq
<1>6. Coming = d \o wire /\ Coming' = d \o wire'
  BY <1>3, <1>5 DEF Coming, ToSend, recvVars
<1> HIDE DEF m, d
<1>7. Coming' = Coming \o Bytes(m)
  BY <1>3, <1>4, <1>6, ConcatAssociative, SMTT(20)
<1> QED
  BY <1>1, <1>3, <1>5, <1>7, Queues DEF m

LEMMA StartTextStep ==
  ASSUME Inv, NEW t \in Threads, StartText(t)
  PROVE  Inv' /\ Sends
<1> DEFINE m == Head(unsent[t])
           d == data \o text
<1>1. unsent[t] # << >> /\ unsent[t] \in Seq(Sent)
  BY DEF StartText, Inv, TypeInv
<1>2. m \in MessageSpace
  BY <1>1, OutgoingIsSent, HeadTailProperties
<1>3. /\ wire' = wire \o Word(m) /\ accepted' = Append(accepted, m)
      /\ unsent' = [unsent EXCEPT ![t] = Tail(@)] /\ sending' = <<m>>
      /\ UNCHANGED <<side, recvVars>> /\ sending = Unlocked
  BY DEF StartText
<1>4. /\ Bytes(m) \in Seq(ByteSpace) /\ Word(m) \in Seq(ByteSpace)
      /\ Text(m) \in Seq(ByteSpace) /\ d \in Seq(ByteSpace)
      /\ wire \in Seq(ByteSpace)
  BY <1>2, BytesAre, Joined DEF Inv, TypeInv
<1>5. wire' \in Seq(ByteSpace) /\ wire \o << >> = wire
  BY <1>3, <1>4, Joined, ConcatEmptySeq
<1>6. Coming = d \o wire /\ Coming' = d \o (wire' \o Text(m))
  BY <1>3, <1>5 DEF Coming, ToSend, recvVars, Unlocked
<1> HIDE DEF m, d
<1>7. wire' \o Text(m) = wire \o Bytes(m)
  BY <1>3, <1>4, ConcatAssociative, SMTT(20) DEF Bytes
<1>8. d \o (wire \o Bytes(m)) = (d \o wire) \o Bytes(m)
  BY <1>4, Assoc, Zenon
<1>9. Coming' = Coming \o Bytes(m)
  BY <1>6, <1>7, <1>8
<1> QED
  BY <1>1, <1>3, <1>5, <1>9, Queues DEF m

\* The text follows its word: nothing else has been sent in between.
LEMMA EndTextStep ==
  ASSUME Inv, EndText
  PROVE  Inv' /\ Rests
<1>1. PICK m \in MessageSpace : sending = <<m>>
  BY DEF EndText, Inv, TypeInv
<1>2. /\ wire' = wire \o Text(m) /\ sending' = Unlocked
      /\ UNCHANGED <<side, unsent, accepted, recvVars>> /\ ToSend = Text(m)
  BY <1>1 DEF EndText, ToSend
<1>3. Text(m) \in Seq(ByteSpace) /\ wire \in Seq(ByteSpace)
  BY BytesAre DEF Inv, TypeInv
<1>4. wire' \in Seq(ByteSpace) /\ wire' \o << >> = wire'
  BY <1>2, <1>3, Joined, ConcatEmptySeq
<1>5. ToSend' = << >>
  BY <1>2 DEF ToSend
<1>6. Coming' = Coming
  BY <1>2, <1>4, <1>5 DEF Coming, recvVars
<1>7. TypeInv'
  BY <1>2, <1>4 DEF Inv, TypeInv, recvVars
<1>8. ReadInv' /\ StreamInv'
  BY <1>2, <1>6 DEF Inv, ReadInv, StreamInv, recvVars
<1> QED
  BY <1>2, <1>7, <1>8 DEF Inv, Rests, recvVars

-----------------------------------------------------------------------------
(* Receiving *)

\* What recv takes is the beginning of what is there.
LEMMA Taken ==
  ASSUME Inv, NEW k \in Nat, NEW n, Takes(k, n)
  PROVE  /\ First(k) \in Seq(ByteSpace) /\ Len(First(k)) = k
         /\ wire' \in Seq(ByteSpace) /\ wire = First(k) \o wire'
<1>1. /\ wire \in Seq(ByteSpace) /\ k \in 1 .. Len(wire)
      /\ wire' = SubSeq(wire, k + 1, Len(wire)) /\ Len(wire) \in Nat
  BY DEF Takes, Inv, TypeInv
<1>2. \A i \in 1 .. Len(wire) : wire[i] \in ByteSpace
  BY <1>1
<1>3. First(k) \in Seq(ByteSpace) /\ Len(First(k)) = k
  <2>1. 1 \in Int /\ k \in Int /\ \A i \in 1 .. k : wire[i] \in ByteSpace
    BY <1>1, <1>2
  <2> QED
    BY <1>1, <2>1, SubSeqProperties DEF First
<1>4. wire' \in Seq(ByteSpace)
  <2>1. \A i \in k + 1 .. Len(wire) : wire[i] \in ByteSpace
    BY <1>1, <1>2
  <2> QED
    BY <1>1, <2>1, SubSeqProperties
<1>5. First(k) \o wire' = SubSeq(wire, 1, Len(wire))
  <2>1. /\ 1 \in 1 .. Len(wire) + 1 /\ k \in 1 - 1 .. Len(wire)
        /\ Len(wire) \in k .. Len(wire)
    BY <1>1
  <2> QED
    BY <1>1, <2>1, ConcatAdjacentSubSeq DEF First
<1>6. SubSeq(wire, 1, Len(wire)) = wire
  BY <1>1, SubSeqFull
<1> QED
  BY <1>3, <1>4, <1>5, <1>6

\* A message has been read whole: it is the next one.
LEMMA Handles ==
  ASSUME Inv, NEW a \in Seq(ByteSpace), NEW r \in Seq(ByteSpace),
         Coming = a \o r, Coming' = r,
         Len(delivered) < Len(accepted),
         Len(a) = Size(accepted[Len(delivered) + 1]),
         delivered' = Append(delivered, a),
         data' = << >>, text' = << >>, missing' = 0,
         wire' \in Seq(ByteSpace), UNCHANGED sendVars
  PROVE  Inv' /\ Delivers
<1> USE DEF sendVars
<1>1. /\ Carried(a \o r, accepted, Len(delivered))
      /\ accepted \in Seq(MessageSpace)
      /\ Len(delivered) \in 0 .. Len(accepted)
  BY Unpacked
<1>2. /\ a = Bytes(accepted[Len(delivered) + 1])
      /\ Carried(r, accepted, Len(delivered) + 1)
  BY <1>1, RestIsCarried
<1>3. /\ delivered' \in Seq(Seq(ByteSpace))
      /\ Len(delivered') = Len(delivered) + 1
  <2>1. delivered \in Seq(Seq(ByteSpace))
    BY DEF Inv, TypeInv
  <2> QED
    BY <2>1, AppendProperties
<1>4. TypeInv'
  <2>1. << >> \in Seq(ByteSpace)
    OBVIOUS
  <2> QED
    BY <1>3, <2>1 DEF Inv, TypeInv
<1>5. ReadInv'
  BY DEF ReadInv
<1>6. StreamInv'
  BY <1>1, <1>2, <1>3 DEF StreamInv
<1> QED
  BY <1>2, <1>4, <1>5, <1>6 DEF Inv, Delivers

\* Some bytes of a word have come, or all four of them.
LEMMA WordStep ==
  ASSUME Inv, missing = 0, NEW k \in 1 .. 4, NEW n, Takes(k, n),
         NEW w, w = data \o First(k), UNCHANGED <<sendVars, text>>,
         \/ /\ Len(w) = 4 /\ HandleWord(w)
            /\ data' = IF missing' > 0 THEN w ELSE << >>
         \/ data' = w /\ UNCHANGED <<delivered, missing>>
  PROVE  Inv' /\ (Delivers \/ Rests)
<1> USE DEF sendVars
<1>1. /\ First(k) \in Seq(ByteSpace) /\ Len(First(k)) = k
      /\ wire' \in Seq(ByteSpace) /\ wire = First(k) \o wire'
      /\ data \in Seq(ByteSpace) /\ text = << >>
  BY Taken DEF Inv, TypeInv, ReadInv
<1> DEFINE r == wire' \o ToSend
<1>2. /\ w \in Seq(ByteSpace) /\ r \in Seq(ByteSpace)
      /\ Len(w) = Len(data) + k
  BY <1>1, ToSendType, Joined
<1>3. ToSend' = ToSend /\ text' = << >>
  BY <1>1 DEF ToSend
<1>4. Coming = w \o r
  <2>1. data \o text = data
    BY <1>1, ConcatEmptySeq
  <2>2. wire \o ToSend = First(k) \o r
    BY <1>1, ToSendType, Assoc, Zenon
  <2>3. data \o (First(k) \o r) = (data \o First(k)) \o r
    BY <1>1, <1>2, Assoc, Zenon
  <2> HIDE DEF r
  <2> QED
    BY <2>1, <2>2, <2>3 DEF Coming
<1>5. ASSUME data' = w PROVE Coming' = Coming
  <2>1. w \o << >> = w
    BY <1>2, ConcatEmptySeq
  <2> QED
    BY <1>3, <1>4, <1>5, <2>1 DEF Coming
<1>6. ASSUME data' = w, UNCHANGED <<delivered, missing>>
      PROVE  Inv' /\ Rests
  <2>1. TypeInv'
    BY <1>1, <1>2, <1>3, <1>6 DEF Inv, TypeInv
  <2>2. ReadInv' /\ StreamInv'
    BY <1>3, <1>5, <1>6 DEF Inv, ReadInv, StreamInv
  <2> QED
    BY <1>6, <2>1, <2>2 DEF Inv, Rests
<1>7. ASSUME Len(w) = 4, HandleWord(w),
             data' = IF missing' > 0 THEN w ELSE << >>
      PROVE  Inv' /\ (Delivers \/ Rests)
  <2> DEFINE m == accepted[Len(delivered) + 1]
  <2>1. Len(Coming) > 0
    <3>1. Len(w \o r) = Len(w) + Len(r) /\ Len(r) \in Nat
      BY <1>2, Joined
    <3> QED
      BY <1>4, <1>7, <3>1
  <2>2. /\ Len(delivered) < Len(accepted) /\ m \in MessageSpace
        /\ \A j \in 1 .. Size(m) : Coming[j] = <<m, j>>
    BY <2>1, Unpacked, FirstIsThere
  <2>3. Size(m) = 4 + m.text /\ m.text \in Nat
    BY <2>2, BytesAre DEF Size
  <2>4. \A j \in 1 .. 4 : w[j] = <<m, j>>
    <3>1. \A j \in 1 .. 4 : (w \o r)[j] = w[j]
      BY <1>2, <1>7, Joined
    <3>2. \A j \in 1 .. 4 : Coming[j] = <<m, j>>
      BY <2>2, <2>3
    <3> QED
      BY <1>4, <3>1, <3>2
  <2> HIDE DEF m
  <2>5. AnnouncedText(w) = m.text
    <3>a. 1 \in 1 .. 4
      OBVIOUS
    <3>1. w[1] = <<m, 1>>
      BY <2>4, <3>a, Zenon
    <3>2. w[1][1] = m
      BY <3>1
    <3>3. \A i \in 1 .. 4 : w[i] = <<w[1][1], i>>
      BY <2>4, <3>2, Zenon
    <3>4. AnnouncedText(w) = w[1][1].text
      BY <3>3, Zenon DEF AnnouncedText
    <3> QED
      BY <3>2, <3>4, Zenon
  <2>6. CASE m.text = 0
    <3>1. delivered' = Append(delivered, w) /\ missing' = 0
      BY <1>7, <2>5, <2>6 DEF HandleWord
    <3>2. data' = << >>
      BY <1>7, <3>1
    <3>3. Coming' = r
      <4>1. << >> \o << >> = << >> /\ << >> \o r = r
        BY <1>2, ConcatEmptySeq
      <4> QED
        BY <1>3, <3>2, <4>1 DEF Coming
    <3>4. Len(w) = Size(m)
      BY <1>7, <2>3, <2>6
    <3> HIDE DEF r
    <3> QED
      BY <1>1, <1>2, <1>3, <1>4, <2>2, <3>1, <3>2, <3>3, <3>4, Handles DEF m
  <2>7. CASE m.text # 0
    <3>1. missing' = m.text /\ delivered' = delivered /\ missing' > 0
      BY <1>7, <2>3, <2>5, <2>7 DEF HandleWord
    <3>2. data' = w
      BY <1>7, <3>1
    <3>3. TypeInv'
      BY <1>1, <1>2, <1>3, <2>3, <3>1, <3>2 DEF Inv, TypeInv
    <3>4. ReadInv'
      BY <1>3, <1>7, <2>2, <2>3, <3>1, <3>2 DEF ReadInv, m
    <3>5. StreamInv'
      BY <1>5, <3>1, <3>2 DEF Inv, StreamInv
    <3> QED
      BY <3>1, <3>3, <3>4, <3>5 DEF Inv, Rests
  <2> QED
    BY <2>6, <2>7
<1> QED
  BY <1>6, <1>7

\* Some bytes of a text have come, or all that were missing.
LEMMA TextStep ==
  ASSUME Inv, missing > 0, ReadText
  PROVE  Inv' /\ (Delivers \/ Rests)
<1> USE DEF sendVars
<1>1. PICK k \in 1 .. missing :
        /\ Takes(k, missing) /\ missing' = missing - k
        /\ IF k = missing
           THEN /\ delivered' = Append(delivered, data \o text \o First(k))
                /\ data' = << >> /\ text' = << >>
           ELSE /\ text' = text \o First(k)
                /\ UNCHANGED <<data, delivered>>
        /\ UNCHANGED <<sendVars, closed>>
  BY DEF ReadText
<1>2. missing \in Nat /\ k \in Nat
  BY DEF Inv, TypeInv
<1>3. /\ First(k) \in Seq(ByteSpace) /\ Len(First(k)) = k
      /\ wire' \in Seq(ByteSpace) /\ wire = First(k) \o wire'
      /\ data \in Seq(ByteSpace) /\ text \in Seq(ByteSpace)
  BY <1>1, <1>2, Taken DEF Inv, TypeInv
<1> DEFINE r == wire' \o ToSend
           d == data \o text
           x == text \o First(k)
<1>4. /\ d \in Seq(ByteSpace) /\ Len(d) = Len(data) + Len(text)
      /\ r \in Seq(ByteSpace) /\ Len(x) = Len(text) + k
      /\ x \in Seq(ByteSpace) /\ Len(text) \in Nat
  BY <1>3, ToSendType, Joined
<1>5. ToSend' = ToSend
  BY <1>1 DEF ToSend
<1>6. wire \o ToSend = First(k) \o r
  BY <1>3, ToSendType, Assoc, ZenonT(20)
<1>7. d \o First(k) \in Seq(ByteSpace) /\ Len(d \o First(k)) = Len(d) + k
  <2> HIDE DEF d
  <2>1. d \in Seq(ByteSpace) /\ First(k) \in Seq(ByteSpace)
    BY <1>3, <1>4
  <2>2. Len(d \o First(k)) = Len(d) + Len(First(k))
    BY <2>1, Joined
  <2>3. d \o First(k) \in Seq(ByteSpace)
    BY <2>1, Joined
  <2> QED
    BY <1>3, <2>2, <2>3
<1>8. Coming = (d \o First(k)) \o r
  <2>1. Coming = d \o (First(k) \o r)
    BY <1>6 DEF Coming
  <2> HIDE DEF d, r
  <2>a. /\ d \in Seq(ByteSpace) /\ First(k) \in Seq(ByteSpace)
        /\ r \in Seq(ByteSpace)
    BY <1>3, <1>4
  <2>2. d \o (First(k) \o r) = (d \o First(k)) \o r
    BY <2>a, Assoc, Zenon
  <2> QED
    BY <2>1, <2>2
<1>9. CASE k = missing
  <2>1. /\ delivered' = Append(delivered, d \o First(k))
        /\ data' = << >> /\ text' = << >> /\ missing' = 0
    BY <1>1, <1>2, <1>9
  <2>2. Coming' = r
    <3>1. << >> \o << >> = << >> /\ << >> \o r = r
      BY <1>4, ConcatEmptySeq
    <3> QED
      BY <1>5, <2>1, <3>1 DEF Coming
  <2>3. /\ Len(delivered) < Len(accepted)
        /\ Len(d \o First(k)) = Size(accepted[Len(delivered) + 1])
    <3>1. /\ Len(data) = 4 /\ Len(delivered) < Len(accepted)
          /\ accepted[Len(delivered) + 1].text = Len(text) + missing
      BY DEF Inv, ReadInv
    <3>2. Len(d \o First(k)) = (4 + Len(text)) + missing
      BY <1>4, <1>7, <1>9, <3>1
    <3> HIDE DEF d
    <3> QED
      BY <1>2, <1>4, <3>1, <3>2 DEF Size
  <2>4. UNCHANGED sendVars
    BY <1>1
  <2> HIDE DEF d, r
  <2> QED
    BY <1>3, <1>4, <1>7, <1>8, <2>1, <2>2, <2>3, <2>4, Handles
<1>10. CASE k # missing
  <2>1. /\ text' = x /\ UNCHANGED <<data, delivered>>
        /\ missing' \in Nat /\ missing' > 0 /\ missing' = missing - k
    BY <1>1, <1>2, <1>10
  <2>2. Coming' = Coming
    <3>1. data \o x = d \o First(k)
      BY <1>3, Assoc, Zenon
    <3> QED
      BY <1>5, <1>8, <2>1, <3>1 DEF Coming
  <2>3. TypeInv'
    BY <1>1, <1>3, <1>4, <2>1 DEF Inv, TypeInv
  <2>4. ReadInv'
    <3>1. Len(text') = Len(text) + k
      BY <1>4, <2>1
    <3>2. /\ Len(data') = 4 /\ Len(delivered') < Len(accepted')
          /\ accepted'[Len(delivered') + 1].text = Len(text) + missing
      BY <1>1, <2>1 DEF Inv, ReadInv
    <3>a. missing' = missing - k
      BY <2>1
    <3>b. Len(text) \in Nat /\ missing \in Nat /\ k \in Nat
      BY <1>2, <1>4
    <3> HIDE DEF x
    <3>3. Len(text) + missing = Len(text') + missing'
      BY <3>1, <3>a, <3>b
    <3> QED
      BY <2>1, <3>2, <3>3 DEF ReadInv
  <2>5. StreamInv'
    BY <1>1, <2>1, <2>2 DEF Inv, StreamInv
  <2> QED
    BY <1>1, <2>1, <2>3, <2>4, <2>5 DEF Inv, Rests
<1> QED
  BY <1>9, <1>10

LEMMA ReceiveStep ==
  ASSUME Inv, Receive
  PROVE  Inv' /\ (Delivers \/ Rests)
<1>1. CASE missing > 0 /\ ReadText
  BY <1>1, TextStep
<1>2. CASE missing = 0 /\ ServerReadsWord
  <2>1. PICK k \in 1 .. 4 :
          /\ Takes(k, 4 - Len(data))
          /\ IF Len(data) + k = 4
             THEN /\ HandleWord(data \o First(k))
                  /\ data' = IF missing' > 0 THEN data \o First(k) ELSE << >>
             ELSE data' = data \o First(k) /\ UNCHANGED <<delivered, missing>>
          /\ UNCHANGED <<sendVars, text, closed>>
    BY <1>2 DEF ServerReadsWord
  <2>2. /\ First(k) \in Seq(ByteSpace) /\ Len(First(k)) = k
        /\ data \in Seq(ByteSpace)
    BY <2>1, Taken DEF Inv, TypeInv
  <2>3. Len(data \o First(k)) = Len(data) + k
    BY <2>2, Joined
  <2> QED
    BY <1>2, <2>1, <2>3, WordStep
<1>3. CASE missing = 0 /\ EmulatorReadsWord
  <2>1. CASE /\ closed' = TRUE
             /\ UNCHANGED <<sendVars, wire, data, text, missing, delivered>>
    <3>1. Coming' = Coming
      BY <2>1 DEF Coming, ToSend, sendVars
    <3> QED
      BY <2>1, <3>1 DEF Inv, TypeInv, ReadInv, StreamInv, Rests, sendVars
  <2>2. ASSUME NEW k \in 1 .. 4, Takes(k, 4 - Len(data)),
               IF k = 4
               THEN /\ HandleWord(First(k))
                    /\ data' = IF missing' > 0 THEN First(k) ELSE << >>
               ELSE /\ data' = data \o First(k)
                    /\ UNCHANGED <<delivered, missing>>,
               UNCHANGED <<sendVars, text, closed>>
        PROVE  Inv' /\ (Delivers \/ Rests)
    <3>1. /\ First(k) \in Seq(ByteSpace) /\ Len(First(k)) = k
          /\ data \in Seq(ByteSpace)
      BY <2>2, Taken DEF Inv, TypeInv
    <3>2. CASE k = 4
      <4> DEFINE w == First(k)
      <4>1. Len(data) = 0
        BY <2>2, <3>1, <3>2 DEF Takes
      <4>2. data = << >>
        BY <3>1, <4>1
      <4>3. w = data \o First(k)
        BY <3>1, <4>2, ConcatEmptySeq
      <4>4. /\ Len(w) = 4 /\ HandleWord(w)
            /\ data' = IF missing' > 0 THEN w ELSE << >>
        BY <2>2, <3>1, <3>2
      <4> HIDE DEF w
      <4> QED
        BY <1>3, <2>2, <4>3, <4>4, WordStep
    <3>3. CASE k # 4
      BY <1>3, <2>2, <3>3, WordStep
    <3> QED
      BY <3>2, <3>3
  <2> QED
    BY <1>3, <2>1, <2>2 DEF EmulatorReadsWord
<1> QED
  BY <1>1, <1>2, <1>3 DEF Receive

LEMMA Step ==
  ASSUME Inv, Next \/ UNCHANGED vars
  PROVE  Inv' /\ (Sends \/ Delivers \/ Rests)
<1>1. CASE UNCHANGED vars
  <2>1. Coming' = Coming
    BY <1>1 DEF Coming, ToSend, vars, sendVars, recvVars
  <2> QED
    BY <1>1, <2>1 DEF Inv, TypeInv, ReadInv, StreamInv, Rests, vars, sendVars,
       recvVars
<1>2. ASSUME NEW t \in Threads, SendWord(t) PROVE Inv' /\ Sends
  BY <1>2, SendWordStep
<1>3. ASSUME NEW t \in Threads, StartText(t) PROVE Inv' /\ Sends
  BY <1>3, StartTextStep
<1> QED
  BY <1>1, <1>2, <1>3, EndTextStep, ReceiveStep DEF Next

-----------------------------------------------------------------------------
(* The stream of messages *)

LEMMA StepStream ==
  ASSUME Inv, Sends \/ Delivers \/ Rests
  PROVE  Stream!Next \/ UNCHANGED <<AsBytes, delivered>>
<1>1. /\ accepted \in Seq(MessageSpace) /\ Len(accepted) \in Nat
      /\ Len(delivered) \in 0 .. Len(accepted)
  BY Unpacked
<1>2. /\ AsBytes \in Seq(Seq(ByteSpace)) /\ Len(AsBytes) = Len(accepted)
      /\ \A i \in 1 .. Len(accepted) : AsBytes[i] = Bytes(accepted[i])
  <2>1. \A i \in 1 .. Len(accepted) : Bytes(accepted[i]) \in Seq(ByteSpace)
    BY <1>1, BytesAre, SMTT(20)
  <2> DEFINE T == Seq(ByteSpace)
  <2>2. \A i \in 1 .. Len(accepted) : Bytes(accepted[i]) \in T
    BY <2>1
  <2> HIDE DEF T
  <2>3. AsBytes \in Seq(T) /\ Len(AsBytes) = Len(accepted)
    BY <1>1, <2>2 DEF AsBytes
  <2> QED
    BY <2>3 DEF AsBytes, T
<1>3. ASSUME Sends PROVE Stream!Send
  <2>1. PICK m \in Sent : accepted' = Append(accepted, m)
    BY <1>3 DEF Sends
  <2>2. m \in MessageSpace
    BY OutgoingIsSent
  <2>3. /\ Len(accepted') = Len(accepted) + 1
        /\ accepted'[Len(accepted) + 1] = m
        /\ \A i \in 1 .. Len(accepted) : accepted'[i] = accepted[i]
    BY <1>1, <2>1, <2>2, AppendProperties
  <2> DEFINE T == Seq(ByteSpace)
             B == Append(AsBytes, Bytes(m))
             n == Len(accepted) + 1
  <2>4. /\ B \in Seq(T) /\ Len(B) = n /\ B[n] = Bytes(m)
        /\ \A i \in 1 .. Len(accepted) : B[i] = AsBytes[i]
    <3>1. Bytes(m) \in T /\ AsBytes \in Seq(T)
      BY <1>2, <2>2, BytesAre
    <3> HIDE DEF T
    <3> QED
      BY <1>2, <3>1, AppendProperties
  <2>5. AsBytes' = [i \in 1 .. n |-> Bytes(accepted'[i])]
    BY <2>3 DEF AsBytes
  <2>6. ASSUME NEW i \in 1 .. n PROVE B[i] = Bytes(accepted'[i])
    <3>1. i = n \/ i \in 1 .. Len(accepted)
      BY <1>1
    <3> HIDE DEF B
    <3> QED
      BY <1>2, <2>3, <2>4, <3>1
  <2>7. B = [i \in 1 .. n |-> B[i]]
    <3> HIDE DEF B, T
    <3> QED
      BY <2>4
  <2>8. AsBytes' = B
    <3> HIDE DEF B
    <3> QED
      BY <2>5, <2>6, <2>7
  <2>9. Bytes(m) \in {Bytes(x) : x \in Sent}
    OBVIOUS
  <2>10. AsBytes' = Append(AsBytes, Bytes(m)) /\ delivered' = delivered
    BY <1>3, <2>8 DEF Sends
  <2> HIDE DEF B
  <2> QED
    BY <2>9, <2>10 DEF Stream!Send
<1>4. ASSUME Delivers PROVE Stream!Deliver
  <2>1. Len(delivered) + 1 \in 1 .. Len(accepted)
    BY <1>1, <1>4 DEF Delivers
  <2>2. AsBytes[Len(delivered) + 1] = Bytes(accepted[Len(delivered) + 1])
    BY <1>2, <2>1
  <2>3. AsBytes' = AsBytes
    BY <1>4 DEF Delivers, AsBytes
  <2> QED
    BY <1>2, <1>4, <2>2, <2>3 DEF Delivers, Stream!Deliver
<1>5. ASSUME Rests PROVE UNCHANGED <<AsBytes, delivered>>
  BY <1>5 DEF Rests, AsBytes
<1> QED
  BY <1>3, <1>4, <1>5 DEF Stream!Next

\* However many threads send, whatever they send, and however the bytes are cut
\* on their way, the receiver handles the messages whole, once each, and in the
\* order in which the mutex let them be sent.
THEOREM WholeAndInOrder == Spec => StreamRefinement
<1>1. Inv /\ [Next]_vars => Inv' /\ (Sends \/ Delivers \/ Rests)
  BY Step
<1>2. Inv /\ [Next]_vars => [Stream!Next]_<<AsBytes, delivered>>
  BY <1>1, StepStream
<1>3. Init => Stream!Init
  <2>1. [i \in 1 .. 0 |-> Bytes(accepted[i])] = << >>
    OBVIOUS
  <2> QED
    BY <2>1 DEF Init, Stream!Init, AsBytes
<1> QED
  BY <1>1, <1>2, <1>3, InitInv, PTL DEF Spec, StreamRefinement, Stream!Spec
=============================================================================
