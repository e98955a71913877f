--------------------------- MODULE FilesysProofs ---------------------------
(***************************************************************************)
(* What holds of the file systems for every number of units and packets,   *)
(* every limit on the packets under way, and however often the Amiga is    *)
(* reset, in the interrupt server too.                                     *)
(***************************************************************************)
EXTENDS FilesysHandler, SequenceTheorems, FiniteSetTheorems, TLAPS

-----------------------------------------------------------------------------
(* Sequences in which some elements are at most once *)

OnceEach(S, s) ==
  \A i, j \in DOMAIN s : s[i] \in S /\ s[i] = s[j] => i = j

LEMMA Nothing == ToSet(<< >>) = {} /\ \A S : OnceEach(S, << >>)
  BY DEF ToSet, OnceEach

LEMMA Member ==
  ASSUME NEW T, NEW s \in Seq(T), NEW x
  PROVE  x \in ToSet(s) <=> \E i \in 1 .. Len(s) : s[i] = x
  BY DEF ToSet

LEMMA MembersAreOf ==
  ASSUME NEW T, NEW s \in Seq(T)
  PROVE  ToSet(s) \subseteq T
  BY DEF ToSet

LEMMA AppendMembers ==
  ASSUME NEW T, NEW s \in Seq(T), NEW m \in T
  PROVE  /\ Append(s, m) \in Seq(T) /\ Len(Append(s, m)) = Len(s) + 1
         /\ ToSet(Append(s, m)) = ToSet(s) \cup {m}
         /\ \A S : OnceEach(S, s) /\ (m \in S => m \notin ToSet(s))
                     => OnceEach(S, Append(s, m))
<1> DEFINE a == Append(s, m)
<1>1. /\ a \in Seq(T) /\ Len(a) = Len(s) + 1 /\ a[Len(s) + 1] = m
      /\ \A i \in 1 .. Len(s) : a[i] = s[i]
  BY AppendProperties
<1>2. Len(s) \in Nat
  OBVIOUS
<1> HIDE DEF a
<1>3. \A i \in 1 .. Len(a) : i \in 1 .. Len(s) \/ i = Len(s) + 1
  BY <1>1, <1>2
<1>4. \A i \in 1 .. Len(s) : i \in 1 .. Len(a)
  BY <1>1, <1>2
<1>5. Len(s) + 1 \in 1 .. Len(a)
  BY <1>1, <1>2
<1>6. ASSUME NEW x
      PROVE  x \in ToSet(a) <=> x \in ToSet(s) \/ x = m
  <2>1. x \in ToSet(a) <=> \E i \in 1 .. Len(a) : a[i] = x
    BY <1>1, Member
  <2>2. x \in ToSet(s) <=> \E i \in 1 .. Len(s) : s[i] = x
    BY Member
  <2> QED
    BY <1>1, <1>3, <1>4, <1>5, <2>1, <2>2
<1>7. ASSUME NEW S, OnceEach(S, s), m \in S => m \notin ToSet(s)
      PROVE  OnceEach(S, a)
  <2>1. DOMAIN a = 1 .. Len(a) /\ DOMAIN s = 1 .. Len(s)
    BY <1>1
  <2>2. m \in S => \A i \in 1 .. Len(s) : s[i] # m
    BY <1>7, Member
  <2>3. \A i, j \in 1 .. Len(s) : s[i] \in S /\ s[i] = s[j] => i = j
    BY <1>7, <2>1 DEF OnceEach
  <2>4. \A i, j \in 1 .. Len(a) : a[i] \in S /\ a[i] = a[j] => i = j
    BY <1>1, <1>3, <2>2, <2>3
  <2> QED
    BY <2>1, <2>4 DEF OnceEach
<1> QED
  BY <1>1, <1>6, <1>7 DEF a

LEMMA TailMembers ==
  ASSUME NEW T, NEW s \in Seq(T), s # << >>
  PROVE  /\ Head(s) \in T /\ Tail(s) \in Seq(T) /\ Len(Tail(s)) = Len(s) - 1
         /\ ToSet(s) = {Head(s)} \cup ToSet(Tail(s))
         /\ \A S : OnceEach(S, s) =>
              /\ OnceEach(S, Tail(s))
              /\ Head(s) \in S => Head(s) \notin ToSet(Tail(s))
<1> DEFINE h == Head(s)
           r == Tail(s)
<1>1. /\ r \in Seq(T) /\ Len(r) = Len(s) - 1
      /\ \A i \in 1 .. Len(r) : r[i] = s[i + 1]
  BY HeadTailProperties
<1>2. Len(s) \in Nat \ {0} /\ h = s[1] /\ h \in T
  OBVIOUS
<1> HIDE DEF h, r
<1>3. \A i \in 1 .. Len(r) : i + 1 \in 1 .. Len(s)
  BY <1>1, <1>2
<1>4. ASSUME NEW i \in 1 .. Len(s), i # 1
      PROVE  i - 1 \in 1 .. Len(r) /\ r[i - 1] = s[i]
  <2>1. i - 1 \in 1 .. Len(r) /\ (i - 1) + 1 = i
    BY <1>1, <1>2, <1>4
  <2> QED
    BY <1>1, <2>1
<1>5. 1 \in 1 .. Len(s)
  BY <1>2
<1>6. ASSUME NEW x
      PROVE  x \in ToSet(s) <=> x = h \/ x \in ToSet(r)
  <2>1. x \in ToSet(s) <=> \E i \in 1 .. Len(s) : s[i] = x
    BY Member
  <2>2. x \in ToSet(r) <=> \E i \in 1 .. Len(r) : r[i] = x
    BY <1>1, Member
  <2>3. x \in ToSet(r) => x \in ToSet(s)
    BY <1>1, <1>3, <2>1, <2>2
  <2>4. x \in ToSet(s) => x = h \/ x \in ToSet(r)
    BY <1>2, <1>4, <2>1, <2>2
  <2>5. h \in ToSet(s)
    BY <1>2, <1>5, Member
  <2> QED
    BY <2>3, <2>4, <2>5
<1>7. ASSUME NEW S, OnceEach(S, s)
      PROVE  /\ OnceEach(S, r)
             /\ h \in S => h \notin ToSet(r)
  <2>1. DOMAIN r = 1 .. Len(r) /\ DOMAIN s = 1 .. Len(s)
    BY <1>1
  <2>2. \A i, j \in 1 .. Len(s) : s[i] \in S /\ s[i] = s[j] => i = j
    BY <1>7, <2>1 DEF OnceEach
  <2>3. ASSUME NEW i \in 1 .. Len(r), NEW j \in 1 .. Len(r),
               r[i] \in S, r[i] = r[j]
        PROVE  i = j
    <3>1. i + 1 = j + 1
      BY <1>1, <1>3, <2>2, <2>3
    <3> QED
      BY <3>1
  <2>4. ASSUME NEW i \in 1 .. Len(r), h \in S
        PROVE  r[i] # h
    <3>1. i + 1 \in 1 .. Len(s) /\ i + 1 # 1 /\ r[i] = s[i + 1]
      BY <1>1, <1>3
    <3> QED
      BY <1>2, <1>5, <2>2, <2>4, <3>1
  <2>5. h \in S => h \notin ToSet(r)
    BY <1>1, <2>4, Member
  <2> QED
    BY <2>1, <2>3, <2>5 DEF OnceEach
<1> QED
  BY <1>1, <1>2, <1>6, <1>7 DEF h, r

\* The packet in front is new to the sequence.
LEMMA ConsMembers ==
  ASSUME NEW T, NEW s \in Seq(T), NEW m \in T
  PROVE  /\ <<m>> \o s \in Seq(T)
         /\ ToSet(<<m>> \o s) = {m} \cup ToSet(s)
         /\ \A S : OnceEach(S, s) /\ m \notin ToSet(s)
                     => OnceEach(S, <<m>> \o s)
<1> DEFINE a == <<m>> \o s
<1>1. <<m>> \in Seq(T) /\ Len(<<m>>) = 1 /\ <<m>>[1] = m
  OBVIOUS
<1>2. /\ a \in Seq(T) /\ Len(a) = 1 + Len(s)
      /\ \A i \in 1 .. 1 + Len(s) :
           a[i] = IF i <= 1 THEN <<m>>[i] ELSE s[i - 1]
  BY <1>1, ConcatProperties
<1>3. Len(s) \in Nat
  OBVIOUS
<1> HIDE DEF a
<1>4. a[1] = m /\ 1 \in 1 .. Len(a)
  BY <1>1, <1>2, <1>3
<1>5. ASSUME NEW i \in 1 .. Len(a), i # 1
      PROVE  i - 1 \in 1 .. Len(s) /\ a[i] = s[i - 1]
  <2>1. i - 1 \in 1 .. Len(s) /\ ~(i <= 1) /\ i \in 1 .. 1 + Len(s)
    BY <1>2, <1>3, <1>5
  <2> QED
    BY <1>2, <2>1
<1>6. ASSUME NEW i \in 1 .. Len(s)
      PROVE  i + 1 \in 1 .. Len(a) /\ a[i + 1] = s[i]
  <2>1. i + 1 \in 1 .. Len(a) /\ i + 1 # 1 /\ (i + 1) - 1 = i
    BY <1>2, <1>3
  <2> QED
    BY <1>5, <2>1
<1>7. ASSUME NEW x
      PROVE  x \in ToSet(a) <=> x = m \/ x \in ToSet(s)
  <2>1. x \in ToSet(a) <=> \E i \in 1 .. Len(a) : a[i] = x
    BY <1>2, Member
  <2>2. x \in ToSet(s) <=> \E i \in 1 .. Len(s) : s[i] = x
    BY Member
  <2> QED
    BY <1>4, <1>5, <1>6, <2>1, <2>2
<1>8. ASSUME NEW S, OnceEach(S, s), m \notin ToSet(s)
      PROVE  OnceEach(S, a)
  <2>1. DOMAIN a = 1 .. Len(a) /\ DOMAIN s = 1 .. Len(s)
    BY <1>2
  <2>2. \A i \in 1 .. Len(s) : s[i] # m
    BY <1>8, Member
  <2>3. \A i, j \in 1 .. Len(s) : s[i] \in S /\ s[i] = s[j] => i = j
    BY <1>8, <2>1 DEF OnceEach
  <2>4. ASSUME NEW i \in 1 .. Len(a), NEW j \in 1 .. Len(a),
               a[i] \in S, a[i] = a[j]
        PROVE  i = j
    <3>1. CASE i = 1 \/ j = 1
      BY <1>4, <1>5, <2>2, <2>4, <3>1
    <3>2. CASE i # 1 /\ j # 1
      <4>1. i - 1 = j - 1
        BY <1>5, <2>3, <2>4, <3>2
      <4> QED
        BY <4>1
    <3> QED
      BY <3>1, <3>2
  <2> QED
    BY <2>1, <2>4 DEF OnceEach
<1> QED
  BY <1>2, <1>7, <1>8 DEF a

LEMMA RemoveIs ==
  ASSUME NEW T, NEW s \in Seq(T), NEW k \in 1 .. Len(s)
  PROVE  /\ RemoveAt(s, k) \in Seq(T) /\ Len(RemoveAt(s, k)) = Len(s) - 1
         /\ \A i \in 1 .. Len(s) - 1 :
              RemoveAt(s, k)[i] = s[IF i < k THEN i ELSE i + 1]
<1> DEFINE r == RemoveAt(s, k)
           l == SubSeq(s, 1, k - 1)
           t == SubSeq(s, k + 1, Len(s))
<1>1. Len(s) \in Nat /\ \A i \in 1 .. Len(s) : s[i] \in T
  OBVIOUS
<1>2. /\ l \in Seq(T) /\ Len(l) = k - 1
      /\ \A i \in 1 .. k - 1 : l[i] = s[i]
  BY <1>1, SubSeqProperties
<1>3. /\ t \in Seq(T) /\ Len(t) = Len(s) - k
      /\ \A i \in 1 .. Len(s) - k : t[i] = s[k + i]
  <2>1. \A i \in 1 .. Len(s) - k : k + 1 + i - 1 = k + i
    BY <1>1
  <2>2. /\ t \in Seq(T)
        /\ Len(t) = IF k + 1 <= Len(s) THEN Len(s) - (k + 1) + 1 ELSE 0
        /\ \A i \in 1 .. Len(s) - (k + 1) + 1 : t[i] = s[k + 1 + i - 1]
    BY <1>1, SubSeqProperties
  <2>3. Len(t) = Len(s) - k
    BY <1>1, <2>2
  <2>4. Len(s) - (k + 1) + 1 = Len(s) - k
    BY <1>1
  <2> QED
    BY <2>1, <2>2, <2>3, <2>4
<1>4. /\ r \in Seq(T) /\ Len(r) = (k - 1) + (Len(s) - k)
      /\ \A i \in 1 .. (k - 1) + (Len(s) - k) :
           r[i] = IF i <= k - 1 THEN l[i] ELSE t[i - (k - 1)]
  <2> HIDE DEF l, t
  <2>1. r = l \o t
    BY DEF RemoveAt, l, t
  <2> HIDE DEF r
  <2>2. /\ r \in Seq(T) /\ Len(r) = Len(l) + Len(t)
        /\ \A i \in 1 .. Len(l) + Len(t) :
             r[i] = IF i <= Len(l) THEN l[i] ELSE t[i - Len(l)]
    BY <1>2, <1>3, <2>1, ConcatProperties
  <2> QED
    BY <1>2, <1>3, <2>2
<1> HIDE DEF r, l, t
<1>5. ASSUME NEW i \in 1 .. Len(s) - 1
      PROVE  r[i] = s[IF i < k THEN i ELSE i + 1]
  <2>2. CASE i < k
    <3>1. i \in 1 .. k - 1 /\ i <= k - 1 /\ i \in 1 .. (k - 1) + (Len(s) - k)
      BY <1>1, <2>2
    <3> QED
      BY <1>2, <1>4, <2>2, <3>1
  <2>3. CASE ~(i < k)
    <3>1. i - (k - 1) \in 1 .. Len(s) - k /\ k + (i - (k - 1)) = i + 1
      BY <1>1, <2>3
    <3>2. r[i] = t[i - (k - 1)]
      BY <1>1, <1>4, <2>3
    <3> QED
      BY <1>3, <2>3, <3>1, <3>2
  <2> QED
    BY <2>2, <2>3
<1>6. Len(r) = Len(s) - 1
  BY <1>1, <1>4
<1> QED
  BY <1>4, <1>5, <1>6 DEF r

LEMMA RemoveMembers ==
  ASSUME NEW T, NEW s \in Seq(T), NEW k \in 1 .. Len(s)
  PROVE  /\ RemoveAt(s, k) \in Seq(T)
         /\ s[k] \in T /\ s[k] \in ToSet(s)
         /\ ToSet(RemoveAt(s, k)) \subseteq ToSet(s)
         /\ \A S : OnceEach(S, s) =>
              /\ OnceEach(S, RemoveAt(s, k))
              /\ s[k] \in S => s[k] \notin ToSet(RemoveAt(s, k))
<1> DEFINE r == RemoveAt(s, k)
           At(i) == IF i < k THEN i ELSE i + 1
<1>1. Len(s) \in Nat /\ \A i \in 1 .. Len(s) : s[i] \in T
  OBVIOUS
<1>4. /\ r \in Seq(T) /\ Len(r) = Len(s) - 1
      /\ \A i \in 1 .. Len(s) - 1 : r[i] = s[At(i)]
  BY RemoveIs
<1> HIDE DEF r
<1>5. ASSUME NEW i \in 1 .. Len(r)
      PROVE  At(i) \in 1 .. Len(s) /\ At(i) # k /\ r[i] = s[At(i)]
  BY <1>1, <1>4
<1>6. ToSet(r) \subseteq ToSet(s)
  <2>1. ASSUME NEW x \in ToSet(r)
        PROVE  x \in ToSet(s)
    <3>1. PICK i \in 1 .. Len(r) : r[i] = x
      BY <1>4, Member
    <3> QED
      BY <1>5, <3>1, Member
  <2> QED
    BY <2>1
<1>7. ASSUME NEW S, OnceEach(S, s)
      PROVE  OnceEach(S, r) /\ (s[k] \in S => s[k] \notin ToSet(r))
  <2>1. DOMAIN r = 1 .. Len(r) /\ DOMAIN s = 1 .. Len(s)
    BY <1>4
  <2>2. \A i, j \in 1 .. Len(s) : s[i] \in S /\ s[i] = s[j] => i = j
    BY <1>7, <2>1 DEF OnceEach
  <2>3. ASSUME NEW i \in 1 .. Len(r), NEW j \in 1 .. Len(r),
               r[i] \in S, r[i] = r[j]
        PROVE  i = j
    <3>1. At(i) = At(j)
      <4> HIDE DEF At
      <4> QED
        BY <1>5, <2>2, <2>3
    <3> QED
      BY <3>1
  <2>4. ASSUME NEW i \in 1 .. Len(r), s[k] \in S
        PROVE  r[i] # s[k]
    <3> HIDE DEF At
    <3> QED
      BY <1>5, <2>2, <2>4
  <2>5. s[k] \in S => s[k] \notin ToSet(r)
    BY <1>4, <2>4, Member
  <2> QED
    BY <2>1, <2>3, <2>5 DEF OnceEach
<1>8. s[k] \in T /\ s[k] \in ToSet(s)
  BY <1>1, Member
<1> QED
  BY <1>4, <1>6, <1>7, <1>8 DEF r

\* What is behind the one removed stays behind.
LEMMA RemoveKeeps ==
  ASSUME NEW T, NEW s \in Seq(T), NEW k \in 1 .. Len(s),
         NEW i \in 1 .. Len(s), i # k
  PROVE  \E j \in 1 .. Len(RemoveAt(s, k)) :
           RemoveAt(s, k)[j] = s[i] /\ (k < i => k <= j)
<1> DEFINE r == RemoveAt(s, k)
           j == IF i < k THEN i ELSE i - 1
<1>1. Len(s) \in Nat /\ Len(r) = Len(s) - 1
      /\ \A h \in 1 .. Len(s) - 1 : r[h] = s[IF h < k THEN h ELSE h + 1]
  BY RemoveIs
<1> HIDE DEF r
<1>2. j \in 1 .. Len(r) /\ (k < i => k <= j)
  BY <1>1
<1>3. r[j] = s[i]
  <2>1. j \in 1 .. Len(s) - 1 /\ (IF j < k THEN j ELSE j + 1) = i
    BY <1>1, <1>2
  <2> HIDE DEF j
  <2> QED
    BY <1>1, <2>1
<1> QED
  BY <1>2, <1>3 DEF r

\* A sequence without repetitions is no longer than the set it is taken from.
LEMMA OnceIsFew ==
  ASSUME NEW S, IsFiniteSet(S), NEW s \in Seq(S), OnceEach(S, s)
  PROVE  Len(s) <= Cardinality(S)
<1>1. Len(s) \in Nat /\ s \in [1 .. Len(s) -> S]
  OBVIOUS
<1>2. \A i, j \in 1 .. Len(s) : s[i] = s[j] => i = j
  BY <1>1 DEF OnceEach
<1>3. s \in Injection(1 .. Len(s), S)
  BY <1>1, <1>2 DEF Injection, IsInjective
<1>4. Cardinality(1 .. Len(s)) = Len(s)
  <2>1. Cardinality(1 .. Len(s)) = IF 1 > Len(s) THEN 0 ELSE Len(s) - 1 + 1
    BY <1>1, FS_Interval
  <2> QED
    BY <1>1, <2>1
<1>5. Cardinality(1 .. Len(s)) <= Cardinality(S)
  BY <1>3, FS_Injection
<1> QED
  BY <1>4, <1>5

-----------------------------------------------------------------------------
(* Types *)

\* The types, but for the count of packets under way, which a packet replied
\* without having been counted would make negative.
TypeInv ==
  /\ N2ATypeOK /\ emu \in {"amiga", "rethink", "clear", "expire", "down"}
  /\ mode \in Modes /\ expiring \in BOOLEAN /\ maxSends \in Nat
  /\ client \in [Packets -> Units \cup {Idle}]
  /\ status \in [Packets -> Statuses]
  /\ port \in [Units -> Seq(Packets \cup {Dummy})]
  /\ signals \in [Units -> SUBSET {"port", "ctrlD"}]
  /\ queue \in [Units -> Seq(Packets)] /\ started \in [Units -> Int]
  /\ process \in [Units -> Positions] /\ msg \in [Units -> PacketOrNone]
  /\ doneValue \in [Units -> {Done, TimedOut}] /\ at \in [Units -> Nat \ {0}]
  /\ unitPipe \in [Units -> Seq(Packets \cup {Death})]
  /\ thread \in [Units -> ThreadPositions]
  /\ cmd \in [Units -> PacketOrNone \cup {Death}]
  /\ waiting \in [Units -> SUBSET Packets]
  /\ record \in [Units -> PacketOrNone] /\ expired \in [Units -> PacketOrNone]
  /\ sent \in [Units -> Nat] /\ acked \in [Units -> Nat]
  /\ complete \in [Units -> Nat]
  /\ unitNo \in 1 .. NumUnits + 1 /\ goDown \in [Units -> BOOLEAN]
  /\ sends \in 0 .. maxSends /\ resets \in 0 .. MaxResets

\* The process has a packet in its hands when it puts one in its queue.
HandInv == \A u \in Units : process[u] = "enqueue" => msg[u] \in Packets

LEMMA TypeStart == ASSUME Init PROVE TypeInv
<1>1. << >> \in Seq(Packets \cup {Dummy}) /\ << >> \in Seq(Packets)
      /\ << >> \in Seq(Packets \cup {Death}) /\ << >> \in Seq(Commands)
  OBVIOUS
<1>2. N2ATypeOK /\ emu = "amiga"
  BY <1>1, Native2AmigaAssumption
  DEF Init, N2AInit, N2ATypeOK
<1>3. mode \in Modes /\ expiring \in BOOLEAN /\ maxSends \in Nat
  BY FilesysAssumption DEF Init
<1> QED
  BY <1>1, <1>2, <1>3, FilesysAssumption
  DEF Init, TypeInv, EachUnit, Statuses, Linked, Done, TimedOut, Positions,
      ThreadPositions, PacketOrNone, Idle

LEMMA ProcessTypes ==
  ASSUME TypeInv, HandInv, NEW u \in Units, Process(u) PROVE TypeInv' /\ HandInv'
<1> USE DEF ProcessTo, portVars, queueVars, processVars, countVars, StartScan
<1>0. /\ port \in [Units -> Seq(Packets \cup {Dummy})]
      /\ process \in [Units -> Positions] /\ msg \in [Units -> PacketOrNone]
      /\ status \in [Packets -> Statuses]
      /\ unitPipe \in [Units -> Seq(Packets \cup {Death})]
      /\ queue \in [Units -> Seq(Packets)] /\ started \in [Units -> Int]
      /\ client \in [Packets -> Units \cup {Idle}]
      /\ complete \in [Units -> Nat] /\ acked \in [Units -> Nat]
      /\ signals \in [Units -> SUBSET {"port", "ctrlD"}]
      /\ doneValue \in [Units -> {Done, TimedOut}]
      /\ at \in [Units -> Nat \ {0}]
  BY DEF TypeInv
<1>1. /\ port' \in [Units -> Seq(Packets \cup {Dummy})]
      /\ process' \in [Units -> Positions] /\ msg' \in [Units -> PacketOrNone]
      /\ status' \in [Packets -> Statuses]
      /\ unitPipe' \in [Units -> Seq(Packets \cup {Death})]
      /\ queue' \in [Units -> Seq(Packets)] /\ started' \in [Units -> Int]
      /\ client' \in [Packets -> Units \cup {Idle}]
      /\ complete' \in [Units -> Nat]
      /\ signals' \in [Units -> SUBSET {"port", "ctrlD"}]
      /\ doneValue' \in [Units -> {Done, TimedOut}]
      /\ at' \in [Units -> Nat \ {0}]
      /\ HandInv'
  <2> DEFINE Ports == Seq(Packets \cup {Dummy})
             Pipes == Seq(Packets \cup {Death})
             Queues == Seq(Packets)
  <2>1. ASSUME port[u] # << >>
        PROVE  Tail(port[u]) \in Ports
    BY <1>0, <2>1, TailMembers
  <2>2. \A p \in Packets : Append(unitPipe[u], p) \in Pipes
    BY <1>0, AppendMembers
  <2>3. msg[u] \in Packets => <<msg[u]>> \o queue[u] \in Queues
    BY <1>0, ConsMembers
  <2>4. at[u] <= Len(queue[u]) =>
          Scanned(u) \in Packets /\ RemoveAt(queue[u], at[u]) \in Queues
    <3>1. at[u] <= Len(queue[u]) => at[u] \in 1 .. Len(queue[u])
      BY <1>0
    <3> QED
      BY <1>0, <3>1, RemoveMembers DEF Scanned
  <2> HIDE DEF Ports, Pipes, Queues
  <2>5. /\ port \in [Units -> Ports] /\ unitPipe \in [Units -> Pipes]
        /\ queue \in [Units -> Queues]
    BY <1>0 DEF Ports, Pipes, Queues
  <2>6. /\ port' \in [Units -> Ports] /\ unitPipe' \in [Units -> Pipes]
        /\ queue' \in [Units -> Queues]
        /\ process' \in [Units -> Positions] /\ msg' \in [Units -> PacketOrNone]
        /\ status' \in [Packets -> Statuses] /\ started' \in [Units -> Int]
        /\ client' \in [Packets -> Units \cup {Idle}]
        /\ complete' \in [Units -> Nat]
        /\ signals' \in [Units -> SUBSET {"port", "ctrlD"}]
        /\ doneValue' \in [Units -> {Done, TimedOut}]
        /\ at' \in [Units -> Nat \ {0}]
        /\ HandInv'
    <3> USE <1>0, <2>5 DEF HandInv, Positions, PacketOrNone, Statuses
    <3>1. CASE GetNothing(u)
      BY <3>1 DEF GetNothing
    <3>2. CASE GetDummy(u)
      BY <2>1, <3>2 DEF GetDummy, Get
    <3>3. CASE WakeUp(u)
      BY <3>3 DEF WakeUp
    <3>4. CASE ReleaseMessageLock(u)
      BY <3>4 DEF ReleaseMessageLock
    <3>5. CASE HandOver(u)
      BY <2>1, <2>2, <3>5 DEF HandOver, Get
    <3>6. CASE HoldBack(u)
      BY <2>1, <3>6 DEF HoldBack, Get
    <3>7. CASE Enqueue(u)
      BY <2>3, <3>7 DEF Enqueue
    <3>8. CASE ReplyOne(u)
      BY <2>4, <3>8 DEF ReplyOne
    <3>9. CASE CheckNext(u)
      BY <3>9 DEF CheckNext
    <3>10. CASE ScanEnds(u)
      BY <3>10 DEF ScanEnds
    <3> QED
      BY <3>1, <3>2, <3>3, <3>4, <3>5, <3>6, <3>7, <3>8, <3>9, <3>10
      DEF Process
  <2> QED
    BY <2>6 DEF Ports, Pipes, Queues
<1>2. UNCHANGED <<n2aVars, setupVars, threadVars, waiting, expired, sent,
                  acked, unitNo, goDown, sends, resets>>
  BY DEF Process
<1> QED
  BY <1>1, <1>2 DEF TypeInv, N2ATypeOK, n2aVars, bitVars, lineVars, setupVars,
                    threadVars

\* A program sends a packet.
LEMMA SendTypes ==
  ASSUME TypeInv, HandInv, NEW u \in Units, NEW p \in Packets, SendPacket(u, p)
  PROVE  TypeInv' /\ HandInv'
<1>1. /\ port' \in [Units -> Seq(Packets \cup {Dummy})]
      /\ signals' \in [Units -> SUBSET {"port", "ctrlD"}]
      /\ client' \in [Packets -> Units \cup {Idle}]
      /\ sends' \in 0 .. maxSends'
  <2>1. Append(port[u], p) \in Seq(Packets \cup {Dummy})
    BY AppendMembers DEF TypeInv
  <2>2. port' \in [Units -> Seq(Packets \cup {Dummy})]
    BY <2>1 DEF SendPacket, PutMsg, TypeInv
  <2>3. signals' \in [Units -> SUBSET {"port", "ctrlD"}]
    BY DEF SendPacket, PutMsg, TypeInv
  <2>4. client' \in [Packets -> Units \cup {Idle}]
    BY DEF SendPacket, TypeInv
  <2>5. sends' \in 0 .. maxSends'
    BY DEF SendPacket, TypeInv, setupVars
  <2> QED
    BY <2>2, <2>3, <2>4, <2>5
<1>2. UNCHANGED <<n2aVars, setupVars, queueVars, status, processVars, unitPipe,
                 threadVars, waiting, expired, countVars, unitNo, goDown,
                 resets>>
  BY DEF SendPacket
<1> QED
  BY <1>1, <1>2 DEF TypeInv, HandInv, N2ATypeOK, n2aVars, bitVars, lineVars,
      setupVars, queueVars, processVars, threadVars, countVars

\* What a thread writes to the word is made of its bits.
LEMMA BitTypes ==
  ASSUME TypeInv, NEW t \in Threads,
         ReadBits(t) \/ \E bits \in SUBSET Bits : WriteBits(t, bits)
  PROVE  intRequested' \subseteq Bits /\ seen' \in [Threads -> SUBSET Bits]
BY DEF TypeInv, N2ATypeOK, ReadBits, WriteBits

LEMMA UnitsAreThreads == Units \subseteq Threads /\ EmuThread \in Threads
BY FilesysAssumption DEF Threads

LEMMA ThreadTypes ==
  ASSUME TypeInv, HandInv, NEW u \in Units, UnitThread(u)
  PROVE  TypeInv' /\ HandInv'
<1> USE DEF ThreadTo, bitVars
<1>0. /\ unitPipe \in [Units -> Seq(Packets \cup {Death})]
      /\ thread \in [Units -> ThreadPositions]
      /\ cmd \in [Units -> PacketOrNone \cup {Death}]
      /\ waiting \in [Units -> SUBSET Packets]
      /\ record \in [Units -> PacketOrNone] /\ sent \in [Units -> Nat]
      /\ status \in [Packets -> Statuses]
      /\ intRequested \subseteq Bits /\ seen \in [Threads -> SUBSET Bits]
  BY DEF TypeInv, N2ATypeOK
<1>1. /\ unitPipe' \in [Units -> Seq(Packets \cup {Death})]
      /\ thread' \in [Units -> ThreadPositions]
      /\ cmd' \in [Units -> PacketOrNone \cup {Death}]
      /\ waiting' \in [Units -> SUBSET Packets]
      /\ record' \in [Units -> PacketOrNone] /\ sent' \in [Units -> Nat]
      /\ status' \in [Packets -> Statuses]
      /\ intRequested' \subseteq Bits /\ seen' \in [Threads -> SUBSET Bits]
  <2> DEFINE Pipes == Seq(Packets \cup {Death})
  <2>1. ASSUME unitPipe[u] # << >>
        PROVE  /\ Tail(unitPipe[u]) \in Pipes
               /\ Head(unitPipe[u]) \in Packets \cup {Death}
    BY <1>0, <2>1, TailMembers
  <2> HIDE DEF Pipes
  <2>2. unitPipe \in [Units -> Pipes]
    BY <1>0 DEF Pipes
  <2>3. /\ unitPipe' \in [Units -> Pipes] /\ thread' \in [Units -> ThreadPositions]
        /\ cmd' \in [Units -> PacketOrNone \cup {Death}]
        /\ waiting' \in [Units -> SUBSET Packets]
        /\ record' \in [Units -> PacketOrNone] /\ sent' \in [Units -> Nat]
        /\ status' \in [Packets -> Statuses]
        /\ intRequested' \subseteq Bits /\ seen' \in [Threads -> SUBSET Bits]
    <3> USE <1>0, <2>2 DEF ThreadPositions, PacketOrNone, Statuses
    <3>1. CASE ReadPacket(u)
      BY <2>1, <3>1 DEF ReadPacket
    <3>2. CASE Begin(u)
      BY <3>2 DEF Begin
    <3>3. CASE WaitForRecord(u)
      BY <3>3, FilesysAssumption DEF WaitForRecord
    <3>4. CASE FindFreeRecord(u)
      BY <3>4 DEF FindFreeRecord
    <3>5. CASE GrantRecord(u)
      BY <3>5 DEF GrantRecord
    <3>6. CASE MarkDone(u)
      BY <3>6 DEF MarkDone
    <3>7. CASE CountSent(u)
      BY <3>7 DEF CountSent
    <3>8. CASE AskForInterrupt(u)
      <4>1. ReadBits(u) \/ \E bits \in SUBSET Bits : WriteBits(u, bits)
        BY <3>8, UnitsAreThreads
        DEF AskForInterrupt, SetOurBit, Bits, OurBit, A2091Bit
      <4>2. intRequested' \subseteq Bits /\ seen' \in [Threads -> SUBSET Bits]
        BY <4>1, BitTypes, UnitsAreThreads
      <4> QED
        BY <3>8, <4>2 DEF AskForInterrupt
    <3> QED
      BY <3>1, <3>2, <3>3, <3>4, <3>5, <3>6, <3>7, <3>8 DEF UnitThread
  <2> QED
    BY <2>3 DEF Pipes
<1>2. UNCHANGED <<emu, server, intSem, pending, lineVars, setupVars, portVars,
                 queueVars, processVars, expired, acked, complete, unitNo,
                 goDown, sends, resets>>
  BY DEF UnitThread
<1> QED
  BY <1>1, <1>2 DEF TypeInv, HandInv, N2ATypeOK, lineVars, setupVars, portVars,
      queueVars, processVars

LEMMA InterruptTypes ==
  ASSUME TypeInv, HandInv, Interrupts PROVE TypeInv' /\ HandInv'
<1> USE UnitsAreThreads, Native2AmigaAssumption
    DEF TypeInv, HandInv, N2ATypeOK, n2aVars, bitVars, lineVars, fsVars,
        setupVars, portVars, queueVars, processVars, threadVars, countVars,
        Bits, OurBit, A2091Bit, ReadBits, WriteBits, ServerIs
<1>1. CASE EnterServer
  <2>1. 1 \in 1 .. NumUnits + 1
    BY FilesysAssumption
  <2>2. /\ unitNo' = 1 /\ emu' = "clear" /\ server' = "commands" /\ intSem' = 0
        /\ UNCHANGED <<intRequested, pending, cdtvscsi, rethinks>>
        /\ seen' = [seen EXCEPT ![EmuThread] = intRequested]
        /\ UNCHANGED <<setupVars, portVars, queueVars, status, processVars,
                       unitPipe, threadVars, waiting, expired, countVars,
                       goDown, sends, resets>>
    BY <1>1 DEF EnterServer, ServerEnters
  <2> QED
    BY <2>1, <2>2
<1>2. CASE DeliverSignal
  <2>1. Tail(pending) \in Seq(Commands)
    BY <1>2, TailMembers DEF DeliverSignal, TakeCommand
  <2> QED
    BY <1>2, <2>1 DEF DeliverSignal, TakeCommand
<1>3. CASE FindNoCommand
  BY <1>3 DEF FindNoCommand, NoCommand
<1>4. CASE LeaveServer
  BY <1>4 DEF LeaveServer, ServerLeaves
<1>5. ASSUME NEW u \in Units, DeliverDummy(u)
      PROVE  TypeInv' /\ HandInv'
  <2>1. Append(port[u], Dummy) \in Seq(Packets \cup {Dummy})
    BY AppendMembers
  <2>2. u + 1 \in 1 .. NumUnits + 1
    BY FilesysAssumption DEF Units
  <2> QED
    BY <1>5, <2>1, <2>2 DEF DeliverDummy, Message, PutMsg
<1>6. ASSUME NEW u \in Units, PassUnit(u)
      PROVE  TypeInv' /\ HandInv'
  <2>1. u + 1 \in 1 .. NumUnits + 1
    BY FilesysAssumption DEF Units
  <2> QED
    BY <1>6, <2>1 DEF PassUnit
<1>7. CASE ServerClears /\ UNCHANGED fsVars
  BY <1>7 DEF ServerClears
<1>8. CASE RethinkReads /\ UNCHANGED fsVars
  <2>1. /\ emu' = "rethink" /\ rethinks < MaxRethinks
        /\ rethinks' = rethinks + 1
        /\ UNCHANGED <<intRequested, server, intSem, pending, cdtvscsi>>
        /\ seen' = [seen EXCEPT ![EmuThread] = intRequested]
    BY <1>8 DEF RethinkReads
  <2>2. rethinks' \in 0 .. MaxRethinks /\ seen' \in [Threads -> SUBSET Bits]
    BY <2>1
  <2> QED
    BY <1>8, <2>1, <2>2
<1>9. CASE RethinkWrites /\ UNCHANGED fsVars
  BY <1>9 DEF RethinkWrites
<1> QED
  BY <1>1, <1>2, <1>3, <1>4, <1>5, <1>6, <1>7, <1>8, <1>9 DEF Interrupts

LEMMA HousekeepingTypes ==
  ASSUME TypeInv, HandInv, Housekeeping PROVE TypeInv' /\ HandInv'
<1> USE DEF TypeInv, HandInv, N2ATypeOK, bitVars, lineVars,
        setupVars, portVars, queueVars, processVars, threadVars, countVars,
        Bits, OurBit, A2091Bit, PacketOrNone
<1>1. ASSUME NEW u \in Units, SynchronousIteration(u)
      PROVE  TypeInv' /\ HandInv'
  <2>1. /\ Tail(unitPipe[u]) \in Seq(Packets \cup {Death})
        /\ Head(unitPipe[u]) \in Packets \cup {Death}
    BY <1>1, TailMembers DEF SynchronousIteration
  <2>2. unitPipe' \in [Units -> Seq(Packets \cup {Death})]
    BY <1>1, <2>1 DEF SynchronousIteration
  <2>3. waiting' \in [Units -> SUBSET Packets]
    <3>1. \E W \in SUBSET Packets : waiting' = [waiting EXCEPT ![u] = W]
      <4> DEFINE p == Head(unitPipe[u])
      <4>1. CASE p \in Lockers /\ waiting' = [waiting EXCEPT ![u] = @ \cup {p}]
        <5>1. waiting[u] \cup {p} \in SUBSET Packets
          BY <4>1, FilesysAssumption
        <5> QED
          BY <4>1, <5>1
      <4>2. CASE \E granted \in SUBSET waiting[u] :
                   waiting' = [waiting EXCEPT ![u] = @ \ granted]
        <5>1. PICK granted \in SUBSET waiting[u] :
                waiting' = [waiting EXCEPT ![u] = @ \ granted]
          BY <4>2
        <5>2. waiting[u] \ granted \in SUBSET Packets
          OBVIOUS
        <5> QED
          BY <5>1, <5>2
      <4> QED
        BY <1>1, <4>1, <4>2 DEF SynchronousIteration
    <3> QED
      BY <3>1
  <2>4. status' \in [Packets -> Statuses]
    BY <1>1 DEF SynchronousIteration, Statuses
  <2>5. sent' \in [Units -> Nat] /\ intRequested' \subseteq Bits
    BY <1>1, SMTT(20) DEF SynchronousIteration
  <2>6. UNCHANGED <<emu, server, intSem, seen, pending, lineVars, setupVars,
                 portVars, queueVars, processVars, threadVars, expired, acked,
                 complete, unitNo, goDown, sends, resets>>
    BY <1>1 DEF SynchronousIteration
  <2> QED
    BY <2>2, <2>3, <2>4, <2>5, <2>6
<1>2. ASSUME NEW u \in Units, FindExpired(u)
      PROVE  TypeInv' /\ HandInv'
  <2>1. /\ emu' = "expire"
        /\ \E p \in waiting[u] : expired' = [expired EXCEPT ![u] = p]
        /\ UNCHANGED <<server, intSem, bitVars, pending, lineVars, setupVars,
                       portVars, queueVars, status, processVars, unitPipe,
                       threadVars, waiting, countVars, unitNo, goDown, sends,
                       resets>>
    BY <1>2 DEF FindExpired
  <2>2. expired' \in [Units -> PacketOrNone]
    BY <2>1
  <2> QED
    BY <2>1, <2>2
<1>3. ASSUME NEW u \in Units, ExpireRecord(u)
      PROVE  TypeInv' /\ HandInv'
  <2>1. Append(pending, u) \in Seq(Commands)
    BY FilesysAssumption, AppendMembers
  <2>2. status' \in [Packets -> Statuses]
    BY <1>3 DEF ExpireRecord, Statuses
  <2> QED
    BY <1>3, <2>1, <2>2 DEF ExpireRecord
<1> QED
  BY <1>1, <1>2, <1>3 DEF Housekeeping

LEMMA ResetTypes ==
  ASSUME TypeInv, HandInv, Reset PROVE TypeInv' /\ HandInv'
<1> USE DEF TypeInv, HandInv, N2ATypeOK, n2aVars, bitVars, lineVars,
        setupVars, portVars, queueVars, processVars, threadVars, countVars
<1>1. CASE BeginReset
  <2>1. resets' = resets + 1 /\ resets < MaxResets /\ emu' = "down"
    BY <1>1 DEF BeginReset
  <2>2. UNCHANGED <<server, intSem, bitVars, pending, lineVars, setupVars,
                    portVars, queueVars, status, processVars, unitPipe,
                    threadVars, waiting, expired, countVars, unitNo, goDown,
                    sends>>
    BY <1>1 DEF BeginReset
  <2>3. resets' \in 0 .. MaxResets
    BY <2>1, FilesysAssumption
  <2> QED
    BY <2>1, <2>2, <2>3
<1>2. CASE Restart
  <2>1. /\ << >> \in Seq(Packets \cup {Dummy}) /\ << >> \in Seq(Packets)
        /\ << >> \in Seq(Packets \cup {Death}) /\ << >> \in Seq(Commands)
    OBVIOUS
  <2> QED
    BY <1>2, <2>1
    DEF Restart, N2AReset, EachUnit, Statuses, Linked, Done, TimedOut,
        Positions, ThreadPositions, PacketOrNone, Idle
<1>3. ASSUME NEW u \in Units, SendDeath(u)
      PROVE  TypeInv' /\ HandInv'
  <2>1. /\ Append(unitPipe[u], Death) \in Seq(Packets \cup {Death})
        /\ << >> \in Seq(Packets \cup {Death})
    BY AppendMembers
  <2>2. unitPipe' \in [Units -> Seq(Packets \cup {Death})]
    BY <1>3, <2>1 DEF SendDeath
  <2>3. thread' \in [Units -> ThreadPositions]
    BY <1>3 DEF SendDeath, ThreadPositions
  <2>4. goDown' \in [Units -> BOOLEAN]
    BY <1>3 DEF SendDeath
  <2>5. UNCHANGED <<n2aVars, setupVars, portVars, queueVars, status, processVars,
                 cmd, record, waiting, expired, countVars, unitNo, sends,
                 resets>>
    BY <1>3 DEF SendDeath
  <2> QED
    BY <2>2, <2>3, <2>4, <2>5
<1> QED
  BY <1>1, <1>2, <1>3 DEF Reset

LEMMA TypesKept ==
  ASSUME TypeInv, HandInv, [Next]_vars PROVE TypeInv' /\ HandInv'
<1>1. CASE UNCHANGED vars
  BY <1>1 DEF vars, n2aVars, fsVars, bitVars, lineVars, setupVars, portVars,
     queueVars, processVars, threadVars, countVars, TypeInv, HandInv, N2ATypeOK
<1> QED
  BY <1>1, SendTypes, ProcessTypes, ThreadTypes, InterruptTypes,
     HousekeepingTypes, ResetTypes
  DEF Next

-----------------------------------------------------------------------------
(* The dummy message *)

HasDummy(u) == Dummy \in ToSet(port[u]) \/ process[u] = "release"

\* MessageLock without numbers: the message is at most once in the port, and
\* in the port or in the hands of the process while the counts differ.
MessageInv ==
  \A u \in Units :
    /\ OnceEach({Dummy}, port[u])
    /\ ~(Dummy \in ToSet(port[u]) /\ process[u] = "release")
    /\ acked[u] # complete[u] <=> HasDummy(u)

LEMMA MessageProcess ==
  ASSUME TypeInv, MessageInv, NEW u \in Units, Process(u)
  PROVE  MessageInv'
<1> USE DEF ProcessTo, portVars, queueVars, processVars, countVars, StartScan
<1>1. /\ port \in [Units -> Seq(Packets \cup {Dummy})]
      /\ process \in [Units -> Positions]
      /\ complete \in [Units -> Nat] /\ acked \in [Units -> Nat]
  BY DEF TypeInv
<1>2. ASSUME NEW m, Get(u, m)
      PROVE  /\ port' = [port EXCEPT ![u] = Tail(@)]
             /\ ToSet(port[u]) = {m} \cup ToSet(Tail(port[u]))
             /\ OnceEach({Dummy}, Tail(port[u]))
             /\ m = Dummy => Dummy \notin ToSet(Tail(port[u]))
  <2>1. /\ port[u] \in Seq(Packets \cup {Dummy}) /\ port[u] # << >>
        /\ m = Head(port[u]) /\ OnceEach({Dummy}, port[u])
    BY <1>1, <1>2 DEF Get, MessageInv
  <2> QED
    BY <1>2, <2>1, TailMembers DEF Get
<1>3. acked' = acked
  BY DEF Process
<1>4. CASE GetDummy(u)
  <2>1. /\ Get(u, Dummy) /\ process[u] = "get" /\ complete' = complete
        /\ process' = [process EXCEPT ![u] = "release"]
    BY <1>4 DEF GetDummy
  <2> QED
    BY <1>1, <1>2, <1>3, <2>1 DEF MessageInv, HasDummy
<1>5. CASE HandOver(u) \/ HoldBack(u)
  <2>1. PICK p \in Packets : Get(u, p)
    BY <1>5 DEF HandOver, HoldBack
  <2>2. /\ process[u] = "get" /\ complete' = complete
        /\ process' = [process EXCEPT ![u] = "enqueue"]
    BY <1>5 DEF HandOver, HoldBack
  <2>3. p # Dummy
    BY PacketsAssumption
  <2> QED
    BY <1>1, <1>2, <1>3, <2>1, <2>2, <2>3 DEF MessageInv, HasDummy
<1>6. CASE ReleaseMessageLock(u)
  <2>1. /\ process[u] = "release" /\ port' = port
        /\ process' = [process EXCEPT ![u] = "scan"]
        /\ complete' = [complete EXCEPT ![u] = acked[u]]
    BY <1>6 DEF ReleaseMessageLock
  <2> QED
    BY <1>1, <1>3, <2>1 DEF MessageInv, HasDummy
<1>7. CASE GetNothing(u) \/ WakeUp(u) \/ Enqueue(u) \/ ReplyOne(u)
           \/ CheckNext(u) \/ ScanEnds(u)
  <2>1. port' = port /\ complete' = complete
    BY <1>7 DEF GetNothing, WakeUp, Enqueue, ReplyOne, CheckNext, ScanEnds
  <2>2. \E to \in {"wait", "scan", "get"} :
          process[u] # "release" /\ process' = [process EXCEPT ![u] = to]
    BY <1>7 DEF GetNothing, WakeUp, Enqueue, ReplyOne, CheckNext, ScanEnds
  <2> QED
    BY <1>1, <1>3, <2>1, <2>2 DEF MessageInv, HasDummy
<1> QED
  BY <1>4, <1>5, <1>6, <1>7 DEF Process

LEMMA MessageKept ==
  ASSUME TypeInv, MessageInv, [Next]_vars PROVE MessageInv'
<1> USE DEF portVars, processVars, countVars
<1>1. /\ port \in [Units -> Seq(Packets \cup {Dummy})]
      /\ process \in [Units -> Positions] /\ sent \in [Units -> Nat]
      /\ complete \in [Units -> Nat] /\ acked \in [Units -> Nat]
  BY DEF TypeInv
<1>2. CASE UNCHANGED <<port, process, acked, complete>>
  BY <1>2 DEF MessageInv, HasDummy
<1>3. ASSUME NEW u \in Units, NEW p \in Packets, SendPacket(u, p)
      PROVE  MessageInv'
  <2>1. /\ port' = [port EXCEPT ![u] = Append(port[u], p)]
        /\ UNCHANGED <<process, acked, complete>>
    BY <1>3 DEF SendPacket, PutMsg
  <2>2. p # Dummy
    BY PacketsAssumption
  <2>3. /\ ToSet(Append(port[u], p)) = ToSet(port[u]) \cup {p}
        /\ OnceEach({Dummy}, Append(port[u], p))
    <3>1. port[u] \in Seq(Packets \cup {Dummy}) /\ OnceEach({Dummy}, port[u])
      BY <1>1 DEF MessageInv
    <3>2. p \in {Dummy} => p \notin ToSet(port[u])
      BY <2>2
    <3> QED
      BY <3>1, <3>2, AppendMembers
  <2> QED
    BY <1>1, <2>1, <2>2, <2>3 DEF MessageInv, HasDummy
<1>4. ASSUME NEW u \in Units, DeliverDummy(u)
      PROVE  MessageInv'
  <2>1. /\ port' = [port EXCEPT ![u] = Append(port[u], Dummy)]
        /\ acked' = [acked EXCEPT ![u] = sent[u]]
        /\ acked[u] = complete[u] /\ acked[u] # sent[u]
        /\ UNCHANGED <<process, complete>>
    BY <1>4 DEF DeliverDummy, PutMsg, NeedsMessage
  <2>2. ~HasDummy(u)
    BY <2>1 DEF MessageInv
  <2>3. /\ ToSet(Append(port[u], Dummy)) = ToSet(port[u]) \cup {Dummy}
        /\ OnceEach({Dummy}, Append(port[u], Dummy))
    <3>1. port[u] \in Seq(Packets \cup {Dummy}) /\ OnceEach({Dummy}, port[u])
      BY <1>1 DEF MessageInv
    <3>2. Dummy \in {Dummy} => Dummy \notin ToSet(port[u])
      BY <2>2 DEF HasDummy
    <3> QED
      BY <3>1, <3>2, AppendMembers
  <2> QED
    BY <1>1, <2>1, <2>2, <2>3 DEF MessageInv, HasDummy
<1>5. CASE Restart
  <2>1. /\ port' = EachUnit(<< >>) /\ process' = EachUnit("get")
        /\ acked' = EachUnit(0) /\ complete' = EachUnit(0)
    BY <1>5 DEF Restart
  <2> QED
    BY <2>1, Nothing DEF MessageInv, HasDummy, EachUnit
<1>6. ASSUME NEW u \in Units, UnitThread(u)
      PROVE  MessageInv'
  BY <1>2, <1>6 DEF UnitThread
<1>7. CASE EnterServer \/ DeliverSignal \/ FindNoCommand \/ LeaveServer
           \/ (ServerClears /\ UNCHANGED fsVars)
           \/ (RethinkReads /\ UNCHANGED fsVars)
           \/ (RethinkWrites /\ UNCHANGED fsVars)
           \/ \E u \in Units : PassUnit(u)
  BY <1>2, <1>7
  DEF EnterServer, DeliverSignal, FindNoCommand, LeaveServer, PassUnit, fsVars
<1>8. CASE Housekeeping \/ BeginReset \/ \E u \in Units : SendDeath(u)
  BY <1>2, <1>8 DEF Housekeeping, SynchronousIteration, FindExpired,
     ExpireRecord, BeginReset, SendDeath
<1>9. CASE UNCHANGED vars
  BY <1>2, <1>9 DEF vars, fsVars
<1> QED
  BY <1>3, <1>4, <1>5, <1>6, <1>7, <1>8, <1>9, MessageProcess
  DEF Next, Interrupts, Reset

LEMMA MessageStart == ASSUME Init PROVE MessageInv /\ HandInv
BY Nothing DEF Init, MessageInv, HasDummy, HandInv, EachUnit

\* There is one message, or none.
LEMMA MessageCounted ==
  ASSUME TypeInv, MessageInv
  PROVE  MessageLock
<1> SUFFICES ASSUME NEW u \in Units
             PROVE  Cardinality({i \in DOMAIN port[u] : port[u][i] = Dummy})
                      + (IF process[u] = "release" THEN 1 ELSE 0)
                    = IF acked[u] # complete[u] THEN 1 ELSE 0
  BY DEF MessageLock
<1> DEFINE s == port[u]
           D == {i \in DOMAIN s : s[i] = Dummy}
<1>1. s \in Seq(Packets \cup {Dummy}) /\ OnceEach({Dummy}, s)
  BY DEF TypeInv, MessageInv
<1>2. DOMAIN s = 1 .. Len(s)
  BY <1>1
<1>3. CASE Dummy \in ToSet(s)
  <2>1. PICK i \in 1 .. Len(s) : s[i] = Dummy
    BY <1>1, <1>3, Member
  <2>2. D = {i}
    BY <1>1, <1>2, <2>1 DEF OnceEach
  <2>3. Cardinality(D) = 1
    BY <2>2, FS_Singleton
  <2> QED
    BY <1>3, <2>3 DEF MessageInv, HasDummy
<1>4. CASE Dummy \notin ToSet(s)
  <2>1. D = {}
    BY <1>1, <1>2, <1>4, Member
  <2>2. Cardinality(D) = 0
    BY <2>1, FS_EmptySet
  <2> QED
    BY <1>4, <2>2 DEF MessageInv, HasDummy
<1> QED
  BY <1>3, <1>4

\* The types, the packet in the process's hands and the dummy message.
BaseInv == TypeInv /\ HandInv /\ MessageInv

LEMMA BaseInvariant == Spec => []BaseInv
<1>1. Init => BaseInv
  BY TypeStart, MessageStart DEF BaseInv
<1>2. BaseInv /\ [Next]_vars => BaseInv'
  BY TypesKept, MessageKept DEF BaseInv
<1> QED
  BY <1>1, <1>2, PTL DEF Spec

\* The one dummy message of a unit is in its port, or has just been taken from
\* it, exactly while cmds_acked and cmds_complete differ (exter_int_helper(2)
\* and (1)): it is never put in a list twice, whatever the threads, the signals
\* and the resets do.
THEOREM OneMessage == Spec => []MessageLock
<1>1. BaseInv => MessageLock
  BY MessageCounted DEF BaseInv
<1> QED
  BY <1>1, BaseInvariant, PTL

-----------------------------------------------------------------------------
(* Where the packets are.  The packet that record_timeout has found expired  *)
(* is marked as such afterwards; the thread of the unit may have granted the  *)
(* record in between, and the process may have replied the packet.  What      *)
(* follows excludes that: record_timeout finds nothing where units have      *)
(* threads.                                                                 *)

MarkedByOneThread == \A s \in Setups : s.mode = "threads" => ~s.expiring

\* A unit goes down only in a reset, and a packet is found expired only where
\* the emulation thread does the work of the units itself.
SetupInv ==
  /\ mode = "threads" => ~expiring
  /\ \A u \in Units : goDown[u] => emu = "down"
  /\ \A u \in Units : expired[u] # None =>
       emu = "expire" /\ mode = "synchronous" /\ expired[u] \in waiting[u]
  /\ \A u, v \in Units : expired[u] # None /\ expired[v] # None => u = v

LEMMA SetupStart == ASSUME Init, MarkedByOneThread PROVE SetupInv
BY DEF Init, SetupInv, MarkedByOneThread, EachUnit

LEMMA SetupKept ==
  ASSUME TypeInv, SetupInv, [Next]_vars PROVE SetupInv'
<1> USE DEF setupVars, threadVars
<1>1. mode' = mode /\ expiring' = expiring
  BY DEF Next, vars, SendPacket, Process, UnitThread, Interrupts, Housekeeping,
     Reset, EnterServer, DeliverSignal, FindNoCommand, LeaveServer,
     DeliverDummy, PassUnit, SynchronousIteration, FindExpired, ExpireRecord,
     BeginReset, SendDeath, Restart, fsVars
<1>2. CASE UNCHANGED <<emu, goDown, expired, waiting>>
  BY <1>1, <1>2 DEF SetupInv
<1>3. ASSUME NEW u \in Units, UnitThread(u)
      PROVE  SetupInv'
  <2>1. mode = "threads" /\ UNCHANGED <<emu, goDown, expired>>
    BY <1>3 DEF UnitThread
  <2>2. \A v \in Units : expired[v] = None
    BY <2>1 DEF SetupInv
  <2> QED
    BY <1>1, <2>1, <2>2 DEF SetupInv
<1>4. ASSUME emu \notin {"down", "expire"}, emu' \notin {"down", "expire"},
             UNCHANGED <<goDown, expired>>
      PROVE  SetupInv'
  BY <1>1, <1>4 DEF SetupInv
<1>5. CASE Interrupts
  <2>1. CASE EnterServer
    BY <1>4, <2>1 DEF EnterServer, ServerEnters, AmigaRuns
  <2>2. CASE \/ DeliverSignal \/ FindNoCommand \/ LeaveServer
             \/ \E u \in Units : DeliverDummy(u) \/ PassUnit(u)
    BY <1>2, <2>2 DEF DeliverSignal, TakeCommand, FindNoCommand, NoCommand,
       LeaveServer, ServerLeaves, DeliverDummy, Message, PassUnit, fsVars,
       n2aVars
  <2>3. CASE ServerClears /\ UNCHANGED fsVars
    BY <1>4, <2>3 DEF ServerClears, fsVars
  <2>4. CASE RethinkReads /\ UNCHANGED fsVars
    BY <1>4, <2>4 DEF RethinkReads, fsVars
  <2>5. CASE RethinkWrites /\ UNCHANGED fsVars
    BY <1>4, <2>5 DEF RethinkWrites, fsVars
  <2> QED
    BY <1>5, <2>1, <2>2, <2>3, <2>4, <2>5 DEF Interrupts
<1>6. ASSUME NEW u \in Units, SynchronousIteration(u)
      PROVE  SetupInv'
  BY <1>4, <1>6 DEF SynchronousIteration
<1>7. ASSUME NEW u \in Units, FindExpired(u)
      PROVE  SetupInv'
  <2>1. /\ expiring /\ emu = "amiga" /\ emu' = "expire"
        /\ UNCHANGED <<goDown, waiting>>
    BY <1>7 DEF FindExpired
  <2>2. PICK p \in waiting[u] : expired' = [expired EXCEPT ![u] = p]
    BY <1>7 DEF FindExpired
  <2>3. mode = "synchronous"
    BY <2>1 DEF TypeInv, Modes, SetupInv
  <2>4. expired \in [Units -> PacketOrNone]
    BY DEF TypeInv
  <2> QED
    BY <1>1, <2>1, <2>2, <2>3, <2>4 DEF SetupInv
<1>8. ASSUME NEW u \in Units, ExpireRecord(u)
      PROVE  SetupInv'
  <2>1. /\ emu = "expire" /\ expired[u] # None /\ goDown' = goDown
        /\ expired' = [expired EXCEPT ![u] = None]
    BY <1>8 DEF ExpireRecord
  <2>2. \A v \in Units : expired'[v] = None
    BY <2>1 DEF SetupInv, TypeInv
  <2> QED
    BY <1>1, <2>1, <2>2 DEF SetupInv
<1>9. CASE BeginReset
  <2>1. emu = "amiga" /\ emu' = "down" /\ UNCHANGED <<goDown, expired>>
    BY <1>9 DEF BeginReset
  <2> QED
    BY <1>1, <2>1 DEF SetupInv
<1>10. ASSUME NEW u \in Units, SendDeath(u)
       PROVE  SetupInv'
  <2>1. emu = "down" /\ emu' = "down" /\ UNCHANGED <<expired, waiting>>
    BY <1>10 DEF SendDeath, n2aVars
  <2> QED
    BY <1>1, <2>1 DEF SetupInv
<1>11. CASE Restart
  <2>1. emu = "down" /\ goDown' = EachUnit(FALSE) /\ expired' = expired
    BY <1>11 DEF Restart
  <2>2. \A u \in Units : ~goDown'[u] /\ expired'[u] = None
    BY <2>1 DEF EachUnit, SetupInv
  <2> QED
    BY <1>1, <2>2 DEF SetupInv
<1>12. ASSUME NEW u \in Units,
              Process(u) \/ \E p \in Packets : SendPacket(u, p)
       PROVE  SetupInv'
  BY <1>2, <1>12 DEF Process, SendPacket, n2aVars
<1>13. CASE UNCHANGED vars
  BY <1>2, <1>13 DEF vars, fsVars, n2aVars
<1> QED
  BY <1>3, <1>5, <1>6, <1>7, <1>8, <1>9, <1>10, <1>11, <1>12, <1>13
  DEF Next, Housekeeping, Reset

-----------------------------------------------------------------------------
(* What the Amiga knows of a packet: it is in the port of the unit it was    *)
(* sent to, or in the hands of the process, or in its queue                 *)

Queued(u, p) == client[p] = u /\ status[p] # Linked

Place(u) ==
  /\ msg[u] \in Packets => Queued(u, msg[u]) /\ msg[u] \notin ToSet(queue[u])
  /\ \A p \in ToSet(port[u]) \cap Packets : client[p] = u /\ status[p] = Linked
  /\ OnceEach(Packets, port[u])
  /\ \A p \in ToSet(queue[u]) : Queued(u, p)
  /\ OnceEach(Packets, queue[u])

\* A packet that is with its sender bears no mark.
IdleIsLinked == \A p \in Packets : client[p] = Idle => status[p] = Linked

PlaceInv == IdleIsLinked /\ \A u \in Units : Place(u)

LEMMA PlaceStart == ASSUME Init PROVE PlaceInv
BY Nothing, PacketsAssumption
DEF Init, PlaceInv, IdleIsLinked, Place, EachUnit

\* What others do to a packet is to mark it anew.
LEMMA PlaceMarked ==
  ASSUME TypeInv, PlaceInv, UNCHANGED <<client, port, queue, msg>>,
         \A p \in Packets : \/ status'[p] = status[p]
                            \/ status[p] # Linked /\ status'[p] # Linked
  PROVE  PlaceInv'
<1>1. IdleIsLinked'
  BY DEF PlaceInv, IdleIsLinked
<1>2. ASSUME NEW u \in Units
      PROVE  Place(u)'
  <2>1. Place(u) /\ ToSet(queue[u]) \subseteq Packets
    BY MembersAreOf DEF PlaceInv, TypeInv
  <2> QED
    BY <2>1 DEF Place, Queued
<1> QED
  BY <1>1, <1>2 DEF PlaceInv

LEMMA PlaceSend ==
  ASSUME TypeInv, PlaceInv, NEW u \in Units, NEW p \in Packets,
         SendPacket(u, p)
  PROVE  PlaceInv'
<1> USE DEF portVars, queueVars, processVars
<1>1. /\ client[p] = Idle /\ client' = [client EXCEPT ![p] = u]
      /\ port' = [port EXCEPT ![u] = Append(port[u], p)]
      /\ UNCHANGED <<queue, status, msg>>
  BY DEF SendPacket, PutMsg
<1>2. /\ client \in [Packets -> Units \cup {Idle}]
      /\ port \in [Units -> Seq(Packets \cup {Dummy})]
      /\ queue \in [Units -> Seq(Packets)]
  BY DEF TypeInv
<1>3. status[p] = Linked /\ u # Idle
  BY <1>1 DEF PlaceInv, IdleIsLinked, Idle, Units
<1>4. \A v \in Units : v # Idle
  BY DEF Idle, Units
<1>5. \A v \in Units : /\ p \notin ToSet(port[v]) /\ p \notin ToSet(queue[v])
                       /\ msg[v] # p
  BY <1>1, <1>3, <1>4 DEF PlaceInv, Place, Queued
<1>6. IdleIsLinked'
  BY <1>1, <1>2, <1>3 DEF PlaceInv, IdleIsLinked
<1>7. ASSUME NEW v \in Units
      PROVE  Place(v)'
  <2>1. Place(v) /\ ToSet(queue[v]) \subseteq Packets
    BY <1>2, MembersAreOf DEF PlaceInv
  <2>2. /\ ToSet(Append(port[u], p)) = ToSet(port[u]) \cup {p}
        /\ OnceEach(Packets, port[u]) => OnceEach(Packets, Append(port[u], p))
    <3>1. /\ port[u] \in Seq(Packets \cup {Dummy})
          /\ p \in Packets \cup {Dummy} /\ p \notin ToSet(port[u])
      BY <1>2, <1>5
    <3> QED
      BY <3>1, AppendMembers
  <2>3. CASE v = u
    BY <1>1, <1>2, <1>3, <1>5, <2>1, <2>2, <2>3 DEF Place, Queued
  <2>4. CASE v # u
    BY <1>1, <1>2, <1>5, <2>1, <2>4 DEF Place, Queued
  <2> QED
    BY <2>3, <2>4
<1> QED
  BY <1>6, <1>7 DEF PlaceInv

\* A packet is taken from the port and marked.
LEMMA PlaceTaken ==
  ASSUME TypeInv, PlaceInv, NEW u \in Units, NEW p \in Packets,
         Get(u, p), NEW mark \in {Started, Unstarted},
         status' = [status EXCEPT ![p] = mark], msg' = [msg EXCEPT ![u] = p],
         UNCHANGED <<client, queue>>
  PROVE  PlaceInv'
<1>1. /\ client \in [Packets -> Units \cup {Idle}]
      /\ status \in [Packets -> Statuses] /\ msg \in [Units -> PacketOrNone]
      /\ port \in [Units -> Seq(Packets \cup {Dummy})]
      /\ queue \in [Units -> Seq(Packets)]
  BY DEF TypeInv
<1>2. /\ port[u] # << >> /\ p = Head(port[u])
      /\ port' = [port EXCEPT ![u] = Tail(port[u])]
  BY DEF Get
<1>3. /\ ToSet(port[u]) = {p} \cup ToSet(Tail(port[u]))
      /\ OnceEach(Packets, Tail(port[u])) /\ p \notin ToSet(Tail(port[u]))
  <2>1. port[u] \in Seq(Packets \cup {Dummy}) /\ OnceEach(Packets, port[u])
    BY <1>1 DEF PlaceInv, Place
  <2> QED
    BY <1>2, <2>1, TailMembers
<1>4. client[p] = u /\ status[p] = Linked /\ mark # Linked
  BY <1>3 DEF PlaceInv, Place, Started, Unstarted, Linked
<1>5. \A v \in Units : p \notin ToSet(queue[v]) /\ msg[v] # p
  BY <1>4 DEF PlaceInv, Place, Queued
<1>6. \A v \in Units \ {u} : p \notin ToSet(port[v])
  BY <1>4 DEF PlaceInv, Place
<1>7. IdleIsLinked'
  BY <1>1, <1>4 DEF PlaceInv, IdleIsLinked, Idle, Units
<1>8. ASSUME NEW v \in Units
      PROVE  Place(v)'
  <2>1. Place(v) /\ ToSet(queue[v]) \subseteq Packets
    BY <1>1, MembersAreOf DEF PlaceInv
  <2>2. CASE v = u
    BY <1>1, <1>2, <1>3, <1>4, <1>5, <2>1, <2>2 DEF Place, Queued
  <2>3. CASE v # u
    BY <1>1, <1>2, <1>4, <1>5, <1>6, <2>1, <2>3 DEF Place, Queued
  <2> QED
    BY <2>2, <2>3
<1> QED
  BY <1>7, <1>8 DEF PlaceInv

\* A packet of the queue is replied: nobody has it any more.
LEMMA PlaceReplied ==
  ASSUME TypeInv, PlaceInv, NEW u \in Units, ReplyOne(u)
  PROVE  PlaceInv'
<1> DEFINE p == Scanned(u)
<1>1. /\ client \in [Packets -> Units \cup {Idle}]
      /\ status \in [Packets -> Statuses] /\ msg \in [Units -> PacketOrNone]
      /\ port \in [Units -> Seq(Packets \cup {Dummy})]
      /\ queue \in [Units -> Seq(Packets)]
  BY DEF TypeInv
<1>2. at[u] \in 1 .. Len(queue[u])
  BY <1>1 DEF ReplyOne, TypeInv
<1>3. /\ client' = [client EXCEPT ![p] = Idle]
      /\ status' = [status EXCEPT ![p] = Linked]
      /\ queue' = [queue EXCEPT ![u] = RemoveAt(queue[u], at[u])]
      /\ UNCHANGED <<port, msg>>
  BY DEF ReplyOne
<1>4. /\ p \in Packets /\ p \in ToSet(queue[u])
      /\ ToSet(RemoveAt(queue[u], at[u])) \subseteq ToSet(queue[u])
      /\ OnceEach(Packets, RemoveAt(queue[u], at[u]))
      /\ p \notin ToSet(RemoveAt(queue[u], at[u]))
  <2>1. queue[u] \in Seq(Packets) /\ OnceEach(Packets, queue[u])
    BY <1>1 DEF PlaceInv, Place
  <2> QED
    BY <1>2, <2>1, RemoveMembers DEF Scanned
<1>5. client[p] = u /\ status[p] # Linked
  BY <1>4 DEF PlaceInv, Place, Queued
<1> HIDE DEF p
<1>6. \A v \in Units : p \notin ToSet(port[v]) /\ msg[v] # p
  BY <1>4, <1>5 DEF PlaceInv, Place, Queued
<1>7. \A v \in Units \ {u} : p \notin ToSet(queue[v])
  BY <1>5 DEF PlaceInv, Place, Queued
<1>8. IdleIsLinked'
  BY <1>1, <1>3 DEF PlaceInv, IdleIsLinked
<1>9. ASSUME NEW v \in Units
      PROVE  Place(v)'
  <2>1. Place(v) /\ ToSet(queue[v]) \subseteq Packets
    BY <1>1, MembersAreOf DEF PlaceInv
  <2>2. CASE v = u
    BY <1>1, <1>3, <1>4, <1>6, <2>1, <2>2 DEF Place, Queued
  <2>3. CASE v # u
    BY <1>1, <1>3, <1>6, <1>7, <2>1, <2>3 DEF Place, Queued
  <2> QED
    BY <2>2, <2>3
<1> QED
  BY <1>8, <1>9 DEF PlaceInv

LEMMA PlaceProcess ==
  ASSUME TypeInv, HandInv, PlaceInv, NEW u \in Units, Process(u)
  PROVE  PlaceInv'
<1> USE DEF ProcessTo, portVars, queueVars
<1>1. /\ msg \in [Units -> PacketOrNone] /\ status \in [Packets -> Statuses]
      /\ port \in [Units -> Seq(Packets \cup {Dummy})]
      /\ queue \in [Units -> Seq(Packets)]
  BY DEF TypeInv
<1>2. CASE HandOver(u) \/ HoldBack(u)
  <2>1. PICK p \in Packets, mark \in {Started, Unstarted} :
          /\ Get(u, p) /\ msg' = [msg EXCEPT ![u] = p]
          /\ status' = [status EXCEPT ![p] = mark]
    BY <1>2 DEF HandOver, HoldBack
  <2>2. UNCHANGED <<client, queue>>
    BY <1>2 DEF HandOver, HoldBack
  <2> QED
    BY <2>1, <2>2, PlaceTaken
<1>3. CASE Enqueue(u)
  <2> DEFINE p == msg[u]
  <2>1. /\ queue' = [queue EXCEPT ![u] = <<p>> \o queue[u]]
        /\ msg' = [msg EXCEPT ![u] = None]
        /\ UNCHANGED <<client, port, status>>
    BY <1>3 DEF Enqueue
  <2>2. p \in Packets
    BY <1>3 DEF Enqueue, HandInv
  <2>3. Queued(u, p) /\ p \notin ToSet(queue[u])
    BY <2>2 DEF PlaceInv, Place
  <2>4. /\ ToSet(<<p>> \o queue[u]) = {p} \cup ToSet(queue[u])
        /\ OnceEach(Packets, <<p>> \o queue[u])
    <3>1. queue[u] \in Seq(Packets) /\ OnceEach(Packets, queue[u])
      BY <1>1 DEF PlaceInv, Place
    <3> HIDE DEF p
    <3> QED
      BY <2>2, <2>3, <3>1, ConsMembers
  <2> HIDE DEF p
  <2>5. ASSUME NEW v \in Units
        PROVE  Place(v)'
    <3>1. Place(v) /\ None \notin Packets
      BY PacketsAssumption DEF PlaceInv
    <3>2. CASE v = u
      BY <1>1, <2>1, <2>2, <2>3, <2>4, <3>1, <3>2 DEF Place, Queued
    <3>3. CASE v # u
      BY <1>1, <2>1, <3>1, <3>3 DEF Place, Queued
    <3> QED
      BY <3>2, <3>3
  <2> QED
    BY <2>1, <2>5 DEF PlaceInv, IdleIsLinked
<1>4. CASE GetDummy(u)
  <2>1. /\ Get(u, Dummy) /\ UNCHANGED <<client, queue, status, msg>>
    BY <1>4 DEF GetDummy
  <2>2. /\ port' = [port EXCEPT ![u] = Tail(port[u])] /\ port[u] # << >>
    BY <2>1 DEF Get
  <2>3. /\ ToSet(Tail(port[u])) \subseteq ToSet(port[u])
        /\ OnceEach(Packets, Tail(port[u]))
    <3>1. port[u] \in Seq(Packets \cup {Dummy}) /\ OnceEach(Packets, port[u])
      BY <1>1 DEF PlaceInv, Place
    <3> QED
      BY <2>2, <3>1, TailMembers
  <2>4. ASSUME NEW v \in Units
        PROVE  Place(v)'
    <3>1. Place(v)
      BY DEF PlaceInv
    <3> QED
      BY <1>1, <2>1, <2>2, <2>3, <3>1 DEF Place, Queued
  <2> QED
    BY <2>1, <2>4 DEF PlaceInv, IdleIsLinked
<1>5. CASE GetNothing(u) \/ WakeUp(u) \/ ReleaseMessageLock(u)
           \/ CheckNext(u) \/ ScanEnds(u)
  <2>1. UNCHANGED <<client, port, queue, msg, status>>
    BY <1>5 DEF GetNothing, WakeUp, ReleaseMessageLock, CheckNext, ScanEnds
  <2> QED
    BY <2>1, PlaceMarked
<1> QED
  BY <1>2, <1>3, <1>4, <1>5, PlaceReplied DEF Process

-----------------------------------------------------------------------------
(* What the host has: the packets that are marked as started               *)

StartedAt(u, p) == client[p] = u /\ status[p] = Started

\* Where the thread is, it has a packet in its hands or none; the death
\* message is sent only to a unit that goes down.
ThreadPlace(u) ==
  /\ mode = "synchronous" => thread[u] \in {"read", "dead"}
  /\ thread[u] \in {"work", "free"} => cmd[u] \in Packets
  /\ thread[u] = "taken" => cmd[u] # None
  /\ thread[u] \notin {"taken", "work", "free"} => cmd[u] = None
  /\ thread[u] = "free" => record[u] \in waiting[u]
  /\ Death \in ToSet(unitPipe[u]) \/ cmd[u] = Death => goDown[u]

\* A packet is in the pipe, in the thread's hands, or waits for a record.
ThreadHas(u) ==
  /\ \A p \in WithThread(u) : StartedAt(u, p)
  /\ OnceEach(Packets \cup {Death}, unitPipe[u])
  /\ cmd[u] \in Packets =>
       cmd[u] \notin waiting[u] /\ cmd[u] \notin ToSet(unitPipe[u])
  /\ waiting[u] \cap ToSet(unitPipe[u]) = {}
  /\ ~goDown[u] => \A p \in Packets : StartedAt(u, p) => p \in WithThread(u)

ThreadInv == \A u \in Units : ThreadPlace(u) /\ ThreadHas(u)

LEMMA NoMessage ==
  /\ Death \notin Packets /\ None \notin Packets /\ Dummy \notin Packets
  /\ None # Death
  BY PacketsAssumption DEF None, Death, Dummy

LEMMA ThreadStart == ASSUME Init PROVE ThreadInv
<1>1. ASSUME NEW u \in Units
      PROVE  /\ thread[u] = "read" /\ cmd[u] = None /\ waiting[u] = {}
             /\ unitPipe[u] = << >> /\ \A p \in Packets : status[p] = Linked
  BY DEF Init, EachUnit
<1>2. Linked # Started
  BY DEF Linked, Started
<1> QED
  BY <1>1, <1>2, Nothing, NoMessage
  DEF ThreadInv, ThreadPlace, ThreadHas, WithThread, StartedAt

\* A step that neither the thread of unit v nor any started packet of v takes
\* part in.
LEMMA ThreadOther ==
  ASSUME ThreadInv, NEW v \in Units,
         unitPipe'[v] = unitPipe[v], thread'[v] = thread[v], cmd'[v] = cmd[v],
         waiting'[v] = waiting[v], record'[v] = record[v],
         goDown'[v] = goDown[v], mode' = mode,
         \A p \in Packets : StartedAt(v, p)' <=> StartedAt(v, p)
  PROVE  ThreadPlace(v)' /\ ThreadHas(v)'
<1>1. ThreadPlace(v) /\ ThreadHas(v)
  BY DEF ThreadInv
<1>2. ThreadPlace(v)'
  BY <1>1 DEF ThreadPlace
<1>3. WithThread(v)' = WithThread(v) /\ WithThread(v) \subseteq Packets
  BY DEF WithThread
<1>4. ThreadHas(v)'
  BY <1>1, <1>3 DEF ThreadHas
<1> QED
  BY <1>2, <1>4

LEMMA ThreadFrame ==
  ASSUME ThreadInv,
         UNCHANGED <<unitPipe, thread, cmd, waiting, record, goDown, mode>>,
         \A v \in Units, p \in Packets : StartedAt(v, p)' <=> StartedAt(v, p)
  PROVE  ThreadInv'
BY ThreadOther DEF ThreadInv

LEMMA ThreadProcess ==
  ASSUME TypeInv, PlaceInv, ThreadInv, NEW u \in Units, Process(u)
  PROVE  ThreadInv'
<1> USE DEF ProcessTo, portVars, queueVars
<1>1. /\ UNCHANGED <<thread, cmd, waiting, record, goDown, mode>>
      /\ client \in [Packets -> Units \cup {Idle}]
      /\ status \in [Packets -> Statuses]
      /\ port \in [Units -> Seq(Packets \cup {Dummy})]
      /\ queue \in [Units -> Seq(Packets)]
      /\ unitPipe \in [Units -> Seq(Packets \cup {Death})]
  BY DEF Process, TypeInv, threadVars, setupVars
<1>2. CASE HandOver(u)
  <2>1. PICK p \in Packets :
          /\ Get(u, p) /\ status' = [status EXCEPT ![p] = Started]
          /\ unitPipe' = [unitPipe EXCEPT ![u] = Append(unitPipe[u], p)]
          /\ client' = client
    BY <1>2 DEF HandOver
  <2>2. client[p] = u /\ status[p] = Linked /\ Linked # Started
    <3>1. port[u] # << >> /\ p = Head(port[u])
      BY <2>1 DEF Get
    <3>2. p \in ToSet(port[u])
      BY <1>1, <3>1, TailMembers
    <3> QED
      BY <3>2 DEF PlaceInv, Place, Linked, Started
  <2>3. ASSUME NEW v \in Units, v # u
        PROVE  ThreadPlace(v)' /\ ThreadHas(v)'
    <3>1. \A q \in Packets : StartedAt(v, q)' <=> StartedAt(v, q)
      BY <1>1, <2>1, <2>2, <2>3 DEF StartedAt
    <3> QED
      BY <1>1, <2>1, <2>3, <3>1, ThreadOther
  <2>4. /\ StartedAt(u, p)' /\ ~StartedAt(u, p)
        /\ \A q \in Packets : q # p => (StartedAt(u, q)' <=> StartedAt(u, q))
    BY <1>1, <2>1, <2>2 DEF StartedAt
  <2>5. ThreadPlace(u) /\ ThreadHas(u) /\ p \notin WithThread(u)
    BY <2>4 DEF ThreadInv, ThreadHas
  <2>6. /\ unitPipe'[u] = Append(unitPipe[u], p)
        /\ ToSet(unitPipe'[u]) = ToSet(unitPipe[u]) \cup {p}
        /\ OnceEach(Packets \cup {Death}, unitPipe'[u])
    <3>1. OnceEach(Packets \cup {Death}, unitPipe[u]) /\ p \notin ToSet(unitPipe[u])
      BY <2>5 DEF ThreadHas, WithThread
    <3>2. unitPipe[u] \in Seq(Packets \cup {Death}) /\ p \in Packets \cup {Death}
      BY <1>1
    <3>3. unitPipe'[u] = Append(unitPipe[u], p)
      BY <1>1, <2>1
    <3> QED
      BY <3>1, <3>2, <3>3, AppendMembers
  <2>7. WithThread(u)' = WithThread(u) \cup {p}
    BY <1>1, <2>6 DEF WithThread
  <2>8. ThreadPlace(u)'
    BY <1>1, <2>5, <2>6, NoMessage DEF ThreadPlace
  <2>9. ThreadHas(u)'
    <3>1. cmd[u] # p /\ p \notin waiting[u]
      BY <2>5 DEF WithThread
    <3>2. WithThread(u) \subseteq Packets
      BY DEF WithThread
    <3> QED
      BY <1>1, <2>4, <2>5, <2>6, <2>7, <3>1, <3>2 DEF ThreadHas
  <2> QED
    BY <2>3, <2>8, <2>9 DEF ThreadInv
<1>3. CASE HoldBack(u)
  <2>1. PICK p \in Packets :
          Get(u, p) /\ status' = [status EXCEPT ![p] = Unstarted]
    BY <1>3 DEF HoldBack
  <2>2. client' = client /\ unitPipe' = unitPipe
    BY <1>3 DEF HoldBack
  <2>3. status[p] = Linked /\ Linked # Started /\ Unstarted # Started
    <3>1. port[u] # << >> /\ p = Head(port[u])
      BY <2>1 DEF Get
    <3>2. p \in ToSet(port[u])
      BY <1>1, <3>1, TailMembers
    <3> QED
      BY <3>2 DEF PlaceInv, Place, Linked, Started, Unstarted
  <2>4. \A v \in Units, q \in Packets : StartedAt(v, q)' <=> StartedAt(v, q)
    BY <1>1, <2>1, <2>2, <2>3 DEF StartedAt
  <2> QED
    BY <1>1, <2>2, <2>4, ThreadFrame
<1>4. CASE ReplyOne(u)
  <2> DEFINE p == Scanned(u)
  <2>1. /\ client' = [client EXCEPT ![p] = Idle] /\ unitPipe' = unitPipe
        /\ status' = [status EXCEPT ![p] = Linked]
        /\ status[p] = doneValue[u] /\ at[u] <= Len(queue[u])
    BY <1>4 DEF ReplyOne
  <2>2. status[p] # Started /\ Linked # Started
    <3>1. doneValue[u] \in {Done, TimedOut}
      BY DEF TypeInv
    <3> QED
      BY <2>1, <3>1 DEF Done, TimedOut, Started, Linked
  <2> HIDE DEF p
  <2>3. \A v \in Units, q \in Packets : StartedAt(v, q)' <=> StartedAt(v, q)
    BY <1>1, <2>1, <2>2 DEF StartedAt
  <2> QED
    BY <1>1, <2>1, <2>3, ThreadFrame
<1>5. CASE GetNothing(u) \/ GetDummy(u) \/ WakeUp(u) \/ ReleaseMessageLock(u)
           \/ Enqueue(u) \/ CheckNext(u) \/ ScanEnds(u)
  <2>1. UNCHANGED <<client, status, unitPipe>>
    BY <1>5 DEF GetNothing, GetDummy, WakeUp, ReleaseMessageLock, Enqueue,
       CheckNext, ScanEnds
  <2>2. \A v \in Units, q \in Packets : StartedAt(v, q)' <=> StartedAt(v, q)
    BY <2>1 DEF StartedAt
  <2> QED
    BY <1>1, <2>1, <2>2, ThreadFrame
<1> QED
  BY <1>2, <1>3, <1>4, <1>5 DEF Process

\* The thread of a unit, and what it does to the packets in its hands.
LEMMA ThreadWorks ==
  ASSUME TypeInv, ThreadInv, NEW u \in Units, UnitThread(u)
  PROVE  /\ ThreadInv'
         /\ \A p \in Packets : \/ status'[p] = status[p]
                               \/ StartedAt(u, p) /\ status'[p] = Done
<1> USE DEF ThreadTo
<1>1. /\ status \in [Packets -> Statuses] /\ thread \in [Units -> ThreadPositions]
      /\ unitPipe \in [Units -> Seq(Packets \cup {Death})]
      /\ cmd \in [Units -> PacketOrNone \cup {Death}]
      /\ waiting \in [Units -> SUBSET Packets]
      /\ record \in [Units -> PacketOrNone]
  BY DEF TypeInv
<1>2. mode = "threads" /\ UNCHANGED <<mode, client, goDown>>
  BY DEF UnitThread, setupVars, portVars
<1>3. ThreadPlace(u) /\ ThreadHas(u)
  BY DEF ThreadInv
<1>4. ASSUME NEW v \in Units, v # u,
             unitPipe'[v] = unitPipe[v], thread'[v] = thread[v],
             cmd'[v] = cmd[v], waiting'[v] = waiting[v],
             record'[v] = record[v],
             \A p \in Packets : status'[p] = status[p] \/ client[p] = u
      PROVE  ThreadPlace(v)' /\ ThreadHas(v)'
  <2>1. \A p \in Packets : StartedAt(v, p)' <=> StartedAt(v, p)
    BY <1>2, <1>4 DEF StartedAt
  <2> QED
    BY <1>2, <1>4, <2>1, ThreadOther
<1>5. CASE ReadPacket(u)
  <2> DEFINE c == Head(unitPipe[u])
  <2>1. /\ thread[u] = "read" /\ thread' = [thread EXCEPT ![u] = "taken"]
        /\ unitPipe[u] # << >>
        /\ unitPipe' = [unitPipe EXCEPT ![u] = Tail(unitPipe[u])]
        /\ cmd' = [cmd EXCEPT ![u] = c]
        /\ UNCHANGED <<status, record, waiting>>
    BY <1>5 DEF ReadPacket
  <2>2. /\ c \in Packets \cup {Death}
        /\ ToSet(unitPipe[u]) = {c} \cup ToSet(Tail(unitPipe[u]))
        /\ OnceEach(Packets \cup {Death}, Tail(unitPipe[u]))
        /\ c \notin ToSet(Tail(unitPipe[u]))
    <3>1. OnceEach(Packets \cup {Death}, unitPipe[u])
          /\ unitPipe[u] \in Seq(Packets \cup {Death})
      BY <1>1, <1>3 DEF ThreadHas
    <3> QED
      BY <2>1, <3>1, TailMembers
  <2> HIDE DEF c
  <2>3. cmd[u] = None
    BY <1>3, <2>1 DEF ThreadPlace
  <2>4. /\ unitPipe'[u] = Tail(unitPipe[u]) /\ cmd'[u] = c
        /\ thread'[u] = "taken"
    BY <1>1, <2>1
  <2>5. WithThread(u)' = WithThread(u)
    BY <2>1, <2>2, <2>3, <2>4, NoMessage DEF WithThread
  <2>6. ThreadPlace(u)'
    BY <1>2, <1>3, <2>1, <2>2, <2>4, NoMessage DEF ThreadPlace
  <2>7. ThreadHas(u)'
    <3>1. \A p \in Packets : StartedAt(u, p)' <=> StartedAt(u, p)
      BY <1>2, <2>1 DEF StartedAt
    <3>2. WithThread(u) \subseteq Packets
      BY DEF WithThread
    <3> QED
      BY <1>2, <1>3, <2>1, <2>2, <2>4, <2>5, <3>1, <3>2 DEF ThreadHas
  <2>8. \A v \in Units : v # u => ThreadPlace(v)' /\ ThreadHas(v)'
    BY <1>1, <1>4, <2>1
  <2> QED
    BY <2>1, <2>6, <2>7, <2>8 DEF ThreadInv
\* The pipe, the packets that wait and the marks are left alone.
<1>6. ASSUME UNCHANGED <<unitPipe, waiting, status>>,
             NEW to \in ThreadPositions, NEW c \in PacketOrNone \cup {Death},
             NEW r \in PacketOrNone,
             thread' = [thread EXCEPT ![u] = to],
             cmd' = [cmd EXCEPT ![u] = c],
             record' = [record EXCEPT ![u] = r],
             c = cmd[u] \/ (c = None /\ (goDown[u] \/ cmd[u] = None)),
             to \in {"work", "free"} => c \in Packets, to # "taken",
             to \notin {"work", "free"} => c = None,
             to = "free" => r \in waiting[u]
      PROVE  ThreadInv'
  <2>1. thread'[u] = to /\ cmd'[u] = c /\ record'[u] = r
    BY <1>1, <1>6
  <2>2. ThreadPlace(u)'
    BY <1>2, <1>3, <1>6, <2>1, NoMessage DEF ThreadPlace
  <2>3. \A p \in Packets : StartedAt(u, p)' <=> StartedAt(u, p)
    BY <1>2, <1>6 DEF StartedAt
  <2>4. /\ WithThread(u)' \subseteq WithThread(u)
        /\ WithThread(u) \subseteq Packets
        /\ ~goDown[u] => WithThread(u)' = WithThread(u)
    BY <1>6, <2>1, NoMessage DEF WithThread
  <2>5. ThreadHas(u)'
    BY <1>2, <1>3, <1>6, <2>1, <2>3, <2>4, NoMessage DEF ThreadHas
  <2>6. \A v \in Units : v # u => ThreadPlace(v)' /\ ThreadHas(v)'
    BY <1>1, <1>4, <1>6
  <2> QED
    BY <2>2, <2>5, <2>6 DEF ThreadInv
<1>7. CASE Begin(u)
  <2> DEFINE to == IF ~goDown[u] THEN "work"
                   ELSE IF cmd[u] = Death THEN "dead" ELSE "read"
             c == IF goDown[u] THEN None ELSE cmd[u]
  <2>1. /\ thread[u] = "taken" /\ thread' = [thread EXCEPT ![u] = to]
        /\ cmd' = [cmd EXCEPT ![u] = c]
        /\ UNCHANGED <<unitPipe, status, record, waiting>>
    BY <1>7 DEF Begin
  <2>2. to \in ThreadPositions /\ c \in PacketOrNone \cup {Death}
    BY <1>1 DEF ThreadPositions, PacketOrNone
  <2>3. record' = [record EXCEPT ![u] = record[u]]
    BY <1>1, <2>1
  <2>4. cmd[u] # None /\ (~goDown[u] => cmd[u] # Death)
    BY <1>3, <2>1 DEF ThreadPlace
  <2>5. to \in {"work", "free"} => c \in Packets
    BY <1>1, <2>4 DEF PacketOrNone
  <2>6. to \notin {"work", "free"} => c = None
    OBVIOUS
  <2>7. to # "free" /\ to # "taken"
    OBVIOUS
  <2>8. c = cmd[u] \/ (c = None /\ goDown[u])
    OBVIOUS
  <2>9. record[u] \in PacketOrNone
    BY <1>1
  <2> HIDE DEF to, c
  <2> QED
    BY <1>6, <2>1, <2>2, <2>3, <2>5, <2>6, <2>7, <2>8, <2>9
<1>8. CASE FindFreeRecord(u)
  <2>1. PICK p \in waiting[u] : record' = [record EXCEPT ![u] = p]
    BY <1>8 DEF FindFreeRecord
  <2>2. /\ thread[u] = "work" /\ thread' = [thread EXCEPT ![u] = "free"]
        /\ UNCHANGED <<unitPipe, status, cmd, waiting>>
    BY <1>8 DEF FindFreeRecord
  <2>3. cmd' = [cmd EXCEPT ![u] = cmd[u]] /\ cmd[u] \in Packets
    BY <1>1, <1>3, <2>2 DEF ThreadPlace
  <2>4. "free" \in ThreadPositions /\ p \in PacketOrNone
        /\ cmd[u] \in PacketOrNone \cup {Death}
    BY <1>1 DEF ThreadPositions, PacketOrNone
  <2>5. "free" # "taken" /\ "free" \in {"work", "free"}
    OBVIOUS
  <2> QED
    BY <1>6, <2>1, <2>2, <2>3, <2>4, <2>5
<1>9. CASE CountSent(u) \/ AskForInterrupt(u)
  <2>1. PICK to \in {"ask", "asking", "read"} :
          thread' = [thread EXCEPT ![u] = to] /\ thread[u] \in {"count", "ask", "asking"}
    BY <1>9 DEF CountSent, AskForInterrupt
  <2>2. UNCHANGED <<unitPipe, status, cmd, waiting, record>>
    BY <1>9 DEF CountSent, AskForInterrupt
  <2>3. cmd[u] = None /\ cmd' = [cmd EXCEPT ![u] = None]
        /\ record' = [record EXCEPT ![u] = record[u]]
    BY <1>1, <1>3, <2>1, <2>2 DEF ThreadPlace
  <2>4. to \in ThreadPositions /\ None \in PacketOrNone \cup {Death}
        /\ record[u] \in PacketOrNone
    BY <1>1 DEF ThreadPositions, PacketOrNone
  <2>5. to \notin {"work", "free", "taken"}
    OBVIOUS
  <2> QED
    BY <1>6, <2>1, <2>2, <2>3, <2>4, <2>5
<1>10. CASE WaitForRecord(u)
  <2> DEFINE p == cmd[u]
  <2>1. /\ thread[u] = "work" /\ thread' = [thread EXCEPT ![u] = "count"]
        /\ p \in Lockers /\ cmd' = [cmd EXCEPT ![u] = None]
        /\ waiting' = [waiting EXCEPT ![u] = waiting[u] \cup {p}]
        /\ UNCHANGED <<status, unitPipe, record>>
    BY <1>10 DEF WaitForRecord
  <2>2. p \in Packets
    BY <2>1, FilesysAssumption
  <2>3. /\ thread'[u] = "count" /\ cmd'[u] = None
        /\ waiting'[u] = waiting[u] \cup {p}
    BY <1>1, <2>1
  <2>4. ThreadPlace(u)'
    BY <1>2, <1>3, <2>1, <2>2, <2>3, NoMessage DEF ThreadPlace
  <2>5. WithThread(u)' = WithThread(u) /\ WithThread(u) \subseteq Packets
    BY <2>1, <2>2, <2>3, NoMessage DEF WithThread
  <2>6. \A q \in Packets : StartedAt(u, q)' <=> StartedAt(u, q)
    BY <1>2, <2>1 DEF StartedAt
  <2>7. ThreadHas(u)'
    BY <1>2, <1>3, <2>1, <2>2, <2>3, <2>5, <2>6, NoMessage DEF ThreadHas
  <2>8. \A v \in Units : v # u => ThreadPlace(v)' /\ ThreadHas(v)'
    BY <1>1, <1>4, <2>1
  <2> QED
    BY <2>1, <2>4, <2>7, <2>8 DEF ThreadInv
<1>11. CASE GrantRecord(u)
  <2>0. PICK p \in Packets : p = record[u]
    BY <1>1, <1>3, <1>11 DEF GrantRecord, ThreadPlace
  <2>1. /\ thread[u] = "free" /\ thread' = [thread EXCEPT ![u] = "work"]
        /\ waiting' = [waiting EXCEPT ![u] = waiting[u] \ {p}]
        /\ status' = [status EXCEPT ![p] = Done]
        /\ record' = [record EXCEPT ![u] = None]
        /\ UNCHANGED <<unitPipe, cmd>>
    BY <1>11, <2>0 DEF GrantRecord
  <2>2. p \in waiting[u] /\ cmd[u] \in Packets
    BY <1>1, <1>3, <2>0, <2>1 DEF ThreadPlace
  <2>3. /\ StartedAt(u, p) /\ cmd[u] # p /\ p \notin ToSet(unitPipe[u])
        /\ Done # Started
    BY <1>3, <2>2 DEF ThreadHas, WithThread, Done, Started
  <2>4. thread'[u] = "work" /\ waiting'[u] = waiting[u] \ {p}
    BY <1>1, <2>1
  <2>5. ThreadPlace(u)'
    BY <1>2, <1>3, <2>1, <2>2, <2>4 DEF ThreadPlace
  <2>6. /\ WithThread(u)' = WithThread(u) \ {p}
        /\ WithThread(u) \subseteq Packets
    BY <2>1, <2>3, <2>4 DEF WithThread
  <2>7. /\ ~StartedAt(u, p)'
        /\ \A q \in Packets : q # p => (StartedAt(u, q)' <=> StartedAt(u, q))
    BY <1>1, <1>2, <2>1, <2>2, <2>3 DEF StartedAt
  <2>8. ThreadHas(u)'
    BY <1>2, <1>3, <2>1, <2>3, <2>4, <2>6, <2>7 DEF ThreadHas
  <2>9. \A v \in Units : v # u => ThreadPlace(v)' /\ ThreadHas(v)'
    BY <1>1, <1>4, <2>1, <2>2, <2>3 DEF StartedAt
  <2> QED
    BY <1>1, <2>1, <2>3, <2>5, <2>8, <2>9 DEF ThreadInv
<1>12. CASE MarkDone(u)
  <2>0. PICK p \in Packets : p = cmd[u]
    BY <1>3, <1>12 DEF MarkDone, ThreadPlace
  <2>1. /\ thread[u] = "work" /\ thread' = [thread EXCEPT ![u] = "count"]
        /\ status' = [status EXCEPT ![p] = Done]
        /\ cmd' = [cmd EXCEPT ![u] = None]
        /\ UNCHANGED <<unitPipe, record, waiting>>
    BY <1>12, <2>0 DEF MarkDone
  <2>3. /\ StartedAt(u, p) /\ p \notin waiting[u] /\ p \notin ToSet(unitPipe[u])
        /\ Done # Started
    BY <1>3, <2>0 DEF ThreadHas, WithThread, Done, Started
  <2>4. thread'[u] = "count" /\ cmd'[u] = None
    BY <1>1, <2>1
  <2>5. ThreadPlace(u)'
    BY <1>2, <1>3, <2>1, <2>4, NoMessage DEF ThreadPlace
  <2>6. /\ WithThread(u)' = WithThread(u) \ {p}
        /\ WithThread(u) \subseteq Packets
    BY <2>0, <2>1, <2>3, <2>4, NoMessage DEF WithThread
  <2>7. /\ ~StartedAt(u, p)'
        /\ \A q \in Packets : q # p => (StartedAt(u, q)' <=> StartedAt(u, q))
    BY <1>1, <1>2, <2>1, <2>3 DEF StartedAt
  <2>8. ThreadHas(u)'
    BY <1>2, <1>3, <2>1, <2>3, <2>4, <2>6, <2>7, NoMessage DEF ThreadHas
  <2>9. \A v \in Units : v # u => ThreadPlace(v)' /\ ThreadHas(v)'
    BY <1>1, <1>4, <2>1, <2>3 DEF StartedAt
  <2> QED
    BY <1>1, <2>1, <2>3, <2>5, <2>8, <2>9 DEF ThreadInv
<1> QED
  BY <1>5, <1>6, <1>7, <1>8, <1>9, <1>10, <1>11, <1>12 DEF UnitThread

\* In synchronous mode the emulation thread has a packet of the pipe carried
\* out, and those that its record lets go on.
LEMMA SynchronousWorks ==
  ASSUME TypeInv, SetupInv, ThreadInv, NEW u \in Units, SynchronousIteration(u)
  PROVE  /\ ThreadInv'
         /\ \E P \in SUBSET Packets :
              /\ \A p \in P : StartedAt(u, p)
              /\ status' = [p \in Packets |-> IF p \in P THEN Done
                                                         ELSE status[p]]
<1>1. /\ status \in [Packets -> Statuses]
      /\ thread \in [Units -> ThreadPositions]
      /\ unitPipe \in [Units -> Seq(Packets \cup {Death})]
      /\ waiting \in [Units -> SUBSET Packets]
  BY DEF TypeInv
<1>2. /\ mode = "synchronous" /\ emu = "amiga" /\ unitPipe[u] # << >>
      /\ unitPipe' = [unitPipe EXCEPT ![u] = Tail(unitPipe[u])]
      /\ UNCHANGED <<mode, client, goDown, thread, cmd, record>>
  BY DEF SynchronousIteration, setupVars, portVars, threadVars
<1>3. ThreadPlace(u) /\ ThreadHas(u)
  BY DEF ThreadInv
<1>4. ~goDown[u] /\ thread[u] \notin {"taken", "work", "free"} /\ cmd[u] = None
  BY <1>2, <1>3 DEF SetupInv, ThreadPlace
<1>5. PICK h : h = Head(unitPipe[u])
  OBVIOUS
<1>6. /\ ToSet(unitPipe[u]) = {h} \cup ToSet(Tail(unitPipe[u]))
      /\ OnceEach(Packets \cup {Death}, Tail(unitPipe[u]))
      /\ h \in Packets \cup {Death} /\ h \notin ToSet(Tail(unitPipe[u]))
  <2>1. OnceEach(Packets \cup {Death}, unitPipe[u])
        /\ unitPipe[u] \in Seq(Packets \cup {Death})
    BY <1>1, <1>3 DEF ThreadHas
  <2> QED
    BY <1>2, <1>5, <2>1, TailMembers
<1>7. h \in Packets /\ h \in WithThread(u) /\ h \notin waiting[u]
  BY <1>3, <1>4, <1>6 DEF ThreadPlace, ThreadHas, WithThread
<1>8. WithThread(u) \subseteq Packets /\ \A p \in WithThread(u) : StartedAt(u, p)
  BY <1>3 DEF ThreadHas, WithThread
\* The packets that are done, and those that wait.
<1>9. PICK P \in SUBSET Packets, W \in SUBSET Packets :
        /\ status' = [p \in Packets |-> IF p \in P THEN Done ELSE status[p]]
        /\ waiting' = [waiting EXCEPT ![u] = W]
        /\ P \subseteq {h} \cup waiting[u]
        /\ W = (waiting[u] \cup {h}) \ P
  <2>1. CASE /\ waiting' = [waiting EXCEPT ![u] = waiting[u] \cup {h}]
             /\ status' = status
    <3>1. status = [p \in Packets |-> IF p \in {} THEN Done ELSE status[p]]
      BY <1>1
    <3>2. waiting[u] \cup {h} = (waiting[u] \cup {h}) \ {}
      OBVIOUS
    <3> QED
      BY <1>1, <1>7, <2>1, <3>1, <3>2
  <2>2. ASSUME NEW granted \in SUBSET waiting[u],
               waiting' = [waiting EXCEPT ![u] = waiting[u] \ granted],
               status' = [q \in Packets |-> IF q \in granted \cup {h} THEN Done
                                                        ELSE status[q]]
        PROVE  \E P \in SUBSET Packets, W \in SUBSET Packets :
                 /\ status' = [p \in Packets |-> IF p \in P THEN Done
                                                            ELSE status[p]]
                 /\ waiting' = [waiting EXCEPT ![u] = W]
                 /\ P \subseteq {h} \cup waiting[u]
                 /\ W = (waiting[u] \cup {h}) \ P
    <3>1. /\ granted \cup {h} \in SUBSET Packets
          /\ waiting[u] \ granted \in SUBSET Packets
          /\ granted \cup {h} \subseteq {h} \cup waiting[u]
          /\ waiting[u] \ granted = (waiting[u] \cup {h}) \ (granted \cup {h})
      BY <1>1, <1>7
    <3> QED
      BY <2>2, <3>1
  <2> QED
    BY <1>5, <2>1, <2>2, ZenonT(20) DEF SynchronousIteration
<1>10. unitPipe'[u] = Tail(unitPipe[u]) /\ waiting'[u] = W
  BY <1>1, <1>2, <1>9
<1>11. P \subseteq WithThread(u)
  BY <1>7, <1>9 DEF WithThread
<1>12. ASSUME NEW v \in Units, NEW q \in Packets
       PROVE  StartedAt(v, q)' <=> StartedAt(v, q) /\ q \notin P
  <2>1. q \in P => client[q] = u /\ status[q] = Started
    BY <1>8, <1>11 DEF StartedAt
  <2>2. Done # Started
    BY DEF Done, Started
  <2>3. status'[q] = IF q \in P THEN Done ELSE status[q]
    BY <1>9
  <2> QED
    BY <1>2, <2>1, <2>2, <2>3 DEF StartedAt
<1>13. WithThread(u)' = WithThread(u) \ P
  BY <1>2, <1>4, <1>6, <1>7, <1>9, <1>10, NoMessage, <1>3
  DEF WithThread, ThreadHas
<1>14. ThreadPlace(u)'
  BY <1>2, <1>3, <1>4, <1>6, <1>10, NoMessage DEF ThreadPlace
<1>15. ThreadHas(u)'
  <2>1. /\ \A p \in WithThread(u)' : StartedAt(u, p)'
        /\ \A p \in Packets : StartedAt(u, p)' => p \in WithThread(u)'
    BY <1>3, <1>4, <1>8, <1>12, <1>13 DEF ThreadHas
  <2>2. W \cap ToSet(Tail(unitPipe[u])) = {}
    BY <1>3, <1>6, <1>9 DEF ThreadHas
  <2> QED
    BY <1>2, <1>4, <1>6, <1>10, <2>1, <2>2, NoMessage DEF ThreadHas
<1>16. ASSUME NEW v \in Units, v # u
       PROVE  ThreadPlace(v)' /\ ThreadHas(v)'
  <2>1. \A q \in Packets : StartedAt(v, q)' <=> StartedAt(v, q)
    BY <1>8, <1>11, <1>12, <1>16 DEF StartedAt
  <2> QED
    BY <1>1, <1>2, <1>9, <1>16, <2>1, ThreadOther
<1>17. ThreadInv'
  BY <1>14, <1>15, <1>16 DEF ThreadInv
<1> QED
  BY <1>8, <1>9, <1>11, <1>17

\* A packet that has waited too long is marked and waits no longer.
LEMMA ExpiredGoes ==
  ASSUME TypeInv, SetupInv, ThreadInv, NEW u \in Units, ExpireRecord(u)
  PROVE  /\ ThreadInv'
         /\ expired[u] \in Packets /\ StartedAt(u, expired[u])
<1>1. /\ status \in [Packets -> Statuses]
      /\ waiting \in [Units -> SUBSET Packets]
  BY DEF TypeInv
<1>2. ThreadPlace(u) /\ ThreadHas(u)
  BY DEF ThreadInv
<1>3. PICK p \in waiting[u] : p = expired[u] /\ mode = "synchronous"
  BY DEF ExpireRecord, SetupInv
<1>4. /\ status' = [status EXCEPT ![p] = TimedOut]
      /\ waiting' = [waiting EXCEPT ![u] = waiting[u] \ {p}]
      /\ UNCHANGED <<mode, client, goDown, thread, cmd, record, unitPipe>>
  BY <1>3 DEF ExpireRecord, setupVars, portVars, threadVars
<1>5. /\ p \in Packets /\ StartedAt(u, p) /\ cmd[u] # p
      /\ p \notin ToSet(unitPipe[u]) /\ TimedOut # Started
  BY <1>1, <1>2, <1>3 DEF ThreadHas, WithThread, TimedOut, Started
<1>6. waiting'[u] = waiting[u] \ {p}
  BY <1>1, <1>4
<1>7. thread[u] # "free"
  BY <1>2, <1>3 DEF ThreadPlace
<1>8. ThreadPlace(u)'
  BY <1>2, <1>4, <1>7 DEF ThreadPlace
<1>9. /\ WithThread(u)' = WithThread(u) \ {p}
      /\ WithThread(u) \subseteq Packets
  BY <1>4, <1>5, <1>6 DEF WithThread
<1>10. /\ ~StartedAt(u, p)'
       /\ \A q \in Packets : q # p => (StartedAt(u, q)' <=> StartedAt(u, q))
  BY <1>1, <1>4, <1>5 DEF StartedAt
<1>11. ThreadHas(u)'
  BY <1>2, <1>4, <1>6, <1>9, <1>10 DEF ThreadHas
<1>12. ASSUME NEW v \in Units, v # u
       PROVE  ThreadPlace(v)' /\ ThreadHas(v)'
  <2>1. \A q \in Packets : StartedAt(v, q)' <=> StartedAt(v, q)
    BY <1>1, <1>4, <1>5, <1>12 DEF StartedAt
  <2> QED
    BY <1>1, <1>4, <1>12, <2>1, ThreadOther
<1> QED
  BY <1>3, <1>5, <1>8, <1>11, <1>12 DEF ThreadInv

LEMMA ThreadDies ==
  ASSUME TypeInv, ThreadInv, NEW u \in Units, SendDeath(u)
  PROVE  ThreadInv'
<1>1. /\ ~goDown[u] /\ goDown' = [goDown EXCEPT ![u] = TRUE]
      /\ UNCHANGED <<mode, client, status, cmd, waiting, record>>
      /\ goDown \in [Units -> BOOLEAN] /\ thread \in [Units -> ThreadPositions]
      /\ unitPipe \in [Units -> Seq(Packets \cup {Death})]
  BY DEF SendDeath, setupVars, portVars, TypeInv
<1>2. ThreadPlace(u) /\ ThreadHas(u)
  BY DEF ThreadInv
<1>3. \A v \in Units, p \in Packets : StartedAt(v, p)' <=> StartedAt(v, p)
  BY <1>1 DEF StartedAt
<1>4. ASSUME NEW v \in Units, v # u
      PROVE  ThreadPlace(v)' /\ ThreadHas(v)'
  <2>1. unitPipe'[v] = unitPipe[v] /\ thread'[v] = thread[v]
    BY <1>1, <1>4 DEF SendDeath
  <2> QED
    BY <1>1, <1>3, <1>4, <2>1, ThreadOther
<1>5. goDown'[u]
  BY <1>1
<1>6. CASE mode = "threads"
  <2>1. /\ unitPipe' = [unitPipe EXCEPT ![u] = Append(unitPipe[u], Death)]
        /\ thread' = thread
    BY <1>6 DEF SendDeath
  <2>2. /\ unitPipe'[u] = Append(unitPipe[u], Death)
        /\ ToSet(unitPipe'[u]) = ToSet(unitPipe[u]) \cup {Death}
        /\ OnceEach(Packets \cup {Death}, unitPipe'[u])
    <3>1. /\ OnceEach(Packets \cup {Death}, unitPipe[u])
          /\ Death \notin ToSet(unitPipe[u])
      BY <1>1, <1>2 DEF ThreadPlace, ThreadHas
    <3>2. /\ unitPipe[u] \in Seq(Packets \cup {Death})
          /\ Death \in Packets \cup {Death}
      BY <1>1
    <3>3. unitPipe'[u] = Append(unitPipe[u], Death)
      BY <1>1, <2>1
    <3> QED
      BY <3>1, <3>2, <3>3, AppendMembers
  <2>3. WithThread(u)' = WithThread(u) /\ WithThread(u) \subseteq Packets
    BY <1>1, <2>2, NoMessage DEF WithThread
  <2>4. ThreadPlace(u)'
    BY <1>1, <1>2, <1>5, <1>6, <2>1, <2>2 DEF ThreadPlace
  <2>5. ThreadHas(u)'
    <3>1. Death \notin waiting[u]
      BY NoMessage DEF TypeInv
    <3> QED
      BY <1>1, <1>2, <1>3, <1>5, <2>2, <2>3, <3>1, NoMessage DEF ThreadHas
  <2> QED
    BY <1>4, <2>4, <2>5 DEF ThreadInv
<1>7. CASE mode # "threads"
  <2>1. unitPipe'[u] = << >> /\ thread'[u] = "dead"
    BY <1>1, <1>7 DEF SendDeath
  <2>2. mode = "synchronous" /\ cmd[u] = None
    <3>1. mode = "synchronous"
      BY <1>7 DEF TypeInv, Modes
    <3> QED
      BY <1>2, <3>1 DEF ThreadPlace
  <2>3. /\ WithThread(u)' \subseteq WithThread(u)
        /\ WithThread(u) \subseteq Packets
    BY <1>1, <2>1, Nothing DEF WithThread
  <2>4. ThreadPlace(u)'
    BY <1>1, <1>5, <2>1, <2>2, Nothing, NoMessage DEF ThreadPlace
  <2>5. ThreadHas(u)'
    BY <1>1, <1>2, <1>3, <1>5, <2>1, <2>2, <2>3, Nothing, NoMessage
    DEF ThreadHas
  <2> QED
    BY <1>4, <2>4, <2>5 DEF ThreadInv
<1> QED
  BY <1>6, <1>7

LEMMA ThreadRestarts ==
  ASSUME TypeInv, ThreadInv, Restart
  PROVE  ThreadInv'
<1>1. ASSUME NEW u \in Units
      PROVE  /\ thread'[u] = "read" /\ cmd'[u] = None /\ waiting'[u] = {}
             /\ unitPipe'[u] = << >> /\ \A p \in Packets : status'[p] = Linked
  BY DEF Restart, EachUnit, ThreadInv, ThreadPlace
<1>2. Linked # Started
  BY DEF Linked, Started
<1> QED
  BY <1>1, <1>2, Nothing, NoMessage
  DEF ThreadInv, ThreadPlace, ThreadHas, WithThread, StartedAt

LEMMA ThreadKept ==
  ASSUME TypeInv, SetupInv, PlaceInv, ThreadInv, [Next]_vars
  PROVE  ThreadInv'
<1> USE DEF setupVars, portVars, queueVars, threadVars
<1>1. ASSUME UNCHANGED <<unitPipe, thread, cmd, waiting, record, goDown, mode,
                         client, status>>
      PROVE  ThreadInv'
  <2>1. \A v \in Units, p \in Packets : StartedAt(v, p)' <=> StartedAt(v, p)
    BY <1>1 DEF StartedAt
  <2> QED
    BY <1>1, <2>1, ThreadFrame
<1>2. ASSUME NEW u \in Units, NEW p \in Packets, SendPacket(u, p)
      PROVE  ThreadInv'
  <2>1. /\ client[p] = Idle /\ client' = [client EXCEPT ![p] = u]
        /\ UNCHANGED <<unitPipe, thread, cmd, waiting, record, goDown, mode,
                       status>>
        /\ client \in [Packets -> Units \cup {Idle}]
    BY <1>2 DEF SendPacket, TypeInv
  <2>2. status[p] # Started
    BY <2>1 DEF PlaceInv, IdleIsLinked, Linked, Started
  <2>3. \A v \in Units, q \in Packets : StartedAt(v, q)' <=> StartedAt(v, q)
    BY <2>1, <2>2 DEF StartedAt
  <2> QED
    BY <2>1, <2>3, ThreadFrame
<1>3. CASE \/ EnterServer \/ DeliverSignal \/ FindNoCommand \/ LeaveServer
           \/ \E u \in Units : DeliverDummy(u) \/ PassUnit(u)
  BY <1>1, <1>3 DEF EnterServer, DeliverSignal, FindNoCommand, LeaveServer,
     DeliverDummy, PassUnit, PutMsg, fsVars
<1>4. CASE \/ ServerClears /\ UNCHANGED fsVars
           \/ RethinkReads /\ UNCHANGED fsVars
           \/ RethinkWrites /\ UNCHANGED fsVars
           \/ UNCHANGED vars
  BY <1>1, <1>4 DEF vars, fsVars
<1>5. CASE BeginReset \/ \E u \in Units : FindExpired(u)
  BY <1>1, <1>5 DEF BeginReset, FindExpired
<1> QED
  BY <1>2, <1>3, <1>4, <1>5, ThreadProcess, ThreadWorks, SynchronousWorks,
     ExpiredGoes, ThreadDies, ThreadRestarts
  DEF Next, Interrupts, Housekeeping, Reset

\* A packet stays where the Amiga knows it to be when it is marked.
LEMMA PlaceKept ==
  ASSUME TypeInv, HandInv, SetupInv, PlaceInv, ThreadInv, [Next]_vars
  PROVE  PlaceInv'
<1> USE DEF setupVars, portVars, queueVars, processVars
<1>0. /\ Started # Linked /\ Done # Linked /\ TimedOut # Linked
      /\ status \in [Packets -> Statuses]
  BY DEF Started, Linked, Done, TimedOut, TypeInv
<1>1. ASSUME UNCHANGED <<client, port, queue, msg, status>>
      PROVE  PlaceInv'
  BY <1>1, PlaceMarked
<1>2. ASSUME NEW u \in Units, UnitThread(u)
      PROVE  PlaceInv'
  <2>1. \A p \in Packets : \/ status'[p] = status[p]
                           \/ status[p] # Linked /\ status'[p] # Linked
    BY <1>0, <1>2, ThreadWorks DEF StartedAt
  <2>2. UNCHANGED <<client, port, queue, msg>>
    BY <1>2 DEF UnitThread
  <2> QED
    BY <2>1, <2>2, PlaceMarked
<1>3. ASSUME NEW u \in Units, SynchronousIteration(u)
      PROVE  PlaceInv'
  <2>1. PICK P \in SUBSET Packets :
          /\ \A p \in P : StartedAt(u, p)
          /\ status' = [p \in Packets |-> IF p \in P THEN Done ELSE status[p]]
    BY <1>3, SynchronousWorks
  <2>2. \A p \in Packets : \/ status'[p] = status[p]
                           \/ status[p] # Linked /\ status'[p] # Linked
    BY <1>0, <2>1 DEF StartedAt
  <2>3. UNCHANGED <<client, port, queue, msg>>
    BY <1>3 DEF SynchronousIteration
  <2> QED
    BY <2>2, <2>3, PlaceMarked
<1>4. ASSUME NEW u \in Units, ExpireRecord(u)
      PROVE  PlaceInv'
  <2>1. expired[u] \in Packets /\ StartedAt(u, expired[u])
    BY <1>4, ExpiredGoes
  <2>2. /\ status' = [status EXCEPT ![expired[u]] = TimedOut]
        /\ UNCHANGED <<client, port, queue, msg>>
    BY <1>4 DEF ExpireRecord
  <2>3. \A p \in Packets : \/ status'[p] = status[p]
                           \/ status[p] # Linked /\ status'[p] # Linked
    BY <1>0, <2>1, <2>2 DEF StartedAt
  <2> QED
    BY <2>2, <2>3, PlaceMarked
<1>5. CASE Restart
  <2>1. /\ client' = [p \in Packets |-> Idle]
        /\ status' = [p \in Packets |-> Linked]
        /\ port' = EachUnit(<< >>) /\ queue' = EachUnit(<< >>)
        /\ msg' = EachUnit(None)
    BY <1>5 DEF Restart
  <2> QED
    BY <2>1, Nothing, NoMessage DEF PlaceInv, IdleIsLinked, Place, EachUnit
\* The dummy message is not a packet.
<1>6. ASSUME NEW u \in Units, DeliverDummy(u)
      PROVE  PlaceInv'
  <2>1. /\ port' = [port EXCEPT ![u] = Append(port[u], Dummy)]
        /\ UNCHANGED <<client, queue, msg, status>>
    BY <1>6 DEF DeliverDummy, PutMsg
  <2>2. /\ port \in [Units -> Seq(Packets \cup {Dummy})]
        /\ queue \in [Units -> Seq(Packets)]
    BY DEF TypeInv
  <2>3. /\ ToSet(Append(port[u], Dummy)) = ToSet(port[u]) \cup {Dummy}
        /\ OnceEach(Packets, Append(port[u], Dummy))
    <3>1. /\ port[u] \in Seq(Packets \cup {Dummy}) /\ OnceEach(Packets, port[u])
          /\ Dummy \in Packets \cup {Dummy} /\ Dummy \notin Packets
      BY <2>2, NoMessage DEF PlaceInv, Place
    <3> QED
      BY <3>1, AppendMembers
  <2>4. ASSUME NEW v \in Units
        PROVE  Place(v)'
    <3>1. Place(v)
      BY DEF PlaceInv
    <3> QED
      BY <2>1, <2>2, <2>3, <3>1, NoMessage DEF Place, Queued
  <2> QED
    BY <2>1, <2>4 DEF PlaceInv, IdleIsLinked
<1>7. CASE \/ EnterServer \/ DeliverSignal \/ FindNoCommand \/ LeaveServer
           \/ \E u \in Units : PassUnit(u)
  BY <1>1, <1>7 DEF EnterServer, DeliverSignal, FindNoCommand, LeaveServer,
     PassUnit, fsVars
<1>8. CASE \/ ServerClears /\ UNCHANGED fsVars
           \/ RethinkReads /\ UNCHANGED fsVars
           \/ RethinkWrites /\ UNCHANGED fsVars
           \/ UNCHANGED vars
  BY <1>1, <1>8 DEF vars, fsVars
<1>9. CASE BeginReset \/ \E u \in Units : FindExpired(u) \/ SendDeath(u)
  BY <1>1, <1>9 DEF BeginReset, FindExpired, SendDeath
<1> QED
  BY <1>2, <1>3, <1>4, <1>5, <1>6, <1>7, <1>8, <1>9, PlaceSend, PlaceProcess
  DEF Next, Interrupts, Housekeeping, Reset

-----------------------------------------------------------------------------
(* How many packets are under way: d5 in the main loop of the process       *)

Marks == {Started, Done, TimedOut}
Counted(u) == {p \in Packets : client[p] = u /\ status[p] \in Marks}

CountOf(u) == /\ IsFiniteSet(Counted(u))
              /\ started[u] = Cardinality(Counted(u))
              /\ started[u] <= MaxStarted
CountInv == \A u \in Units : CountOf(u)

LEMMA MarksAre == /\ Started \in Marks /\ Done \in Marks /\ TimedOut \in Marks
                  /\ Linked \notin Marks /\ Unstarted \notin Marks
  BY DEF Marks, Started, Done, TimedOut, Linked, Unstarted

LEMMA CountEmpty ==
  ASSUME NEW u \in Units, Counted(u) = {}, started[u] = 0
  PROVE  CountOf(u)
BY FS_EmptySet, FilesysAssumption DEF CountOf

LEMMA CountStart == ASSUME Init PROVE CountInv
<1>1. ASSUME NEW u \in Units
      PROVE  Counted(u) = {} /\ started[u] = 0
  BY MarksAre DEF Init, EachUnit, Counted
<1> QED
  BY <1>1, CountEmpty DEF CountInv

LEMMA CountFrame ==
  ASSUME CountInv, NEW u \in Units, Counted(u)' = Counted(u),
         started'[u] = started[u]
  PROVE  CountOf(u)'
BY DEF CountInv, CountOf

LEMMA CountProcess ==
  ASSUME TypeInv, PlaceInv, CountInv, NEW u \in Units, Process(u)
  PROVE  CountInv'
<1> USE DEF ProcessTo, portVars, queueVars
<1>1. /\ client \in [Packets -> Units \cup {Idle}]
      /\ status \in [Packets -> Statuses] /\ started \in [Units -> Int]
      /\ port \in [Units -> Seq(Packets \cup {Dummy})]
      /\ queue \in [Units -> Seq(Packets)]
  BY DEF TypeInv
<1>2. ASSUME NEW p \in Packets, Get(u, p)
      PROVE  client[p] = u /\ status[p] = Linked
  <2>1. port[u] # << >> /\ p = Head(port[u])
    BY <1>2 DEF Get
  <2>2. p \in ToSet(port[u])
    BY <1>1, <2>1, TailMembers
  <2> QED
    BY <2>2 DEF PlaceInv, Place
<1>3. CASE HandOver(u)
  <2>1. PICK p \in Packets : Get(u, p) /\ status' = [status EXCEPT ![p] = Started]
    BY <1>3 DEF HandOver
  <2>2. /\ started[u] < MaxStarted /\ client' = client
        /\ started' = [started EXCEPT ![u] = started[u] + 1]
    BY <1>3 DEF HandOver
  <2>3. client[p] = u /\ status[p] = Linked
    BY <1>2, <2>1
  <2>4. Counted(u)' = Counted(u) \cup {p} /\ p \notin Counted(u)
    BY <1>1, <2>1, <2>2, <2>3, MarksAre DEF Counted
  <2>5. CountOf(u)'
    <3>1. IsFiniteSet(Counted(u)) /\ started[u] = Cardinality(Counted(u))
      BY DEF CountInv, CountOf
    <3>2. /\ IsFiniteSet(Counted(u) \cup {p})
          /\ Cardinality(Counted(u) \cup {p}) = Cardinality(Counted(u)) + 1
      BY <2>4, <3>1, FS_AddElement
    <3>3. started'[u] = started[u] + 1 /\ started[u] + 1 <= MaxStarted
      BY <1>1, <2>2, FilesysAssumption
    <3> QED
      BY <2>4, <3>1, <3>2, <3>3 DEF CountOf
  <2>6. ASSUME NEW v \in Units, v # u
        PROVE  CountOf(v)'
    <3>1. Counted(v)' = Counted(v)
      BY <1>1, <2>1, <2>2, <2>3, <2>6 DEF Counted
    <3> QED
      BY <1>1, <2>2, <2>6, <3>1, CountFrame
  <2> QED
    BY <2>5, <2>6 DEF CountInv
<1>4. CASE HoldBack(u)
  <2>1. PICK p \in Packets :
          Get(u, p) /\ status' = [status EXCEPT ![p] = Unstarted]
    BY <1>4 DEF HoldBack
  <2>2. client' = client /\ started' = started
    BY <1>4 DEF HoldBack
  <2>3. status[p] = Linked
    BY <1>2, <2>1
  <2>4. \A v \in Units : Counted(v)' = Counted(v)
    BY <1>1, <2>1, <2>2, <2>3, MarksAre DEF Counted
  <2> QED
    BY <2>2, <2>4, CountFrame DEF CountInv
<1>5. CASE ReplyOne(u)
  <2>1. PICK p : p = Scanned(u)
    OBVIOUS
  <2>2. /\ client' = [client EXCEPT ![p] = Idle] /\ status[p] = doneValue[u]
        /\ status' = [status EXCEPT ![p] = Linked]
        /\ started' = [started EXCEPT ![u] = started[u] - 1]
        /\ at[u] <= Len(queue[u])
    BY <1>5, <2>1 DEF ReplyOne
  <2>3. p \in Packets /\ client[p] = u
    <3>1. at[u] \in 1 .. Len(queue[u]) /\ queue[u] \in Seq(Packets)
      BY <1>1, <2>2 DEF TypeInv
    <3>2. p \in Packets /\ p \in ToSet(queue[u])
      BY <2>1, <3>1, RemoveMembers DEF Scanned
    <3> QED
      BY <3>2 DEF PlaceInv, Place, Queued
  <2>4. status[p] \in Marks
    <3>1. doneValue[u] \in {Done, TimedOut}
      BY DEF TypeInv
    <3> QED
      BY <2>2, <3>1, MarksAre
  <2>5. Counted(u)' = Counted(u) \ {p} /\ p \in Counted(u)
    BY <1>1, <2>2, <2>3, <2>4, MarksAre DEF Counted
  <2>6. CountOf(u)'
    <3>1. /\ IsFiniteSet(Counted(u)) /\ started[u] = Cardinality(Counted(u))
          /\ started[u] <= MaxStarted
      BY DEF CountInv, CountOf
    <3>2. /\ IsFiniteSet(Counted(u) \ {p})
          /\ Cardinality(Counted(u) \ {p}) = Cardinality(Counted(u)) - 1
      BY <2>5, <3>1, FS_RemoveElement
    <3>3. started'[u] = started[u] - 1 /\ started[u] - 1 <= MaxStarted
      BY <1>1, <2>2, <3>1, FilesysAssumption
    <3> QED
      BY <2>5, <3>1, <3>2, <3>3 DEF CountOf
  <2>7. ASSUME NEW v \in Units, v # u
        PROVE  CountOf(v)'
    <3>1. Counted(v)' = Counted(v)
      BY <1>1, <2>2, <2>3, <2>7, MarksAre DEF Counted
    <3> QED
      BY <1>1, <2>2, <2>7, <3>1, CountFrame
  <2> QED
    BY <2>6, <2>7 DEF CountInv
<1>6. CASE GetNothing(u) \/ GetDummy(u) \/ WakeUp(u) \/ ReleaseMessageLock(u)
           \/ Enqueue(u) \/ CheckNext(u) \/ ScanEnds(u)
  <2>1. UNCHANGED <<client, status, started>>
    BY <1>6 DEF GetNothing, GetDummy, WakeUp, ReleaseMessageLock, Enqueue,
       CheckNext, ScanEnds
  <2>2. \A v \in Units : Counted(v)' = Counted(v)
    BY <2>1 DEF Counted
  <2> QED
    BY <2>1, <2>2, CountFrame DEF CountInv
<1> QED
  BY <1>3, <1>4, <1>5, <1>6 DEF Process

LEMMA CountKept ==
  ASSUME TypeInv, SetupInv, PlaceInv, ThreadInv, CountInv, [Next]_vars
  PROVE  CountInv'
<1> USE DEF setupVars, portVars, queueVars, processVars
<1>0. /\ client \in [Packets -> Units \cup {Idle}]
      /\ status \in [Packets -> Statuses] /\ started \in [Units -> Int]
  BY DEF TypeInv
<1>1. ASSUME UNCHANGED <<client, started>>,
             \A p \in Packets : status'[p] \in Marks <=> status[p] \in Marks
      PROVE  CountInv'
  <2>1. \A v \in Units : Counted(v)' = Counted(v)
    BY <1>1 DEF Counted
  <2> QED
    BY <1>1, <2>1, CountFrame DEF CountInv
<1>2. ASSUME NEW u \in Units, NEW p \in Packets, SendPacket(u, p)
      PROVE  CountInv'
  <2>1. /\ client[p] = Idle /\ client' = [client EXCEPT ![p] = u]
        /\ UNCHANGED <<status, started>>
    BY <1>2 DEF SendPacket
  <2>2. status[p] \notin Marks
    BY <2>1, MarksAre DEF PlaceInv, IdleIsLinked
  <2>3. \A v \in Units : Counted(v)' = Counted(v)
    BY <1>0, <2>1, <2>2 DEF Counted
  <2> QED
    BY <2>1, <2>3, CountFrame DEF CountInv
<1>3. ASSUME NEW u \in Units, UnitThread(u)
      PROVE  CountInv'
  <2>1. \A p \in Packets : status'[p] \in Marks <=> status[p] \in Marks
    BY <1>3, ThreadWorks, MarksAre DEF StartedAt
  <2>2. UNCHANGED <<client, started>>
    BY <1>3 DEF UnitThread
  <2> QED
    BY <1>1, <2>1, <2>2
<1>4. ASSUME NEW u \in Units, SynchronousIteration(u)
      PROVE  CountInv'
  <2>1. PICK P \in SUBSET Packets :
          /\ \A p \in P : StartedAt(u, p)
          /\ status' = [p \in Packets |-> IF p \in P THEN Done ELSE status[p]]
    BY <1>4, SynchronousWorks
  <2>2. \A p \in Packets : status'[p] \in Marks <=> status[p] \in Marks
    BY <2>1, MarksAre DEF StartedAt
  <2>3. UNCHANGED <<client, started>>
    BY <1>4 DEF SynchronousIteration
  <2> QED
    BY <1>1, <2>2, <2>3
<1>5. ASSUME NEW u \in Units, ExpireRecord(u)
      PROVE  CountInv'
  <2>1. expired[u] \in Packets /\ StartedAt(u, expired[u])
    BY <1>5, ExpiredGoes
  <2>2. /\ status' = [status EXCEPT ![expired[u]] = TimedOut]
        /\ UNCHANGED <<client, started>>
    BY <1>5 DEF ExpireRecord
  <2>3. \A p \in Packets : status'[p] \in Marks <=> status[p] \in Marks
    BY <1>0, <2>1, <2>2, MarksAre DEF StartedAt
  <2> QED
    BY <1>1, <2>2, <2>3
<1>6. CASE Restart
  <2>1. ASSUME NEW u \in Units
        PROVE  Counted(u)' = {} /\ started'[u] = 0
    BY <1>6, MarksAre DEF Restart, EachUnit, Counted
  <2>2. ASSUME NEW u \in Units
        PROVE  CountOf(u)'
    BY <2>1, FS_EmptySet, FilesysAssumption DEF CountOf
  <2> QED
    BY <2>2 DEF CountInv
<1>7. CASE \/ EnterServer \/ DeliverSignal \/ FindNoCommand \/ LeaveServer
           \/ \E u \in Units : DeliverDummy(u) \/ PassUnit(u)
  BY <1>1, <1>7 DEF EnterServer, DeliverSignal, FindNoCommand, LeaveServer,
     DeliverDummy, PassUnit, PutMsg, fsVars
<1>8. CASE \/ ServerClears /\ UNCHANGED fsVars
           \/ RethinkReads /\ UNCHANGED fsVars
           \/ RethinkWrites /\ UNCHANGED fsVars
           \/ UNCHANGED vars
  BY <1>1, <1>8 DEF vars, fsVars
<1>9. CASE BeginReset \/ \E u \in Units : FindExpired(u) \/ SendDeath(u)
  BY <1>1, <1>9 DEF BeginReset, FindExpired, SendDeath
<1> QED
  BY <1>2, <1>3, <1>4, <1>5, <1>6, <1>7, <1>8, <1>9, CountProcess
  DEF Next, Interrupts, Housekeeping, Reset

-----------------------------------------------------------------------------
(* The inductive invariant, and what follows from it *)

PacketInv == BaseInv /\ SetupInv /\ PlaceInv /\ ThreadInv /\ CountInv

LEMMA PacketInvariant == ASSUME MarkedByOneThread PROVE Spec => []PacketInv
<1>1. Init => PacketInv
  BY TypeStart, MessageStart, SetupStart, PlaceStart, ThreadStart, CountStart
  DEF PacketInv, BaseInv
<1>2. PacketInv /\ [Next]_vars => PacketInv'
  BY TypesKept, MessageKept, SetupKept, PlaceKept, ThreadKept, CountKept
  DEF PacketInv, BaseInv
<1> QED
  BY <1>1, <1>2, PTL DEF Spec

\* Where no record is waited for that may expire while the unit's thread finds
\* it free, the types hold; what they say beyond a declaration is that d5 never
\* becomes negative: no packet is counted off that was not counted.
THEOREM FilesysTypes == ASSUME MarkedByOneThread PROVE Spec => []TypeOK
<1>1. PacketInv => TypeOK
  <2> SUFFICES ASSUME PacketInv PROVE TypeOK
    OBVIOUS
  <2>1. ASSUME NEW u \in Units
        PROVE  started[u] \in Nat
    <3>1. IsFiniteSet(Counted(u)) /\ started[u] = Cardinality(Counted(u))
      BY DEF PacketInv, CountInv, CountOf
    <3> QED
      BY <3>1, FS_CardinalityType
  <2>2. TypeInv
    BY DEF PacketInv, BaseInv
  <2>3. started \in [Units -> Nat]
    BY <2>1, <2>2 DEF TypeInv
  <2> QED
    BY <2>2, <2>3 DEF TypeInv, TypeOK
<1> QED
  BY <1>1, PacketInvariant, PTL

\* A packet is marked as started exactly as long as the thread of its unit has
\* it, will read it, or waits with it for a record.
THEOREM StartedAreWithThread ==
  ASSUME MarkedByOneThread PROVE Spec => []NoneForgotten
<1>1. PacketInv => NoneForgotten
  <2> SUFFICES ASSUME PacketInv, NEW u \in Units, ~goDown[u]
               PROVE  {p \in Packets : client[p] = u /\ status[p] = Started}
                        = WithThread(u)
    BY DEF NoneForgotten
  <2>1. ThreadHas(u) /\ WithThread(u) \subseteq Packets
    BY DEF PacketInv, ThreadInv, WithThread
  <2> QED
    BY <2>1 DEF ThreadHas, StartedAt
<1> QED
  BY <1>1, PacketInvariant, PTL

\* The pipe has room for all packets under way and the death message, three
\* words each.  The code has MAX_STARTED 20 in filesys.asm, and 100 words.
PipeLongEnough == UnitPipeSize \in Nat /\ 3 * (MaxStarted + 1) < UnitPipeSize

\* The emulation thread never waits for room in unit_pipe: the limit on the
\* packets under way, kept in the Amiga, is what makes the host's pipe long
\* enough, with the death message of a reset that finds it full.
THEOREM PipeHasRoom ==
  ASSUME MarkedByOneThread, PipeLongEnough PROVE Spec => []PipeNeverFull
<1>1. PacketInv => PipeNeverFull
  <2> SUFFICES ASSUME PacketInv, NEW u \in Units
               PROVE  3 * Len(unitPipe[u]) < UnitPipeSize
    BY DEF PipeNeverFull
  <2> DEFINE s == unitPipe[u]
             S == Counted(u) \cup {Death}
  <2>1. /\ s \in Seq(Packets \cup {Death}) /\ ThreadHas(u) /\ CountOf(u)
    BY DEF PacketInv, BaseInv, TypeInv, ThreadInv, CountInv
  <2>2. ToSet(s) \subseteq S
    <3>1. ToSet(s) \subseteq Packets \cup {Death}
      BY <2>1, MembersAreOf
    <3>2. \A p \in ToSet(s) \cap Packets : p \in Counted(u)
      BY <2>1, MarksAre DEF ThreadHas, WithThread, StartedAt, Counted
    <3> QED
      BY <3>1, <3>2
  <2>3. s \in Seq(S) /\ OnceEach(S, s)
    <3>1. \A i \in 1 .. Len(s) : s[i] \in S
      BY <2>1, <2>2, Member
    <3>2. s \in Seq(S)
      BY <2>1, <3>1, SeqDef, LenProperties
    <3>3. S \subseteq Packets \cup {Death}
      BY DEF Counted
    <3>4. OnceEach(S, s)
      BY <2>1, <3>3 DEF ThreadHas, OnceEach
    <3> QED
      BY <3>2, <3>4
  <2>4. IsFiniteSet(S) /\ Cardinality(S) <= MaxStarted + 1
    <3>1. /\ IsFiniteSet(Counted(u)) /\ Cardinality(Counted(u)) <= MaxStarted
          /\ Cardinality(Counted(u)) \in Nat
      BY <2>1, FS_CardinalityType DEF CountOf
    <3>2. /\ IsFiniteSet(S)
          /\ Cardinality(S) = IF Death \in Counted(u)
                              THEN Cardinality(Counted(u))
                              ELSE Cardinality(Counted(u)) + 1
      BY <3>1, FS_AddElement
    <3> QED
      BY <3>1, <3>2, FilesysAssumption
  <2>5. Len(s) <= Cardinality(S)
    <3> HIDE DEF S, s
    <3> QED
      BY <2>3, <2>4, OnceIsFew
  <2>6. Len(s) \in Nat /\ Cardinality(S) \in Nat /\ MaxStarted \in Nat
    BY <2>1, <2>4, FS_CardinalityType, FilesysAssumption
  <2> HIDE DEF S, s
  <2>7. 3 * Len(s) < UnitPipeSize
    BY <2>4, <2>5, <2>6 DEF PipeLongEnough
  <2> QED
    BY <2>7 DEF s
<1> QED
  BY <1>1, PacketInvariant, PTL

-----------------------------------------------------------------------------
(* What the programs of the Amiga are promised *)

\* How far the file system is with each packet, as PacketService has it.
Served == [p \in Packets |-> IF client[p] = Idle THEN "idle"
                             ELSE IF status[p] \in {Done, TimedOut}
                                  THEN "done" ELSE "asked"]

ServiceStep == Service!Next \/ UNCHANGED Served

\* Steps that leave the packets with whom they are.
LEMMA ServiceStays ==
  ASSUME client' = client,
         \A p \in Packets :
           status'[p] \in {Done, TimedOut} <=> status[p] \in {Done, TimedOut}
  PROVE  ServiceStep
BY DEF ServiceStep, Served

\* Steps that mark packets as done.
LEMMA ServiceCarriesOut ==
  ASSUME client' = client,
         \A p \in Packets :
           \/ status'[p] = status[p]
           \/ /\ client[p] # Idle /\ status[p] = Started
              /\ status'[p] \in {Done, TimedOut}
  PROVE  ServiceStep
<1>0. PICK P \in SUBSET Packets : P = {p \in Packets : status'[p] # status[p]}
  OBVIOUS
<1>1. Started \notin {Done, TimedOut}
  BY DEF Started, Done, TimedOut
<1>2. \A p \in P : Served[p] = "asked"
  BY <1>0, <1>1 DEF Served
<1>3. Served' = [p \in Packets |-> IF p \in P THEN "done" ELSE Served[p]]
  <2>1. ASSUME NEW p \in Packets
        PROVE  Served'[p] = IF p \in P THEN "done" ELSE Served[p]
    <3>1. CASE status'[p] = status[p]
      BY <1>0, <3>1 DEF Served
    <3>2. CASE status'[p] # status[p]
      BY <1>0, <3>2 DEF Served
    <3> QED
      BY <3>1, <3>2
  <2>2. Served' = [p \in Packets |-> Served'[p]]
    BY DEF Served
  <2> QED
    BY <2>1, <2>2
<1>4. Service!CarryOut(P)
  BY <1>2, <1>3 DEF Service!CarryOut, Service!Move, Served
<1> QED
  BY <1>4 DEF ServiceStep, Service!Next

\* A step that moves one packet between its sender and the file system.
LEMMA ServiceMoves ==
  ASSUME NEW p \in Packets, NEW from, NEW to, Served[p] = from, Served'[p] = to,
         \A q \in Packets \ {p} : Served'[q] = Served[q]
  PROVE  Service!Move({p}, from, to)
<1>1. Served' = [q \in Packets |-> IF q \in {p} THEN to ELSE Served[q]]
  <2>1. Served' = [q \in Packets |-> Served'[q]]
    BY DEF Served
  <2>2. \A q \in Packets : Served'[q] = IF q \in {p} THEN to ELSE Served[q]
    OBVIOUS
  <2> QED
    BY <2>1, <2>2
<1> QED
  BY <1>1 DEF Service!Move, Served

LEMMA ServiceKept ==
  ASSUME PacketInv, [Next]_vars PROVE ServiceStep
<1> USE DEF setupVars, portVars, queueVars
<1>0. /\ client \in [Packets -> Units \cup {Idle}]
      /\ status \in [Packets -> Statuses]
      /\ port \in [Units -> Seq(Packets \cup {Dummy})]
      /\ queue \in [Units -> Seq(Packets)]
      /\ doneValue \in [Units -> {Done, TimedOut}]
      /\ TypeInv /\ SetupInv /\ PlaceInv /\ ThreadInv
  BY DEF PacketInv, BaseInv, TypeInv
<1>1. /\ \A u \in Units : u # Idle
      /\ {Started, Unstarted, Linked} \cap {Done, TimedOut} = {}
  BY DEF Units, Idle, Started, Unstarted, Linked, Done, TimedOut
<1>2. ASSUME NEW u \in Units, NEW p \in Packets, SendPacket(u, p)
      PROVE  ServiceStep
  <2>1. /\ client[p] = Idle /\ client' = [client EXCEPT ![p] = u]
        /\ status' = status
    BY <1>2 DEF SendPacket
  <2>2. status[p] = Linked
    BY <1>0, <2>1 DEF PlaceInv, IdleIsLinked
  <2>3. /\ Served[p] = "idle" /\ Served'[p] = "asked"
        /\ \A q \in Packets \ {p} : Served'[q] = Served[q]
    BY <1>0, <1>1, <2>1, <2>2 DEF Served
  <2>4. Service!Send(p)
    BY <2>3, ServiceMoves DEF Service!Send
  <2> QED
    BY <2>4 DEF ServiceStep, Service!Next
<1>3. ASSUME NEW u \in Units, ReplyOne(u)
      PROVE  ServiceStep
  <2>1. PICK p : p = Scanned(u)
    OBVIOUS
  <2>2. /\ client' = [client EXCEPT ![p] = Idle] /\ status[p] = doneValue[u]
        /\ status' = [status EXCEPT ![p] = Linked] /\ at[u] <= Len(queue[u])
    BY <1>3, <2>1 DEF ReplyOne
  <2>3. p \in Packets /\ client[p] = u
    <3>1. at[u] \in 1 .. Len(queue[u]) /\ queue[u] \in Seq(Packets)
      BY <1>0, <2>2 DEF TypeInv
    <3>2. p \in Packets /\ p \in ToSet(queue[u])
      BY <2>1, <3>1, RemoveMembers DEF Scanned
    <3> QED
      BY <1>0, <3>2 DEF PlaceInv, Place, Queued
  <2>4. /\ Served[p] = "done" /\ Served'[p] = "idle"
        /\ \A q \in Packets \ {p} : Served'[q] = Served[q]
    BY <1>0, <1>1, <2>2, <2>3 DEF Served
  <2>5. Service!Reply(p)
    BY <2>3, <2>4, ServiceMoves DEF Service!Reply
  <2> QED
    BY <2>3, <2>5 DEF ServiceStep, Service!Next
<1>4. ASSUME NEW u \in Units, HandOver(u) \/ HoldBack(u)
      PROVE  ServiceStep
  <2>1. PICK p \in Packets, mark \in {Started, Unstarted} :
          Get(u, p) /\ status' = [status EXCEPT ![p] = mark]
    BY <1>4 DEF HandOver, HoldBack
  <2>2. client' = client
    BY <1>4 DEF HandOver, HoldBack
  <2>3. status[p] = Linked
    <3>1. port[u] # << >> /\ p = Head(port[u])
      BY <2>1 DEF Get
    <3>2. p \in ToSet(port[u])
      BY <1>0, <3>1, TailMembers
    <3> QED
      BY <1>0, <3>2 DEF PlaceInv, Place
  <2> QED
    BY <1>0, <1>1, <2>1, <2>2, <2>3, ServiceStays
<1>5. ASSUME NEW u \in Units, \/ GetNothing(u) \/ GetDummy(u) \/ WakeUp(u)
                              \/ ReleaseMessageLock(u) \/ Enqueue(u)
                              \/ CheckNext(u) \/ ScanEnds(u)
      PROVE  ServiceStep
  BY <1>5, ServiceStays DEF GetNothing, GetDummy, WakeUp, ReleaseMessageLock,
     Enqueue, CheckNext, ScanEnds
<1>6. ASSUME NEW u \in Units, UnitThread(u)
      PROVE  ServiceStep
  <2>1. \A p \in Packets : \/ status'[p] = status[p]
                           \/ StartedAt(u, p) /\ status'[p] = Done
    BY <1>0, <1>6, ThreadWorks
  <2>2. client' = client
    BY <1>6 DEF UnitThread
  <2> QED
    BY <1>1, <2>1, <2>2, ServiceCarriesOut DEF StartedAt
<1>7. ASSUME NEW u \in Units, SynchronousIteration(u)
      PROVE  ServiceStep
  <2>1. PICK P \in SUBSET Packets :
          /\ \A p \in P : StartedAt(u, p)
          /\ status' = [p \in Packets |-> IF p \in P THEN Done ELSE status[p]]
    BY <1>0, <1>7, SynchronousWorks
  <2>2. client' = client
    BY <1>7 DEF SynchronousIteration
  <2>3. \A p \in Packets : \/ status'[p] = status[p]
                           \/ StartedAt(u, p) /\ status'[p] = Done
    BY <2>1
  <2> QED
    BY <1>1, <2>2, <2>3, ServiceCarriesOut DEF StartedAt
<1>8. ASSUME NEW u \in Units, ExpireRecord(u)
      PROVE  ServiceStep
  <2>1. expired[u] \in Packets /\ StartedAt(u, expired[u])
    BY <1>0, <1>8, ExpiredGoes
  <2>2. /\ status' = [status EXCEPT ![expired[u]] = TimedOut]
        /\ client' = client
    BY <1>8 DEF ExpireRecord
  <2>3. \A p \in Packets : \/ status'[p] = status[p]
                           \/ StartedAt(u, p) /\ status'[p] = TimedOut
    BY <1>0, <2>1, <2>2
  <2> QED
    BY <1>1, <2>2, <2>3, ServiceCarriesOut DEF StartedAt
<1>9. CASE Restart
  <2>1. Service!Forget
    BY <1>9 DEF Restart, Service!Forget
  <2> QED
    BY <2>1 DEF ServiceStep, Service!Next
<1>10. CASE \/ EnterServer \/ DeliverSignal \/ FindNoCommand \/ LeaveServer
            \/ \E u \in Units : DeliverDummy(u) \/ PassUnit(u)
  BY <1>10, ServiceStays DEF EnterServer, DeliverSignal, FindNoCommand,
     LeaveServer, DeliverDummy, PassUnit, PutMsg, fsVars
<1>11. CASE \/ ServerClears /\ UNCHANGED fsVars
            \/ RethinkReads /\ UNCHANGED fsVars
            \/ RethinkWrites /\ UNCHANGED fsVars
            \/ UNCHANGED vars
  BY <1>11, ServiceStays DEF vars, fsVars
<1>12. CASE BeginReset \/ \E u \in Units : FindExpired(u) \/ SendDeath(u)
  BY <1>12, ServiceStays DEF BeginReset, FindExpired, SendDeath
<1> QED
  BY <1>2, <1>3, <1>4, <1>5, <1>6, <1>7, <1>8, <1>9, <1>10, <1>11, <1>12
  DEF Next, Process, Interrupts, Housekeeping, Reset

\* The file systems implement PacketService: a packet is replied once, and not
\* before it was carried out, whatever the order in which the thread, the
\* interrupt server and the process of a unit take their steps, and wherever
\* the Amiga is reset.
THEOREM PacketsAreServed ==
  ASSUME MarkedByOneThread PROVE Spec => ServiceRefinement
<1>1. Init => Service!Init
  BY DEF Init, Service!Init
<1>2. PacketInv /\ [Next]_vars => ServiceStep
  BY ServiceKept
<1>3. ServiceStep => [Service!Next]_Served
  BY DEF ServiceStep
<1> QED
  BY <1>1, <1>2, <1>3, PacketInvariant, PTL
  DEF Spec, ServiceRefinement, Service!Spec, Served

-----------------------------------------------------------------------------
(* No wake-up is lost                                                        *)

\* rethink_a2091 writes back what it has read before a host thread set our bit:
\* the bit is gone (a2091.cpp:180-192 with native2amiga.h:52).
BitIsTakenBack ==
  emu = "rethink" /\ OurBit \in intRequested /\ OurBit \notin intRequested'

\* A reset finds the Amiga in the interrupt server, which then does not give
\* back the semaphore (filesys.cpp:5359).
SemaphoreIsKept == emu # "down" /\ emu' = "down" /\ server # "out"

NothingIsLost == ~BitIsTakenBack /\ ~SemaphoreIsKept

\* A packet with a mark is in the queue of the process or in its hands.
FoundInv ==
  \A u \in Units :
    /\ process[u] # "enqueue" => msg[u] = None
    /\ \A p \in Packets : Queued(u, p) => p = msg[u] \/ p \in ToSet(queue[u])

\* The interrupt server has the semaphore; when it has cleared the bit it looks
\* at everything; the thread of a unit counts on from what the server has seen.
LineInv ==
  /\ server = "out" => intSem = 1
  /\ emu = "clear" => server = "commands" /\ unitNo = 1
  /\ emu = "down" => server = "out"
  /\ \A u \in Units : acked[u] <= sent[u]

\* What NeverNotEnough says of a unit, and of a packet.
Signalled(u) == process[u] = "wait" /\ port[u] # << >> => signals[u] # {}
Told(u, p) == client[p] = u => /\ status[p] = Done => DoneIsTold(u, p)
                               /\ status[p] = TimedOut => TimedOutIsTold(u, p)

NewsInv == FoundInv /\ LineInv /\ NeverNotEnough

LEMMA NewsStart == ASSUME Init PROVE NewsInv
<1>1. /\ \A p \in Packets : status[p] = Linked
      /\ \A u \in Units : port[u] = << >> /\ msg[u] = None
      /\ \A u \in Units : acked[u] = 0 /\ sent[u] = 0
  BY DEF Init, EachUnit
<1>2. Linked # Done /\ Linked # TimedOut
  BY DEF Linked, Done, TimedOut
<1>3. FoundInv
  BY <1>1 DEF FoundInv, Queued
<1>4. LineInv
  <2>1. server = "out" /\ intSem = 1 /\ emu = "amiga"
    BY DEF Init, N2AInit
  <2> QED
    BY <1>1, <2>1 DEF LineInv
<1>5. NeverNotEnough
  BY <1>1, <1>2 DEF NeverNotEnough
<1> QED
  BY <1>3, <1>4, <1>5 DEF NewsInv

\* Where a scan stands for a unit that does not move.
LEMMA AheadStays ==
  ASSUME NEW v \in Units, process'[v] = process[v],
         doneValue'[v] = doneValue[v], at'[v] = at[v], queue'[v] = queue[v]
  PROVE  \A d, q : Ahead(v, d, q)' <=> Ahead(v, d, q)
BY DEF Ahead

\* A step that takes no part in a unit, and after which the server still comes
\* to it if it would have come before.
LEMMA ToldStays ==
  ASSUME NEW v \in Units, Signalled(v), \A q \in Packets : Told(v, q),
         process'[v] = process[v], doneValue'[v] = doneValue[v],
         at'[v] = at[v], queue'[v] = queue[v], port'[v] = port[v],
         signals'[v] = signals[v],
         thread[v] \in {"work", "free", "count"} => thread'[v] = thread[v],
         sent'[v] = sent[v], acked'[v] = acked[v], complete'[v] = complete[v],
         NeedsMessage(v) /\ ServerComes(v) => ServerComes(v)',
         v \in ToSet(pending) /\ (InterruptComes \/ server = "commands") =>
           v \in ToSet(pending') /\ (InterruptComes \/ server = "commands")',
         \A q \in Packets : client'[q] = v /\ status'[q] \in {Done, TimedOut} =>
                              client[q] = v /\ status'[q] = status[q]
  PROVE  Signalled(v)' /\ \A q \in Packets : Told(v, q)'
<1>1. Signalled(v)'
  BY DEF Signalled
<1>2. NeedsMessage(v)' <=> NeedsMessage(v)
  BY DEF NeedsMessage
<1>3. ASSUME NEW q \in Packets PROVE Told(v, q)'
  <2>1. ASSUME client'[q] = v, status'[q] = Done PROVE DoneIsTold(v, q)'
    <3>1. DoneIsTold(v, q)
      BY <2>1 DEF Told
    <3> QED
      BY <1>2, <3>1, AheadStays DEF DoneIsTold
  <2>2. ASSUME client'[q] = v, status'[q] = TimedOut
        PROVE  TimedOutIsTold(v, q)'
    <3>1. TimedOutIsTold(v, q)
      BY <2>2 DEF Told
    <3> QED
      BY <3>1, AheadStays DEF TimedOutIsTold
  <2> QED
    BY <2>1, <2>2 DEF Told
<1> QED
  BY <1>1, <1>3

\* The same for all units, where nothing that concerns them changes.
LEMMA ToldFrame ==
  ASSUME NeverNotEnough,
         UNCHANGED <<process, doneValue, at, queue, port, signals, client,
                     status, sent, acked, complete, pending>>,
         pending # << >> /\ (InterruptComes \/ server = "commands") =>
           (InterruptComes \/ server = "commands")',
         \A v \in Units :
           /\ thread[v] \in {"work", "free", "count"} => thread'[v] = thread[v]
           /\ NeedsMessage(v) /\ ServerComes(v) => ServerComes(v)'
  PROVE  NeverNotEnough'
<1>1. ASSUME NEW v \in Units
      PROVE  Signalled(v)' /\ \A q \in Packets : Told(v, q)'
  <2>1. Signalled(v) /\ \A q \in Packets : Told(v, q)
    BY DEF NeverNotEnough, Signalled, Told
  <2>2. v \in ToSet(pending) /\ (InterruptComes \/ server = "commands") =>
          v \in ToSet(pending') /\ (InterruptComes \/ server = "commands")'
    BY Nothing
  <2> QED
    BY <2>1, <2>2, ToldStays
<1> QED
  BY <1>1 DEF NeverNotEnough, Signalled, Told

\* A program sends a packet.
LEMMA NewsSend ==
  ASSUME PacketInv, NewsInv, NEW u \in Units, NEW p \in Packets, SendPacket(u, p)
  PROVE  NewsInv'
<1>1. /\ client[p] = Idle /\ client' = [client EXCEPT ![p] = u]
      /\ port' = [port EXCEPT ![u] = Append(@, p)]
      /\ signals' = [signals EXCEPT ![u] = @ \cup {"port"}]
      /\ UNCHANGED <<n2aVars, setupVars, queueVars, status, processVars,
                     threadVars, countVars, unitNo>>
  BY DEF SendPacket, PutMsg
<1>2. /\ port \in [Units -> Seq(Packets \cup {Dummy})]
      /\ signals \in [Units -> SUBSET {"port", "ctrlD"}]
      /\ client \in [Packets -> Units \cup {Idle}]
  BY DEF PacketInv, BaseInv, TypeInv
<1>3. status[p] = Linked /\ Linked # Done /\ Linked # TimedOut
  BY <1>1 DEF PacketInv, PlaceInv, IdleIsLinked, Linked, Done, TimedOut
<1>4. FoundInv'
  BY <1>1, <1>2, <1>3
     DEF NewsInv, FoundInv, Queued, queueVars, processVars
<1>5. LineInv'
  BY <1>1 DEF NewsInv, LineInv, n2aVars, bitVars, lineVars, setupVars, countVars
<1>6. ASSUME NEW v \in Units
      PROVE  Signalled(v)' /\ \A q \in Packets : Told(v, q)'
  <2>1. Signalled(v) /\ \A q \in Packets : Told(v, q)
    BY DEF NewsInv, NeverNotEnough, Signalled, Told
  <2>2. Signalled(v)'
    BY <1>1, <1>2, <2>1 DEF Signalled, processVars
  <2>3. /\ Dummy \in ToSet(port[v]) => Dummy \in ToSet(port'[v])
        /\ signals[v] # {} => signals'[v] # {}
    <3>1. ToSet(Append(port[u], p)) = ToSet(port[u]) \cup {p}
      BY <1>2, AppendMembers, SMTT(20)
    <3> QED
      BY <1>1, <1>2, <3>1
  <2>4. /\ \A d, q : Ahead(v, d, q)' <=> Ahead(v, d, q)
        /\ ServerComes(v)' <=> ServerComes(v)
        /\ InterruptComes' <=> InterruptComes
    <3>1. UNCHANGED <<process, doneValue, at, queue>>
      BY <1>1 DEF processVars, queueVars
    <3>2. UNCHANGED <<intRequested, intSem, server, unitNo, thread>>
      BY <1>1 DEF n2aVars, bitVars, threadVars
    <3> QED
      BY <3>1, <3>2, AheadStays DEF ServerComes, InterruptComes
  <2>5. ASSUME NEW q \in Packets PROVE Told(v, q)'
    <3>1. Told(v, q)' <=>
            (client'[q] = v => /\ status[q] = Done => DoneIsTold(v, q)'
                               /\ status[q] = TimedOut => TimedOutIsTold(v, q)')
      BY <1>1 DEF Told
    <3>2. client'[q] = v /\ status[q] \in {Done, TimedOut} => client[q] = v
      BY <1>1, <1>2, <1>3
    <3>3. DoneIsTold(v, q) => DoneIsTold(v, q)'
      BY <1>1, <2>3, <2>4
         DEF DoneIsTold, NeedsMessage, threadVars, countVars, processVars
    <3>4. TimedOutIsTold(v, q) => TimedOutIsTold(v, q)'
      BY <1>1, <2>3, <2>4 DEF TimedOutIsTold, n2aVars
    <3> QED
      BY <2>1, <3>1, <3>2, <3>3, <3>4 DEF Told
  <2> QED
    BY <2>2, <2>5
<1> QED
  BY <1>4, <1>5, <1>6 DEF NewsInv, NeverNotEnough, Signalled, Told

\* A step of the process, or what keeps a mark from being set by it.
LEMMA ProcessUnmarks ==
  ASSUME PacketInv, NEW u \in Units, Process(u)
  PROVE  \A q \in Packets : \/ client'[q] = client[q] /\ status'[q] = status[q]
                            \/ status'[q] \notin {Done, TimedOut}
<1>1. status \in [Packets -> Statuses] /\ client \in [Packets -> Units \cup {Idle}]
  BY DEF PacketInv, BaseInv, TypeInv
<1>2. {Started, Unstarted, Linked} \cap {Done, TimedOut} = {}
  BY DEF Started, Unstarted, Linked, Done, TimedOut
<1>3. CASE UNCHANGED <<client, status>>
  BY <1>3
<1>4. CASE HandOver(u) \/ HoldBack(u)
  <2>1. PICK p \in Packets : \/ status' = [status EXCEPT ![p] = Started]
                             \/ status' = [status EXCEPT ![p] = Unstarted]
    BY <1>4 DEF HandOver, HoldBack
  <2>2. client' = client
    BY <1>4 DEF HandOver, HoldBack
  <2> QED
    BY <1>1, <1>2, <2>1, <2>2
<1>5. CASE ReplyOne(u)
  BY <1>1, <1>2, <1>5 DEF ReplyOne
<1> QED
  BY <1>3, <1>4, <1>5
     DEF Process, GetNothing, GetDummy, WakeUp, ReleaseMessageLock, Enqueue,
         CheckNext, ScanEnds, portVars

\* The process loses sight of no packet with a mark.
LEMMA FoundProcess ==
  ASSUME PacketInv, FoundInv, NEW u \in Units, Process(u)
  PROVE  FoundInv'
<1>1. /\ client \in [Packets -> Units \cup {Idle}]
      /\ status \in [Packets -> Statuses]
      /\ port \in [Units -> Seq(Packets \cup {Dummy})]
      /\ queue \in [Units -> Seq(Packets)] /\ msg \in [Units -> PacketOrNone]
      /\ process \in [Units -> Positions] /\ at \in [Units -> Nat \ {0}]
  BY DEF PacketInv, BaseInv, TypeInv
<1>2. None \notin Packets /\ Idle \notin Units
  BY NoMessage, FilesysAssumption DEF Idle, Units
<1>3. CASE \/ GetNothing(u) \/ GetDummy(u) \/ WakeUp(u)
           \/ ReleaseMessageLock(u) \/ CheckNext(u) \/ ScanEnds(u)
  <2>1. /\ UNCHANGED <<client, status, queue, msg>>
        /\ process[u] # "enqueue"
        /\ \A v \in Units \ {u} : process'[v] = process[v]
    BY <1>1, <1>3
       DEF GetNothing, GetDummy, WakeUp, ReleaseMessageLock, CheckNext,
           ScanEnds, ProcessTo, portVars, queueVars
  <2> QED
    BY <2>1 DEF FoundInv, Queued
<1>4. CASE HandOver(u) \/ HoldBack(u)
  <2>1. PICK p \in Packets :
          /\ Get(u, p) /\ msg' = [msg EXCEPT ![u] = p]
          /\ \/ status' = [status EXCEPT ![p] = Started]
             \/ status' = [status EXCEPT ![p] = Unstarted]
    BY <1>4 DEF HandOver, HoldBack
  <2>2. /\ UNCHANGED <<client, queue>> /\ process[u] = "get"
        /\ process' = [process EXCEPT ![u] = "enqueue"]
    BY <1>4 DEF HandOver, HoldBack, ProcessTo, queueVars
  <2>3. client[p] = u
    <3>1. p \in ToSet(port[u])
      BY <1>1, <2>1, TailMembers DEF Get
    <3> QED
      BY <3>1 DEF PacketInv, PlaceInv, Place
  <2>4. msg[u] = None /\ \A q \in Packets : Queued(u, q) => q \in ToSet(queue[u])
    BY <1>2, <2>2 DEF FoundInv
  <2>5. /\ msg'[u] = p /\ process'[u] = "enqueue"
        /\ \A v \in Units \ {u} : msg'[v] = msg[v] /\ process'[v] = process[v]
        /\ \A q \in Packets \ {p} : status'[q] = status[q]
    BY <1>1, <2>1, <2>2
  <2>6. ASSUME NEW v \in Units, NEW q \in Packets, Queued(v, q)'
        PROVE  q = msg'[v] \/ q \in ToSet(queue'[v])
    <3>1. CASE q = p
      BY <2>2, <2>3, <2>5, <2>6, <3>1 DEF Queued
    <3>2. CASE q # p
      <4>1. Queued(v, q)
        BY <2>2, <2>5, <2>6, <3>2 DEF Queued
      <4> QED
        BY <2>2, <2>4, <2>5, <4>1 DEF FoundInv
    <3> QED
      BY <3>1, <3>2
  <2> QED
    BY <2>5, <2>6 DEF FoundInv
<1>5. CASE Enqueue(u)
  <2>1. /\ UNCHANGED <<client, status>> /\ process[u] = "enqueue"
        /\ process' = [process EXCEPT ![u] = "get"]
        /\ queue' = [queue EXCEPT ![u] = <<msg[u]>> \o queue[u]]
        /\ msg' = [msg EXCEPT ![u] = None]
    BY <1>5 DEF Enqueue, ProcessTo, portVars
  <2>2. ToSet(<<msg[u]>> \o queue[u]) = {msg[u]} \cup ToSet(queue[u])
    BY <1>1, <2>1, ConsMembers DEF PacketInv, BaseInv, HandInv
  <2>3. /\ \A v \in Units \ {u} : /\ msg'[v] = msg[v] /\ process'[v] = process[v]
                                  /\ queue'[v] = queue[v]
        /\ msg'[u] = None /\ queue'[u] = <<msg[u]>> \o queue[u]
    BY <1>1, <2>1
  <2>4. \A v \in Units, q \in Packets : Queued(v, q)' <=> Queued(v, q)
    BY <2>1 DEF Queued
  <2> QED
    BY <2>2, <2>3, <2>4 DEF FoundInv
<1>6. CASE ReplyOne(u)
  <2> DEFINE k == at[u]
             r == RemoveAt(queue[u], k)
  <2>1. /\ k \in 1 .. Len(queue[u])
        /\ client' = [client EXCEPT ![queue[u][k]] = Idle]
        /\ status' = [status EXCEPT ![queue[u][k]] = Linked]
        /\ queue' = [queue EXCEPT ![u] = r] /\ msg' = msg
        /\ process[u] = "scan" /\ process' = [process EXCEPT ![u] = "scan"]
    BY <1>1, <1>6 DEF ReplyOne, ProcessTo, Scanned
  <2>2. queue[u][k] \in Packets /\ r \in Seq(Packets)
    BY <1>1, <2>1, RemoveMembers
  <2>3. /\ process' = process /\ queue'[u] = r
        /\ \A v \in Units \ {u} : queue'[v] = queue[v]
    BY <1>1, <2>1
  <2>4. \A v \in Units, q \in Packets :
          Queued(v, q)' => Queued(v, q) /\ q # queue[u][k]
    BY <1>1, <1>2, <2>1, <2>2 DEF Queued
  <2>5. ASSUME NEW q \in Packets, q \in ToSet(queue[u]), q # queue[u][k]
        PROVE  q \in ToSet(r)
    <3>1. PICK i \in 1 .. Len(queue[u]) : queue[u][i] = q
      BY <1>1, <2>5, Member
    <3>2. i # k
      BY <2>5, <3>1
    <3>3. \E j \in 1 .. Len(r) : r[j] = queue[u][i]
      <4>1. queue[u] \in Seq(Packets) /\ k \in 1 .. Len(queue[u])
        BY <1>1, <2>1
      <4> HIDE DEF k
      <4> QED
        BY <3>2, <4>1, RemoveKeeps
    <3> QED
      BY <2>2, <3>1, <3>3, Member
  <2> HIDE DEF k, r
  <2> QED
    BY <2>1, <2>3, <2>4, <2>5 DEF FoundInv
<1> QED
  BY <1>3, <1>4, <1>5, <1>6 DEF Process

\* The process has what makes it look, or looks already.
LooksDone(u, q) == HasDummy(u) \/ Ahead(u, Done, q)
LooksTimedOut(u, q) == signals[u] # {} \/ Ahead(u, TimedOut, q)

\* A unit stays told while what told it stays.
LEMMA ToldOwn ==
  ASSUME NEW u \in Units, NEW q \in Packets, Told(u, q),
         UNCHANGED <<intRequested, intSem, server, unitNo, pending, thread,
                     sent, acked, complete>>,
         client'[q] = u /\ status'[q] \in {Done, TimedOut} =>
           client[q] = u /\ status'[q] = status[q],
         client'[q] = u /\ status'[q] = Done /\ LooksDone(u, q) =>
           LooksDone(u, q)',
         client'[q] = u /\ status'[q] = TimedOut /\ LooksTimedOut(u, q) =>
           LooksTimedOut(u, q)'
  PROVE  Told(u, q)'
<1>1. /\ NeedsMessage(u)' <=> NeedsMessage(u)
      /\ ServerComes(u)' <=> ServerComes(u)
      /\ InterruptComes' <=> InterruptComes
  BY DEF NeedsMessage, ServerComes, InterruptComes
<1>2. ASSUME client'[q] = u, status'[q] = Done PROVE DoneIsTold(u, q)'
  <2>1. DoneIsTold(u, q)
    BY <1>2 DEF Told
  <2> QED
    BY <1>1, <1>2, <2>1 DEF DoneIsTold, LooksDone, HasDummy
<1>3. ASSUME client'[q] = u, status'[q] = TimedOut PROVE TimedOutIsTold(u, q)'
  <2>1. TimedOutIsTold(u, q)
    BY <1>3 DEF Told
  <2> QED
    BY <1>1, <1>3, <2>1 DEF TimedOutIsTold, LooksTimedOut
<1> QED
  BY <1>2, <1>3 DEF Told

\* A step of the process of a unit, as the other units see it.
LEMMA ProcessOthers ==
  ASSUME PacketInv, NewsInv, NEW u \in Units, Process(u),
         NEW v \in Units, v # u
  PROVE  Signalled(v)' /\ \A q \in Packets : Told(v, q)'
<1>1. Signalled(v) /\ \A q \in Packets : Told(v, q)
  BY DEF NewsInv, NeverNotEnough, Signalled, Told
<1>2. /\ process'[v] = process[v] /\ doneValue'[v] = doneValue[v]
      /\ at'[v] = at[v] /\ queue'[v] = queue[v] /\ port'[v] = port[v]
      /\ signals'[v] = signals[v] /\ complete'[v] = complete[v]
  <2> USE DEF PacketInv, BaseInv, TypeInv, Process, ProcessTo, portVars,
              queueVars, StartScan, Get
  <2>1. process'[v] = process[v]
    BY DEF GetNothing, GetDummy, WakeUp, ReleaseMessageLock, HandOver,
           HoldBack, Enqueue, ReplyOne, CheckNext, ScanEnds
  <2>2. doneValue'[v] = doneValue[v] /\ at'[v] = at[v]
    BY DEF GetNothing, GetDummy, WakeUp, ReleaseMessageLock, HandOver,
           HoldBack, Enqueue, ReplyOne, CheckNext, ScanEnds
  <2>3. queue'[v] = queue[v] /\ port'[v] = port[v]
    BY DEF GetNothing, GetDummy, WakeUp, ReleaseMessageLock, HandOver,
           HoldBack, Enqueue, ReplyOne, CheckNext, ScanEnds
  <2>4. signals'[v] = signals[v] /\ complete'[v] = complete[v]
    BY DEF GetNothing, GetDummy, WakeUp, ReleaseMessageLock, HandOver,
           HoldBack, Enqueue, ReplyOne, CheckNext, ScanEnds
  <2> QED
    BY <2>1, <2>2, <2>3, <2>4
<1>3. UNCHANGED <<thread, sent, acked, pending, intRequested, intSem, server,
                  unitNo>>
  BY DEF Process, n2aVars, bitVars, threadVars
<1>4. /\ ServerComes(v)' <=> ServerComes(v)
      /\ InterruptComes' <=> InterruptComes
  BY <1>3 DEF ServerComes, InterruptComes
<1>5. \A q \in Packets : client'[q] = v /\ status'[q] \in {Done, TimedOut} =>
                           client[q] = v /\ status'[q] = status[q]
  BY ProcessUnmarks
<1> QED
  BY <1>1, <1>2, <1>3, <1>4, <1>5, ToldStays

\* Taking a packet from the port leaves the dummy message there.
LEMMA DummyStays ==
  ASSUME PacketInv, NEW u \in Units, NEW p \in Packets, Get(u, p)
  PROVE  Dummy \in ToSet(port[u]) => Dummy \in ToSet(port'[u])
<1>1. port \in [Units -> Seq(Packets \cup {Dummy})] /\ p # Dummy
  BY NoMessage DEF PacketInv, BaseInv, TypeInv
<1>2. ToSet(port[u]) = {p} \cup ToSet(Tail(port[u])) /\ port'[u] = Tail(port[u])
  BY <1>1, TailMembers DEF Get
<1> QED
  BY <1>1, <1>2

\* A reply leaves what is ahead of the scan ahead of it.
LEMMA ReplyLeavesAhead ==
  ASSUME PacketInv, NEW u \in Units, ReplyOne(u), NEW d, NEW q \in Packets,
         client'[q] = u, Ahead(u, d, q)
  PROVE  Ahead(u, d, q)'
<1> DEFINE k == at[u]
           r == RemoveAt(queue[u], k)
<1>1. /\ client \in [Packets -> Units \cup {Idle}]
      /\ queue \in [Units -> Seq(Packets)]
      /\ process \in [Units -> Positions] /\ at \in [Units -> Nat \ {0}]
  BY DEF PacketInv, BaseInv, TypeInv
<1>2. /\ k \in 1 .. Len(queue[u])
      /\ client' = [client EXCEPT ![queue[u][k]] = Idle]
      /\ queue' = [queue EXCEPT ![u] = r] /\ UNCHANGED <<doneValue, at>>
      /\ process' = [process EXCEPT ![u] = "scan"]
  BY <1>1 DEF ReplyOne, ProcessTo, Scanned
<1>3. queue[u][k] # q
  BY <1>1, <1>2, FilesysAssumption DEF Idle, Units
<1>4. process[u] = "scan" /\ doneValue[u] = d
  BY DEF Ahead
<1>5. PICK i \in at[u] .. Len(queue[u]) : queue[u][i] = q
  BY DEF Ahead
<1>6. i \in 1 .. Len(queue[u]) /\ i # k /\ k < i
  BY <1>1, <1>2, <1>3, <1>5
<1>7. PICK j \in 1 .. Len(r) : r[j] = q /\ k <= j
  <2>1. \E j \in 1 .. Len(r) : r[j] = queue[u][i] /\ (k < i => k <= j)
    <3>1. queue[u] \in Seq(Packets)
      BY <1>1
    <3>2. k \in 1 .. Len(queue[u]) /\ i \in 1 .. Len(queue[u]) /\ i # k
      BY <1>2, <1>6
    <3> HIDE DEF k
    <3> QED
      BY <3>1, <3>2, RemoveKeeps
  <2> HIDE DEF k, r
  <2> QED
    BY <1>5, <1>6, <2>1
<1>8. /\ process'[u] = "scan" /\ doneValue'[u] = d
      /\ queue'[u] = r /\ at'[u] = k
  BY <1>1, <1>2, <1>4
<1>9. j \in k .. Len(r)
  BY <1>2, <1>7
<1> HIDE DEF k, r
<1> QED
  BY <1>7, <1>8, <1>9 DEF Ahead

\* A step of the process of a unit, as that unit sees it.
LEMMA ProcessOwn ==
  ASSUME PacketInv, NewsInv, FoundInv', NEW u \in Units, Process(u)
  PROVE  Signalled(u)' /\ \A q \in Packets : Told(u, q)'
<1> USE DEF ProcessTo, portVars, queueVars, StartScan
<1>1. /\ client \in [Packets -> Units \cup {Idle}]
      /\ status \in [Packets -> Statuses]
      /\ port \in [Units -> Seq(Packets \cup {Dummy})]
      /\ queue \in [Units -> Seq(Packets)] /\ msg \in [Units -> PacketOrNone]
      /\ process \in [Units -> Positions] /\ at \in [Units -> Nat \ {0}]
      /\ doneValue \in [Units -> {Done, TimedOut}]
      /\ signals \in [Units -> SUBSET {"port", "ctrlD"}]
  BY DEF PacketInv, BaseInv, TypeInv
<1>2. Signalled(u) /\ \A q \in Packets : Told(u, q)
  BY DEF NewsInv, NeverNotEnough, Signalled, Told
<1>3. UNCHANGED <<thread, sent, acked, pending, intRequested, intSem, server,
                  unitNo>>
  BY DEF Process, n2aVars, bitVars, threadVars
<1>4. \A q \in Packets : client'[q] = u /\ status'[q] \in {Done, TimedOut} =>
                           client[q] = u /\ status'[q] = status[q]
  BY ProcessUnmarks
<1>5. ASSUME complete' = complete,
             \A q \in Packets :
               /\ client'[q] = u /\ status'[q] = Done /\ LooksDone(u, q) =>
                    LooksDone(u, q)'
               /\ client'[q] = u /\ status'[q] = TimedOut /\ LooksTimedOut(u, q)
                    => LooksTimedOut(u, q)'
      PROVE  \A q \in Packets : Told(u, q)'
  BY <1>2, <1>3, <1>4, <1>5, ToldOwn
<1>6. ASSUME process[u] # "scan"
      PROVE  \A d, q : ~Ahead(u, d, q)
  BY <1>6 DEF Ahead
\* What the process looks for in its queue is there.
<1>7. ASSUME NEW d \in {Done, TimedOut}, process'[u] = "scan", at'[u] = 1,
             doneValue'[u] = d, queue'[u] = queue[u],
             NEW q \in Packets, client'[q] = u, status'[q] = d
      PROVE  Ahead(u, d, q)'
  <2>1. Queued(u, q)'
    BY <1>7 DEF Queued, Done, TimedOut, Linked
  <2>2. msg'[u] = None /\ q # None
    BY <1>7, NoMessage DEF FoundInv
  <2>3. q \in ToSet(queue'[u])
    BY <2>1, <2>2 DEF FoundInv
  <2>4. PICK i \in 1 .. Len(queue[u]) : queue[u][i] = q
    BY <1>1, <1>7, <2>3, Member
  <2> QED
    BY <1>7, <2>4 DEF Ahead
<1>8. CASE GetNothing(u)
  <2>1. /\ process[u] = "get" /\ port[u] = << >> /\ port' = port
        /\ process'[u] = "wait" /\ UNCHANGED <<signals, complete>>
    BY <1>1, <1>8 DEF GetNothing
  <2>2. Signalled(u)'
    BY <2>1 DEF Signalled
  <2>3. \A q \in Packets : /\ LooksDone(u, q) => LooksDone(u, q)'
                           /\ LooksTimedOut(u, q) => LooksTimedOut(u, q)'
    BY <1>6, <2>1 DEF LooksDone, LooksTimedOut, HasDummy
  <2> QED
    BY <1>5, <2>1, <2>2, <2>3
<1>9. CASE GetDummy(u)
  <2>1. /\ process[u] = "get" /\ process'[u] = "release"
        /\ UNCHANGED <<signals, complete>>
    BY <1>1, <1>9 DEF GetDummy
  <2>2. Signalled(u)'
    BY <2>1 DEF Signalled
  <2>3. \A q \in Packets : /\ LooksDone(u, q)'
                           /\ LooksTimedOut(u, q) => LooksTimedOut(u, q)'
    BY <1>6, <2>1 DEF LooksDone, LooksTimedOut, HasDummy
  <2> QED
    BY <1>5, <2>1, <2>2, <2>3
<1>10. CASE WakeUp(u)
  <2>1. /\ process[u] = "wait" /\ process'[u] = "scan" /\ at'[u] = 1
        /\ doneValue'[u] = TimedOut
        /\ UNCHANGED <<port, queue, complete>>
    BY <1>1, <1>10 DEF WakeUp
  <2>2. Signalled(u)'
    BY <2>1 DEF Signalled
  <2>3. \A q \in Packets :
          /\ LooksDone(u, q) => LooksDone(u, q)'
          /\ client'[q] = u /\ status'[q] = TimedOut => LooksTimedOut(u, q)'
    BY <1>6, <1>7, <2>1 DEF LooksDone, LooksTimedOut, HasDummy
  <2> QED
    BY <1>5, <2>1, <2>2, <2>3
<1>11. CASE ReleaseMessageLock(u)
  <2>1. /\ process[u] = "release" /\ process'[u] = "scan" /\ at'[u] = 1
        /\ doneValue'[u] = Done /\ UNCHANGED <<signals, queue>>
    BY <1>1, <1>11 DEF ReleaseMessageLock
  <2>2. Signalled(u)'
    BY <2>1 DEF Signalled
  <2>3. ASSUME NEW q \in Packets PROVE Told(u, q)'
    <3>1. client'[q] = u /\ status'[q] = Done => DoneIsTold(u, q)'
      BY <1>7, <2>1 DEF DoneIsTold
    <3>2. client'[q] = u /\ status'[q] = TimedOut => TimedOutIsTold(u, q)
      BY <1>2, <1>4 DEF Told
    <3>3. TimedOutIsTold(u, q) => TimedOutIsTold(u, q)'
      BY <1>3, <1>6, <2>1 DEF TimedOutIsTold, InterruptComes
    <3> QED
      BY <3>1, <3>2, <3>3 DEF Told
  <2> QED
    BY <2>2, <2>3
<1>12. CASE HandOver(u) \/ HoldBack(u)
  <2>1. /\ process[u] = "get" /\ process'[u] = "enqueue"
        /\ UNCHANGED <<signals, complete>>
    BY <1>1, <1>12 DEF HandOver, HoldBack
  <2>2. Dummy \in ToSet(port[u]) => Dummy \in ToSet(port'[u])
    BY <1>12, DummyStays DEF HandOver, HoldBack
  <2>3. Signalled(u)'
    BY <2>1 DEF Signalled
  <2>4. \A q \in Packets : /\ LooksDone(u, q) => LooksDone(u, q)'
                           /\ LooksTimedOut(u, q) => LooksTimedOut(u, q)'
    BY <1>6, <2>1, <2>2 DEF LooksDone, LooksTimedOut, HasDummy
  <2> QED
    BY <1>5, <2>1, <2>3, <2>4
<1>13. CASE Enqueue(u)
  <2>1. /\ process[u] = "enqueue" /\ process'[u] = "get"
        /\ UNCHANGED <<port, signals, complete>>
    BY <1>1, <1>13 DEF Enqueue
  <2>2. Signalled(u)'
    BY <2>1 DEF Signalled
  <2>3. \A q \in Packets : /\ LooksDone(u, q) => LooksDone(u, q)'
                           /\ LooksTimedOut(u, q) => LooksTimedOut(u, q)'
    BY <1>6, <2>1 DEF LooksDone, LooksTimedOut, HasDummy
  <2> QED
    BY <1>5, <2>1, <2>2, <2>3
<1>14. CASE ReplyOne(u)
  <2>1. /\ process[u] = "scan" /\ process'[u] = "scan"
        /\ UNCHANGED <<port, signals, complete>>
    BY <1>1, <1>14 DEF ReplyOne
  <2>2. Signalled(u)'
    BY <2>1 DEF Signalled
  <2>3. \A d, q : q \in Packets /\ client'[q] = u /\ Ahead(u, d, q)
                    => Ahead(u, d, q)'
    BY <1>14, ReplyLeavesAhead
  <2>4. \A q \in Packets :
          /\ client'[q] = u /\ LooksDone(u, q) => LooksDone(u, q)'
          /\ client'[q] = u /\ LooksTimedOut(u, q) => LooksTimedOut(u, q)'
    BY <2>1, <2>3 DEF LooksDone, LooksTimedOut, HasDummy
  <2> QED
    BY <1>5, <2>1, <2>2, <2>4
<1>15. CASE CheckNext(u)
  <2>1. /\ process[u] = "scan" /\ process'[u] = "scan"
        /\ status[queue[u][at[u]]] # doneValue[u]
        /\ at'[u] = at[u] + 1 /\ at[u] \in Nat
        /\ UNCHANGED <<port, signals, complete, queue, status, doneValue>>
    BY <1>1, <1>15 DEF CheckNext, Scanned
  <2>2. Signalled(u)'
    BY <2>1 DEF Signalled
  <2>3. ASSUME NEW d, NEW q \in Packets, status'[q] = d, Ahead(u, d, q)
        PROVE  Ahead(u, d, q)'
    <3>1. PICK i \in at[u] .. Len(queue[u]) : queue[u][i] = q
      BY <2>3 DEF Ahead
    <3>2. doneValue[u] = d /\ i # at[u]
      BY <2>1, <2>3, <3>1 DEF Ahead
    <3>3. i \in at'[u] .. Len(queue'[u]) /\ queue'[u][i] = q
      BY <2>1, <3>1, <3>2
    <3> QED
      BY <2>1, <3>2, <3>3 DEF Ahead
  <2>4. \A q \in Packets :
          /\ status'[q] = Done /\ LooksDone(u, q) => LooksDone(u, q)'
          /\ status'[q] = TimedOut /\ LooksTimedOut(u, q) => LooksTimedOut(u, q)'
    BY <2>1, <2>3 DEF LooksDone, LooksTimedOut, HasDummy
  <2> QED
    BY <1>5, <2>1, <2>2, <2>4
<1>16. CASE ScanEnds(u)
  <2>1. /\ process[u] = "scan" /\ process'[u] = "get"
        /\ at[u] > Len(queue[u]) /\ at[u] \in Nat /\ Len(queue[u]) \in Nat
        /\ UNCHANGED <<port, signals, complete>>
    BY <1>1, <1>16 DEF ScanEnds
  <2>2. Signalled(u)'
    BY <2>1 DEF Signalled
  <2>3. \A d, q : ~Ahead(u, d, q)
    BY <2>1 DEF Ahead
  <2>4. \A q \in Packets : /\ LooksDone(u, q) => LooksDone(u, q)'
                           /\ LooksTimedOut(u, q) => LooksTimedOut(u, q)'
    BY <2>1, <2>3 DEF LooksDone, LooksTimedOut, HasDummy
  <2> QED
    BY <1>5, <2>1, <2>2, <2>4
<1> QED
  BY <1>8, <1>9, <1>10, <1>11, <1>12, <1>13, <1>14, <1>15, <1>16 DEF Process

LEMMA NewsProcess ==
  ASSUME PacketInv, NewsInv, NEW u \in Units, Process(u)
  PROVE  NewsInv'
<1>1. FoundInv'
  BY FoundProcess DEF NewsInv
<1>2. LineInv'
  BY DEF NewsInv, LineInv, Process, n2aVars, bitVars, lineVars, setupVars
<1>3. NeverNotEnough'
  BY <1>1, ProcessOwn, ProcessOthers DEF NeverNotEnough, Signalled, Told
<1> QED
  BY <1>1, <1>2, <1>3 DEF NewsInv

\* A step of the thread of a unit.
LEMMA NewsThread ==
  ASSUME PacketInv, NewsInv, NEW u \in Units, UnitThread(u)
  PROVE  NewsInv'
<1> USE DEF ThreadTo
<1>1. /\ thread \in [Units -> ThreadPositions] /\ sent \in [Units -> Nat]
      /\ acked \in [Units -> Nat] /\ complete \in [Units -> Nat]
      /\ status \in [Packets -> Statuses]
  BY DEF PacketInv, BaseInv, TypeInv
<1>2. /\ mode = "threads"
      /\ UNCHANGED <<emu, server, intSem, pending, mode, cdtvscsi, client, port,
                     signals, queue, process, msg, doneValue, at, acked,
                     complete, unitNo>>
  BY DEF UnitThread, lineVars, setupVars, portVars, queueVars, processVars
<1>3. \A q \in Packets : \/ status'[q] = status[q]
                         \/ StartedAt(u, q) /\ status'[q] = Done
  BY ThreadWorks DEF PacketInv, BaseInv
<1>4. OurBit \in intRequested => OurBit \in intRequested'
  BY DEF UnitThread, ReadPacket, Begin, WaitForRecord, FindFreeRecord,
     GrantRecord, MarkDone, CountSent, AskForInterrupt, ReadBits, SetOurBit,
     WriteBits, bitVars
<1>5. /\ \A v \in Units \ {u} : sent'[v] = sent[v] /\ thread'[v] = thread[v]
      /\ sent'[u] \in {sent[u], sent[u] + 1}
  BY <1>1 DEF UnitThread, ReadPacket, Begin, WaitForRecord, FindFreeRecord,
     GrantRecord, MarkDone, CountSent, AskForInterrupt
<1>6. FoundInv'
  BY <1>2, <1>3 DEF NewsInv, FoundInv, Queued, StartedAt, Started, Done, Linked
<1>7. LineInv'
  <2>1. \A v \in Units : acked'[v] <= sent'[v]
    BY <1>1, <1>2, <1>5 DEF NewsInv, LineInv
  <2> QED
    BY <1>2, <2>1 DEF NewsInv, LineInv
<1>8. InterruptComes => InterruptComes'
  BY <1>2, <1>4 DEF InterruptComes
<1>9. ASSUME NEW v \in Units
      PROVE  Signalled(v) /\ \A q \in Packets : Told(v, q)
  BY DEF NewsInv, NeverNotEnough, Signalled, Told
<1>10. ASSUME NEW v \in Units, v # u
       PROVE  Signalled(v)' /\ \A q \in Packets : Told(v, q)'
  <2>1. ServerComes(v) => ServerComes(v)'
    BY <1>2, <1>5, <1>8, <1>10 DEF ServerComes
  <2>2. \A q \in Packets : client'[q] = v /\ status'[q] \in {Done, TimedOut} =>
                             client[q] = v /\ status'[q] = status[q]
    BY <1>2, <1>3, <1>10 DEF StartedAt
  <2>3. /\ process'[v] = process[v] /\ doneValue'[v] = doneValue[v]
        /\ at'[v] = at[v] /\ queue'[v] = queue[v] /\ port'[v] = port[v]
        /\ signals'[v] = signals[v] /\ thread'[v] = thread[v]
        /\ sent'[v] = sent[v] /\ acked'[v] = acked[v]
        /\ complete'[v] = complete[v]
    BY <1>2, <1>5, <1>10
  <2>4. v \in ToSet(pending) /\ (InterruptComes \/ server = "commands") =>
          v \in ToSet(pending') /\ (InterruptComes \/ server = "commands")'
    BY <1>2, <1>8
  <2> QED
    BY <1>9, <2>1, <2>2, <2>3, <2>4, ToldStays
<1>11. Signalled(u)'
  BY <1>2, <1>9 DEF Signalled
<1>12. \A d, q : Ahead(u, d, q)' <=> Ahead(u, d, q)
  BY <1>2, AheadStays
<1>13. ASSUME NEW q \in Packets, client'[q] = u, status'[q] = TimedOut
       PROVE  TimedOutIsTold(u, q)'
  <2>1. TimedOutIsTold(u, q)
    BY <1>2, <1>3, <1>9, <1>13 DEF Told, Done, TimedOut
  <2> QED
    BY <1>2, <1>8, <1>12, <2>1 DEF TimedOutIsTold
\* A thread that has counted a packet finds the dummy message on its way, or
\* a reason to send it.
<1>14. ASSUME NEW q \in Packets, client'[q] = u, status'[q] = Done
       PROVE  DoneIsTold(u, q)'
  <2>1. CASE thread'[u] \in {"work", "free", "count"}
    BY <2>1 DEF DoneIsTold
  <2>2. ASSUME status'[q] = status[q], UNCHANGED sent,
               thread[u] \notin {"work", "free", "count"},
               NeedsMessage(u) /\ ServerComes(u) => ServerComes(u)'
        PROVE  DoneIsTold(u, q)'
    <3>1. DoneIsTold(u, q)
      BY <1>2, <1>9, <1>14, <2>2 DEF Told
    <3> QED
      BY <1>2, <1>12, <2>2, <3>1 DEF DoneIsTold, NeedsMessage
  <2>3. CASE ReadPacket(u)
    <3>1. /\ thread[u] = "read" /\ thread'[u] = "taken"
          /\ UNCHANGED <<status, sent>>
      BY <1>1, <2>3 DEF ReadPacket
    <3> QED
      BY <1>2, <1>8, <2>2, <3>1 DEF ServerComes
  <2>4. CASE Begin(u)
    <3>1. thread[u] = "taken" /\ UNCHANGED <<status, sent>>
      BY <1>1, <2>4 DEF Begin
    <3> QED
      BY <1>2, <1>8, <2>2, <3>1 DEF ServerComes
  <2>5. CASE \/ WaitForRecord(u) \/ FindFreeRecord(u) \/ GrantRecord(u)
             \/ MarkDone(u)
    <3>1. thread'[u] \in {"work", "free", "count"}
      BY <1>1, <2>5
         DEF WaitForRecord, FindFreeRecord, GrantRecord, MarkDone
    <3> QED
      BY <2>1, <3>1
  <2>6. CASE CountSent(u)
    <3>1. thread'[u] = "ask" /\ sent'[u] = sent[u] + 1
      BY <1>1, <2>6 DEF CountSent
    <3>2. CASE acked[u] = complete[u]
      <4>1. acked[u] <= sent[u]
        BY DEF NewsInv, LineInv
      <4>2. acked'[u] # sent'[u] /\ acked'[u] = complete'[u]
        BY <1>1, <1>2, <3>1, <3>2, <4>1
      <4> QED
        BY <3>1, <4>2 DEF DoneIsTold, NeedsMessage, ServerComes
    <3>3. CASE acked[u] # complete[u]
      BY <1>2, <3>3
         DEF PacketInv, BaseInv, MessageInv, HasDummy, DoneIsTold
    <3> QED
      BY <3>2, <3>3
  <2>7. CASE AskForInterrupt(u)
    <3>1. /\ thread[u] \in {"ask", "asking"} /\ UNCHANGED <<status, sent>>
          /\ \/ thread'[u] = "asking"
             \/ OurBit \in intRequested'
      BY <1>1, <2>7 DEF AskForInterrupt, SetOurBit, WriteBits
    <3>2. ServerComes(u)'
      BY <1>2, <3>1 DEF NewsInv, LineInv, ServerComes, InterruptComes
    <3> QED
      BY <2>2, <3>1, <3>2
  <2> QED
    BY <2>3, <2>4, <2>5, <2>6, <2>7 DEF UnitThread
<1>15. NeverNotEnough'
  BY <1>10, <1>11, <1>13, <1>14 DEF NeverNotEnough, Signalled, Told
<1> QED
  BY <1>6, <1>7, <1>15 DEF NewsInv

\* What the interrupt server and the other device do to the word and the line.
LEMMA InterruptsLine ==
  ASSUME PacketInv, LineInv, Interrupts
  PROVE  LineInv'
<1> USE DEF LineInv, fsVars, setupVars, countVars, bitVars, lineVars, ServerIs
<1>1. /\ intRequested \subseteq Bits /\ seen \in [Threads -> SUBSET Bits]
      /\ EmuThread \in Threads /\ acked \in [Units -> Nat]
      /\ sent \in [Units -> Nat]
  BY DEF PacketInv, BaseInv, TypeInv, N2ATypeOK, Threads
<1>2. CASE EnterServer
  BY <1>2 DEF EnterServer, ServerEnters
<1>3. CASE \/ DeliverSignal \/ FindNoCommand \/ LeaveServer
           \/ \E u \in Units : PassUnit(u)
  BY <1>3 DEF DeliverSignal, TakeCommand, FindNoCommand, NoCommand, LeaveServer,
     ServerLeaves, PassUnit, n2aVars
<1>4. ASSUME NEW u \in Units, DeliverDummy(u)
      PROVE  LineInv'
  <2>1. \A v \in Units : acked'[v] <= sent'[v]
    BY <1>1, <1>4 DEF DeliverDummy
  <2> QED
    BY <1>4, <2>1 DEF DeliverDummy, Message
<1>5. CASE ServerClears /\ UNCHANGED fsVars
  BY <1>5 DEF ServerClears
<1>6. CASE RethinkReads /\ UNCHANGED fsVars
  BY <1>6 DEF RethinkReads
<1>7. CASE RethinkWrites /\ UNCHANGED fsVars
  BY <1>7 DEF RethinkWrites
<1> QED
  BY <1>2, <1>3, <1>4, <1>5, <1>6, <1>7 DEF Interrupts

\* The command that is taken is a signal to a process.
LEMMA NewsSignal ==
  ASSUME PacketInv, NewsInv, DeliverSignal
  PROVE  NeverNotEnough'
<1> DEFINE w == Head(pending)
<1>1. /\ server = "commands" /\ server' = "commands"
      /\ pending # << >> /\ pending' = Tail(pending)
      /\ signals' = [signals EXCEPT ![w] = @ \cup {"ctrlD"}]
      /\ UNCHANGED <<process, doneValue, at, queue, port, client, status,
                     thread, sent, acked, complete, unitNo, intRequested,
                     intSem>>
  BY DEF DeliverSignal, TakeCommand, ServerIs, bitVars, queueVars, processVars,
     threadVars, countVars
<1>2. /\ signals \in [Units -> SUBSET {"port", "ctrlD"}]
      /\ pending \in Seq(Commands)
  BY DEF PacketInv, BaseInv, TypeInv, N2ATypeOK
<1>3. ToSet(pending) = {w} \cup ToSet(pending')
  BY <1>1, <1>2, TailMembers
<1> HIDE DEF w
<1>4. ASSUME NEW v \in Units
      PROVE  Signalled(v)' /\ \A q \in Packets : Told(v, q)'
  <2>1. Signalled(v) /\ \A q \in Packets : Told(v, q)
    BY DEF NewsInv, NeverNotEnough, Signalled, Told
  <2>2. /\ signals[v] # {} => signals'[v] # {}
        /\ v = w => signals'[v] # {}
    BY <1>1, <1>2
  <2>3. Signalled(v)'
    BY <1>1, <2>1, <2>2 DEF Signalled
  <2>4. \A d, q : Ahead(v, d, q)' <=> Ahead(v, d, q)
    BY <1>1, AheadStays
  <2>5. ASSUME NEW q \in Packets PROVE Told(v, q)'
    <3>1. DoneIsTold(v, q) => DoneIsTold(v, q)'
      BY <1>1, <2>4 DEF DoneIsTold, NeedsMessage, ServerComes, InterruptComes
    <3>2. TimedOutIsTold(v, q) => TimedOutIsTold(v, q)'
      BY <1>1, <1>3, <2>2, <2>4 DEF TimedOutIsTold, InterruptComes
    <3> QED
      BY <1>1, <2>1, <3>1, <3>2 DEF Told
  <2> QED
    BY <2>3, <2>5
<1> QED
  BY <1>4 DEF NeverNotEnough, Signalled, Told

\* The dummy message is sent to a unit.
LEMMA NewsDummy ==
  ASSUME PacketInv, NewsInv, NEW u \in Units, DeliverDummy(u)
  PROVE  NeverNotEnough'
<1>1. /\ server = "units" /\ server' = "commands" /\ u = unitNo
      /\ unitNo' = u + 1 /\ acked' = [acked EXCEPT ![u] = sent[u]]
      /\ port' = [port EXCEPT ![u] = Append(@, Dummy)]
      /\ signals' = [signals EXCEPT ![u] = @ \cup {"port"}]
      /\ UNCHANGED <<process, doneValue, at, queue, client, status, thread,
                     sent, complete, intRequested, intSem, pending>>
  BY DEF DeliverDummy, Message, ServerIs, PutMsg, bitVars, queueVars,
     processVars, threadVars
<1>2. /\ port \in [Units -> Seq(Packets \cup {Dummy})]
      /\ signals \in [Units -> SUBSET {"port", "ctrlD"}]
      /\ acked \in [Units -> Nat] /\ Units \subseteq Int
  <2>1. Units \subseteq Int
    BY FilesysAssumption DEF Units
  <2> QED
    BY <2>1 DEF PacketInv, BaseInv, TypeInv
<1>3. ASSUME NEW v \in Units
      PROVE  Signalled(v) /\ \A q \in Packets : Told(v, q)
  BY DEF NewsInv, NeverNotEnough, Signalled, Told
<1>4. InterruptComes => InterruptComes'
  BY <1>1 DEF InterruptComes
<1>5. Signalled(u)' /\ \A q \in Packets : Told(u, q)'
  <2>1. Dummy \in ToSet(port'[u])
    <3>1. ToSet(Append(port[u], Dummy)) = ToSet(port[u]) \cup {Dummy}
      BY <1>2, AppendMembers
    <3> QED
      BY <1>1, <1>2, <3>1
  <2>2. signals'[u] # {}
    BY <1>1, <1>2
  <2> QED
    BY <2>1, <2>2 DEF Signalled, Told, DoneIsTold, TimedOutIsTold
<1>6. ASSUME NEW v \in Units, v # u
      PROVE  Signalled(v)' /\ \A q \in Packets : Told(v, q)'
  <2>1. /\ port'[v] = port[v] /\ signals'[v] = signals[v]
        /\ acked'[v] = acked[v]
    BY <1>1, <1>2, <1>6
  <2>2. ServerComes(v) => ServerComes(v)'
    BY <1>1, <1>2, <1>4, <1>6 DEF ServerComes
  <2>3. v \in ToSet(pending) /\ (InterruptComes \/ server = "commands") =>
          v \in ToSet(pending') /\ (InterruptComes \/ server = "commands")'
    BY <1>1
  <2> QED
    BY <1>1, <1>3, <2>1, <2>2, <2>3, ToldStays
<1> QED
  BY <1>5, <1>6 DEF NeverNotEnough, Signalled, Told

\* The interrupt server looks at the commands, then at every unit, before it
\* gives up the semaphore, and what it clears it clears before; what
\* rethink_a2091 writes back has our bit still.
LEMMA NewsInterrupts ==
  ASSUME PacketInv, NewsInv, Interrupts, ~BitIsTakenBack
  PROVE  NewsInv'
<1>1. LineInv'
  BY InterruptsLine DEF NewsInv
<1>2. FoundInv'
  <2>1. UNCHANGED <<process, msg, client, status, queue>>
    BY DEF Interrupts, EnterServer, DeliverSignal, FindNoCommand, LeaveServer,
       DeliverDummy, PassUnit, fsVars, portVars, queueVars, processVars
  <2> QED
    BY <2>1 DEF NewsInv, FoundInv, Queued
<1> USE DEF fsVars, portVars, queueVars, processVars, threadVars, countVars,
            bitVars, ServerIs
<1>3. LineInv /\ NeverNotEnough
  BY DEF NewsInv
<1>4. Units \subseteq Int /\ unitNo \in Int /\ NumUnits \in Int
      /\ \A v \in Units : v >= 1 /\ v <= NumUnits
  BY FilesysAssumption DEF PacketInv, BaseInv, TypeInv, Units
<1>5. CASE EnterServer
  <2>1. InterruptComes'
    BY <1>5 DEF EnterServer, ServerEnters, ReadBits, InterruptComes
  <2>2. UNCHANGED <<process, doneValue, at, queue, port, signals, client,
                    status, thread, sent, acked, complete, pending>>
    BY <1>5 DEF EnterServer, ServerEnters
  <2> QED
    BY <1>1, <1>2, <1>3, <2>1, <2>2, ToldFrame DEF NewsInv, ServerComes
<1>6. CASE DeliverSignal
  BY <1>1, <1>2, <1>6, NewsSignal DEF NewsInv
<1>7. CASE FindNoCommand
  <2>1. /\ pending = << >> /\ server = "commands" /\ server' = "units"
        /\ UNCHANGED <<process, doneValue, at, queue, port, signals, client,
                       status, thread, sent, acked, complete, pending,
                       intRequested, intSem, unitNo>>
    BY <1>7 DEF FindNoCommand, NoCommand
  <2>2. \A v \in Units : ServerComes(v) => ServerComes(v)'
    BY <2>1 DEF ServerComes, InterruptComes
  <2> QED
    BY <1>1, <1>2, <1>3, <2>1, <2>2, ToldFrame DEF NewsInv
<1>8. CASE LeaveServer
  <2>1. /\ server = "units" /\ intSem' = 1 /\ unitNo > NumUnits
        /\ UNCHANGED <<process, doneValue, at, queue, port, signals, client,
                       status, thread, sent, acked, complete, pending,
                       intRequested, unitNo>>
    BY <1>8 DEF LeaveServer, ServerLeaves
  <2>2. InterruptComes => InterruptComes'
    BY <2>1 DEF InterruptComes
  <2>3. \A v \in Units : ServerComes(v) => ServerComes(v)'
    BY <1>4, <2>1, <2>2 DEF ServerComes
  <2> QED
    BY <1>1, <1>2, <1>3, <2>1, <2>2, <2>3, ToldFrame DEF NewsInv
<1>9. ASSUME NEW u \in Units, DeliverDummy(u)
      PROVE  NewsInv'
  BY <1>1, <1>2, <1>9, NewsDummy DEF NewsInv
<1>10. ASSUME NEW u \in Units, PassUnit(u)
       PROVE  NewsInv'
  <2>1. /\ u = unitNo /\ ~NeedsMessage(u) /\ unitNo' = u + 1
        /\ UNCHANGED <<process, doneValue, at, queue, port, signals, client,
                       status, thread, sent, acked, complete, pending,
                       intRequested, intSem, server>>
    BY <1>10 DEF PassUnit, n2aVars
  <2>2. InterruptComes <=> InterruptComes'
    BY <2>1 DEF InterruptComes
  <2>3. \A v \in Units : NeedsMessage(v) /\ ServerComes(v) => ServerComes(v)'
    BY <1>4, <2>1, <2>2 DEF ServerComes
  <2> QED
    BY <1>1, <1>2, <1>3, <2>1, <2>2, <2>3, ToldFrame DEF NewsInv
\* The bit is cleared when the server has not looked at anything yet.
<1>11. CASE ServerClears /\ UNCHANGED fsVars
  <2>1. /\ server = "commands" /\ server' = "commands" /\ unitNo' = 1
        /\ UNCHANGED <<process, doneValue, at, queue, port, signals, client,
                       status, thread, sent, acked, complete, pending>>
    BY <1>3, <1>11 DEF ServerClears, LineInv
  <2>2. \A v \in Units : ServerComes(v)'
    BY <1>4, <2>1 DEF ServerComes
  <2> QED
    BY <1>1, <1>2, <1>3, <2>1, <2>2, ToldFrame DEF NewsInv
<1>12. CASE (RethinkReads \/ RethinkWrites) /\ UNCHANGED fsVars
  <2>1. UNCHANGED <<process, doneValue, at, queue, port, signals, client,
                    status, thread, sent, acked, complete, pending, intSem,
                    server, unitNo>>
    BY <1>12 DEF RethinkReads, RethinkWrites
  <2>2. OurBit \in intRequested => OurBit \in intRequested'
    BY <1>12 DEF BitIsTakenBack, RethinkReads, RethinkWrites, ReadBits
  <2>3. InterruptComes => InterruptComes'
    BY <2>1, <2>2 DEF InterruptComes
  <2>4. \A v \in Units : ServerComes(v) => ServerComes(v)'
    BY <2>1, <2>3 DEF ServerComes
  <2> QED
    BY <1>1, <1>2, <1>3, <2>1, <2>3, <2>4, ToldFrame DEF NewsInv
<1> QED
  BY <1>5, <1>6, <1>7, <1>8, <1>9, <1>10, <1>11, <1>12 DEF Interrupts

\* The emulation thread does the work of the thread of a unit.
LEMMA NewsIteration ==
  ASSUME PacketInv, NewsInv, NEW u \in Units, SynchronousIteration(u)
  PROVE  NewsInv'
<1>1. /\ sent \in [Units -> Nat] /\ acked \in [Units -> Nat]
      /\ complete \in [Units -> Nat] /\ status \in [Packets -> Statuses]
  BY DEF PacketInv, BaseInv, TypeInv
<1>2. /\ emu = "amiga" /\ sent' = [sent EXCEPT ![u] = @ + 1]
      /\ OurBit \in intRequested'
      /\ UNCHANGED <<emu, server, intSem, pending, mode, cdtvscsi, client, port,
                     signals, queue, process, msg, doneValue, at, thread, acked,
                     complete, unitNo>>
  BY DEF SynchronousIteration, lineVars, setupVars, portVars, queueVars,
     processVars, threadVars
<1>3. \A q \in Packets : \/ status'[q] = status[q]
                         \/ StartedAt(u, q) /\ status'[q] = Done
  <2>1. PICK P \in SUBSET Packets :
          /\ \A p \in P : StartedAt(u, p)
          /\ status' = [p \in Packets |-> IF p \in P THEN Done ELSE status[p]]
    BY SynchronousWorks DEF PacketInv, BaseInv
  <2> QED
    BY <2>1
<1>4. FoundInv'
  BY <1>2, <1>3 DEF NewsInv, FoundInv, Queued, StartedAt, Started, Done, Linked
<1>5. LineInv'
  <2>1. \A v \in Units : acked'[v] <= sent'[v]
    BY <1>1, <1>2 DEF NewsInv, LineInv
  <2> QED
    BY <1>2, <2>1 DEF NewsInv, LineInv
<1>6. InterruptComes'
  BY <1>2 DEF NewsInv, LineInv, InterruptComes
<1>7. ASSUME NEW v \in Units
      PROVE  Signalled(v) /\ \A q \in Packets : Told(v, q)
  BY DEF NewsInv, NeverNotEnough, Signalled, Told
<1>8. ASSUME NEW v \in Units, v # u
      PROVE  Signalled(v)' /\ \A q \in Packets : Told(v, q)'
  <2>1. sent'[v] = sent[v] /\ ServerComes(v)'
    BY <1>1, <1>2, <1>6, <1>8 DEF ServerComes
  <2>2. \A q \in Packets : client'[q] = v /\ status'[q] \in {Done, TimedOut} =>
                             client[q] = v /\ status'[q] = status[q]
    BY <1>2, <1>3, <1>8 DEF StartedAt
  <2>3. v \in ToSet(pending) /\ (InterruptComes \/ server = "commands") =>
          v \in ToSet(pending') /\ (InterruptComes \/ server = "commands")'
    BY <1>2, <1>6
  <2> QED
    BY <1>2, <1>7, <2>1, <2>2, <2>3, ToldStays
<1>9. Signalled(u)'
  BY <1>2, <1>7 DEF Signalled
<1>10. ASSUME NEW q \in Packets, client'[q] = u, status'[q] = TimedOut
       PROVE  TimedOutIsTold(u, q)'
  <2>1. TimedOutIsTold(u, q)
    BY <1>2, <1>3, <1>7, <1>10 DEF Told, Done, TimedOut
  <2> QED
    BY <1>2, <1>6, <2>1, AheadStays DEF TimedOutIsTold
<1>11. ASSUME NEW q \in Packets PROVE DoneIsTold(u, q)'
  <2>1. CASE acked[u] = complete[u]
    <3>1. acked[u] <= sent[u]
      BY DEF NewsInv, LineInv
    <3>2. acked'[u] # sent'[u] /\ acked'[u] = complete'[u]
      BY <1>1, <1>2, <2>1, <3>1
    <3> QED
      BY <1>6, <3>2 DEF DoneIsTold, NeedsMessage, ServerComes
  <2>2. CASE acked[u] # complete[u]
    BY <1>2, <2>2 DEF PacketInv, BaseInv, MessageInv, HasDummy, DoneIsTold
  <2> QED
    BY <2>1, <2>2
<1>12. NeverNotEnough'
  BY <1>8, <1>9, <1>10, <1>11 DEF NeverNotEnough, Signalled, Told
<1> QED
  BY <1>4, <1>5, <1>12 DEF NewsInv

\* A packet that has expired is marked, and the signal to its process sent.
LEMMA NewsExpire ==
  ASSUME PacketInv, NewsInv, NEW u \in Units, ExpireRecord(u)
  PROVE  NewsInv'
<1> DEFINE p == expired[u]
<1>1. status \in [Packets -> Statuses] /\ pending \in Seq(Commands)
      /\ u \in Commands /\ waiting \in [Units -> SUBSET Packets]
  BY FilesysAssumption DEF PacketInv, BaseInv, TypeInv, N2ATypeOK
<1>2. /\ p # None /\ emu' = "amiga" /\ OurBit \in intRequested'
      /\ status' = [status EXCEPT ![p] = TimedOut]
      /\ pending' = Append(pending, u)
      /\ UNCHANGED <<server, intSem, mode, cdtvscsi, client, port, signals,
                     queue, process, msg, doneValue, at, thread, sent, acked,
                     complete, unitNo>>
  BY DEF ExpireRecord, lineVars, setupVars, portVars, queueVars, processVars,
     threadVars, countVars
<1>3. p \in Packets /\ StartedAt(u, p)
  <2>1. p \in waiting[u]
    BY <1>2 DEF PacketInv, SetupInv
  <2>2. p \in WithThread(u)
    BY <1>1, <2>1 DEF WithThread
  <2> QED
    BY <1>1, <2>1, <2>2 DEF PacketInv, ThreadInv, ThreadHas
<1> HIDE DEF p
<1>4. \A q \in Packets : \/ q # p /\ status'[q] = status[q]
                         \/ q = p /\ status'[q] = TimedOut
  BY <1>1, <1>2
<1>5. FoundInv'
  BY <1>2, <1>3, <1>4
     DEF NewsInv, FoundInv, Queued, StartedAt, Started, TimedOut, Linked
<1>6. LineInv'
  BY <1>2 DEF NewsInv, LineInv
<1>7. InterruptComes'
  BY <1>2 DEF NewsInv, LineInv, InterruptComes
<1>8. ToSet(pending') = ToSet(pending) \cup {u}
  BY <1>1, <1>2, AppendMembers
<1>9. ASSUME NEW v \in Units
      PROVE  /\ Signalled(v) /\ \A q \in Packets : Told(v, q)
             /\ \A d, q : Ahead(v, d, q)' <=> Ahead(v, d, q)
  BY <1>2, AheadStays DEF NewsInv, NeverNotEnough, Signalled, Told
<1>10. ASSUME NEW v \in Units, NEW q \in Packets PROVE Told(v, q)'
  <2>1. CASE q = p
    <3>1. client'[q] = u /\ status'[q] = TimedOut
      BY <1>2, <1>3, <1>4, <2>1 DEF StartedAt
    <3>2. TimedOutIsTold(u, q)'
      BY <1>7, <1>8 DEF TimedOutIsTold
    <3> QED
      BY <3>1, <3>2 DEF Told, Done, TimedOut
  <2>2. CASE q # p
    <3>1. client'[q] = client[q] /\ status'[q] = status[q]
      BY <1>2, <1>4, <2>2
    <3>2. DoneIsTold(v, q) => DoneIsTold(v, q)'
      BY <1>2, <1>7, <1>9 DEF DoneIsTold, NeedsMessage, ServerComes
    <3>3. TimedOutIsTold(v, q) => TimedOutIsTold(v, q)'
      BY <1>2, <1>7, <1>8, <1>9 DEF TimedOutIsTold
    <3> QED
      BY <1>9, <3>1, <3>2, <3>3 DEF Told
  <2> QED
    BY <2>1, <2>2
<1>11. \A v \in Units : Signalled(v)'
  BY <1>2, <1>9 DEF Signalled
<1>12. NeverNotEnough'
  BY <1>10, <1>11 DEF NeverNotEnough, Signalled, Told
<1> QED
  BY <1>5, <1>6, <1>12 DEF NewsInv

LEMMA NewsHousekeeping ==
  ASSUME PacketInv, NewsInv, Housekeeping
  PROVE  NewsInv'
<1>1. ASSUME NEW u \in Units, FindExpired(u)
      PROVE  NewsInv'
  <2>1. /\ emu' = "expire"
        /\ UNCHANGED <<server, intSem, intRequested, mode, cdtvscsi, client,
                       port, signals, queue, process, msg, doneValue, at,
                       thread, sent, acked, complete, unitNo, status, pending>>
    BY <1>1 DEF FindExpired, bitVars, lineVars, setupVars, portVars, queueVars,
       processVars, threadVars, countVars
  <2>2. FoundInv'
    BY <2>1 DEF NewsInv, FoundInv, Queued
  <2>3. LineInv'
    BY <2>1 DEF NewsInv, LineInv
  <2>4. NeverNotEnough'
    <3>1. /\ InterruptComes <=> InterruptComes'
          /\ \A v \in Units : ServerComes(v) <=> ServerComes(v)'
      BY <2>1 DEF InterruptComes, ServerComes
    <3> QED
      BY <2>1, <3>1, ToldFrame DEF NewsInv
  <2> QED
    BY <2>2, <2>3, <2>4 DEF NewsInv
<1> QED
  BY <1>1, NewsIteration, NewsExpire DEF Housekeeping

\* The machine is reset outside the interrupt server.
LEMMA NewsReset ==
  ASSUME PacketInv, NewsInv, ~SemaphoreIsKept, Reset
  PROVE  NewsInv'
<1>1. CASE BeginReset
  <2>1. /\ emu' = "down" /\ server = "out"
        /\ UNCHANGED <<server, intSem, intRequested, mode, cdtvscsi, client,
                       port, signals, queue, process, msg, doneValue, at,
                       thread, sent, acked, complete, unitNo, status, pending>>
    BY <1>1 DEF SemaphoreIsKept, BeginReset, bitVars, lineVars, setupVars,
       portVars, queueVars, processVars, threadVars, countVars
  <2>2. FoundInv'
    BY <2>1 DEF NewsInv, FoundInv, Queued
  <2>3. LineInv'
    BY <2>1 DEF NewsInv, LineInv
  <2>4. NeverNotEnough'
    <3>1. /\ InterruptComes <=> InterruptComes'
          /\ \A v \in Units : ServerComes(v) <=> ServerComes(v)'
      BY <2>1 DEF InterruptComes, ServerComes
    <3> QED
      BY <2>1, <3>1, ToldFrame DEF NewsInv
  <2> QED
    BY <2>2, <2>3, <2>4 DEF NewsInv
<1>2. ASSUME NEW u \in Units, SendDeath(u)
      PROVE  NewsInv'
  <2>1. UNCHANGED <<emu, server, intSem, intRequested, seen, mode, cdtvscsi,
                    client, port, signals, queue, process, msg, doneValue, at,
                    sent, acked, complete, unitNo, status, pending>>
    BY <1>2 DEF SendDeath, n2aVars, bitVars, lineVars, setupVars, portVars,
       queueVars, processVars, countVars
  <2>2. \A v \in Units : \/ thread'[v] = thread[v]
                         \/ thread[v] \in {"read", "dead"}
    <3>1. thread \in [Units -> ThreadPositions]
      BY DEF PacketInv, BaseInv, TypeInv
    <3>2. mode # "threads" => thread[u] \in {"read", "dead"}
      BY DEF PacketInv, BaseInv, TypeInv, Modes, ThreadInv, ThreadPlace
    <3> QED
      BY <1>2, <3>1, <3>2 DEF SendDeath
  <2>3. FoundInv'
    BY <2>1 DEF NewsInv, FoundInv, Queued
  <2>4. LineInv'
    BY <2>1 DEF NewsInv, LineInv
  <2>5. NeverNotEnough'
    <3>1. /\ InterruptComes <=> InterruptComes'
          /\ \A v \in Units : ServerComes(v) => ServerComes(v)'
      BY <2>1, <2>2 DEF InterruptComes, ServerComes
    <3> QED
      BY <2>1, <2>2, <3>1, ToldFrame DEF NewsInv
  <2> QED
    BY <2>3, <2>4, <2>5 DEF NewsInv
<1>3. CASE Restart
  <2>1. /\ emu = "down" /\ emu' = "amiga" /\ server' = "out"
        /\ UNCHANGED <<intSem, mode, cdtvscsi>>
        /\ \A p \in Packets : status'[p] = Linked
        /\ \A u \in Units : /\ port'[u] = << >> /\ msg'[u] = None
                            /\ acked'[u] = 0 /\ sent'[u] = 0
    BY <1>3 DEF Restart, N2AReset, EachUnit, lineVars, setupVars
  <2>2. Linked # Done /\ Linked # TimedOut
    BY DEF Linked, Done, TimedOut
  <2>3. FoundInv'
    BY <2>1 DEF FoundInv, Queued
  <2>4. LineInv'
    BY <2>1 DEF NewsInv, LineInv
  <2>5. NeverNotEnough'
    BY <2>1, <2>2 DEF NeverNotEnough
  <2> QED
    BY <2>3, <2>4, <2>5 DEF NewsInv
<1> QED
  BY <1>1, <1>2, <1>3 DEF Reset

LEMMA NewsKept ==
  ASSUME PacketInv, NewsInv, [Next]_vars, [NothingIsLost]_vars
  PROVE  NewsInv'
<1>1. CASE UNCHANGED vars
  <2> USE <1>1 DEF vars, n2aVars, fsVars, bitVars, lineVars, setupVars,
                   portVars, queueVars, processVars, threadVars, countVars
  <2>1. FoundInv'
    BY DEF NewsInv, FoundInv, Queued
  <2>2. LineInv'
    BY DEF NewsInv, LineInv
  <2>3. NeverNotEnough'
    <3>1. /\ InterruptComes <=> InterruptComes'
          /\ \A v \in Units : ServerComes(v) <=> ServerComes(v)'
      BY DEF InterruptComes, ServerComes
    <3> QED
      BY <3>1, ToldFrame DEF NewsInv
  <2> QED
    BY <2>1, <2>2, <2>3 DEF NewsInv
<1>2. CASE Next /\ NothingIsLost
  BY <1>2, NewsSend, NewsProcess, NewsThread, NewsInterrupts,
     NewsHousekeeping, NewsReset DEF Next, NothingIsLost
<1> QED
  BY <1>1, <1>2

\* In every setup, with another device on the interrupt line and resets
\* anywhere: while a packet is marked and not yet replied, something is on its
\* way that makes the process look for it ("never not enough",
\* filesys.cpp:5362), but for two ways to lose an interrupt.  rethink_a2091
\* takes back our bit, or a reset in the interrupt server keeps its semaphore;
\* no other order of the threads, the server, the counters, the records that
\* expire and the resets loses one.
THEOREM NoInterruptLost ==
  ASSUME MarkedByOneThread
  PROVE  Spec /\ [][NothingIsLost]_vars => []NeverNotEnough
<1>1. Init => NewsInv
  BY NewsStart
<1>2. PacketInv /\ NewsInv /\ [Next]_vars /\ [NothingIsLost]_vars => NewsInv'
  BY NewsKept
<1>3. Spec => []PacketInv
  BY PacketInvariant
<1>4. NewsInv => NeverNotEnough
  BY DEF NewsInv
<1> QED
  BY <1>1, <1>2, <1>3, <1>4, PTL DEF Spec
=============================================================================
