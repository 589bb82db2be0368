------------------------- MODULE FrameStreamProofs -------------------------
(* Theorems of FrameStream, for bytes and sizes of any width and any       *)
(* lengths and number of messages.                                         *)
EXTENDS FrameStream, QueueLemmas

\* A task that holds the mutex has something to write.
HoldersWrite == \A m \in holders : unsent[m] # <<>>

\* Stream s is made of the frames of the tasks that have had the mutex, one
\* after the other; p says where each of them begins.
Laid(s, p) ==
  /\ Len(p) = Len(started) + 1
  /\ p[1] = 0 /\ p[Len(started) + 1] = Len(s)
  /\ \A k \in DOMAIN started :
       /\ p[k + 1] = p[k] + Width + lens[started[k]] /\ p[k + 1] <= Len(s)
       /\ \A i \in 1 .. Width + lens[started[k]] : s[p[k] + i] = Frame(started[k])[i]

\* Where in the stream the reader began with what it is reading, where it is,
\* and where the bytes on the wire end.
Start(p) == IF phase = "body" THEN p[Len(received) + 1] + Width ELSE p[Len(received) + 1]
Here(p)  == Start(p) + Len(got)
There(p) == Here(p) + Len(wire)

\* The bytes got, those on the wire and those that the task with the mutex has
\* still to write are next to each other in stream s, and got is in the part
\* of a frame that the reader takes it for.
Synced(s, p) ==
  /\ Len(received) <= Len(started)
  /\ There(p) <= Len(s)
  /\ \A i \in DOMAIN got : got[i] = s[Start(p) + i]
  /\ \A i \in DOMAIN wire : wire[i] = s[Here(p) + i]
  /\ phase = "size" => Len(got) <= Width
  /\ phase = "body" => LET next == Len(received) + 1 IN
       /\ next \in DOMAIN started /\ Fits(started[next])
       /\ size = lens[started[next]] /\ Len(got) <= size
  /\ link = "open" /\ holders = {} => There(p) = Len(s)
  /\ link = "open" => \A m \in holders :
       /\ holders = {m}
       /\ There(p) + Len(unsent[m]) = Len(s)
       /\ \A i \in DOMAIN unsent[m] : unsent[m][i] = s[There(p) + i]

InSync == \E s \in Seq(Byte), p \in Seq(Nat) : Laid(s, p) /\ Synced(s, p)

\* The reader has met a message that is too long for its size.
Lost == \E i \in 1 .. Len(received) + 1 : i \in DOMAIN started /\ ~Fits(started[i])

FramesInv ==
  /\ phase \in {"size", "body"} => Lost \/ InSync
  /\ IntactUntilUnfit
  /\ NoPanicUntilUnfit

-----------------------------------------------------------------------------
(* Sizes: what is written is what is read.                                 *)

LEMMA Bases ==
  /\ Base \in Nat /\ Base >= 2 /\ Width \in Nat /\ Width >= 1
  /\ MaxMsgs \in 1 .. Base - 1 /\ Byte = 0 .. Base - 1
  /\ Lengths \subseteq Nat \ {0}
BY FrameAssumption DEF Byte

LEMMA Powers ==
  /\ Power \in [0 .. Width -> Nat \ {0}]
  /\ Power[0] = 1
  /\ \A n \in 1 .. Width : Power[n] = Base * Power[n - 1]
<1> DEFINE h == [n \in 1 .. Width |-> [x \in Nat \ {0} |-> Base * x]]
           P(f) == f = [n \in 0 .. Width |-> IF n = 0 THEN 1 ELSE Base * f[n - 1]]
<1>1. h \in [1 .. Width -> [Nat \ {0} -> Nat \ {0}]]
  BY Bases
<1>2. PICK f \in [0 .. Width -> Nat \ {0}] : Recurs(f, 1, h, Width)
  <2> DEFINE S == Nat \ {0}
  <2>1. 1 \in S /\ h \in [1 .. Width -> [S -> S]]
    BY <1>1
  <2> HIDE DEF h, S
  <2>2. \E f \in [0 .. Width -> S] : Recurs(f, 1, h, Width)
    BY <2>1, Bases, Recursion
  <2> QED BY <2>2 DEF S
<1>3. \A n \in 1 .. Width : h[n][f[n - 1]] = Base * f[n - 1]
  <2> TAKE n \in 1 .. Width
  <2>1. n - 1 \in 0 .. Width
    BY Bases
  <2> QED BY <2>1
<1>4. \A n \in 0 .. Width : f[n] = IF n = 0 THEN 1 ELSE Base * f[n - 1]
  <2> HIDE DEF h
  <2> QED BY <1>2, <1>3, Bases DEF Recurs
<1>5. P(f)
  BY <1>4
<1>6. P(Power)
  BY <1>5, Zenon DEF Power
<1>7. Power[0] = 1 /\ \A n \in 1 .. Width : Power[n] = Base * Power[n - 1]
  <2>1. 0 \in 0 .. Width /\ \A n \in 1 .. Width : n \in 0 .. Width /\ n # 0
    BY Bases
  <2> QED BY <1>6, <2>1
<1>8. 0 .. Width \subseteq {n \in Nat : Power[n] \in Nat \ {0}}
  <2> DEFINE T == {n \in Nat : Power[n] \in Nat \ {0}}
  <2>1. \A n \in 1 .. Width : n - 1 \in T => n \in T
    <3> SUFFICES ASSUME NEW n \in 1 .. Width, n - 1 \in T PROVE n \in T
      OBVIOUS
    <3> DEFINE x == Power[n - 1]
    <3>1. n \in Nat /\ x \in Nat \ {0} /\ Power[n] = Base * x
      BY <1>7, Bases
    <3> HIDE DEF x
    <3>2. Base * x \in Nat \ {0}
      BY <3>1, Bases
    <3> QED BY <3>1, <3>2
  <2>2. 0 \in T
    BY <1>7
  <2> HIDE DEF T
  <2> QED BY <2>1, <2>2, Bases, Induction DEF T
<1>9. Power = [n \in 0 .. Width |-> Power[n]]
  BY <1>6
<1>10. Power \in [0 .. Width -> Nat \ {0}]
  <2> HIDE DEF P
  <2> QED BY <1>8, <1>9
<1> QED BY <1>7, <1>10

\* What a size can hold.
LEMMA Limits ==
  /\ Full \in Nat /\ Full >= 2 /\ Half \in Nat
  /\ Limit \in Nat /\ Limit < Full /\ (bytes = "signed" => Limit < Half)
<1>1. Power[Width] = Base * Power[Width - 1] /\ Power[Width - 1] \in Nat \ {0}
  BY Powers, Bases
<1>2. Power[Width] \in Nat /\ Power[Width] >= 2
  <2> DEFINE p == Power[Width - 1]
  <2>1. p \in Nat /\ p >= 1 /\ Base * p \in Nat /\ Base * p >= Base
    BY <1>1, Bases
  <2> QED BY <1>1, <2>1, Bases
<1>3. Full \in Nat /\ Full >= 2 /\ Half = Full \div 2
  BY <1>2 DEF Full, Half
<1>4. Half \in Nat /\ Half >= 1 /\ Half < Full
  BY <1>3
<1> QED BY <1>3, <1>4 DEF Limit

LEMMA SizesFit ==
  ASSUME NEW n \in Nat
  PROVE  /\ ValueFromNumber(n) \in 0 .. Full - 1
         /\ bytes = "signed" => ValueFromNumber(n) < Half
         /\ n <= Limit => ValueFromNumber(n) = n
BY Limits DEF ValueFromNumber

LEMMA Divided ==
  ASSUME NEW p \in Nat, NEW x \in Nat
  PROVE  /\ x \div Base \in Nat /\ x % Base \in Byte
         /\ (x \div Base) * Base + (x % Base) = x
         /\ x < Base * p => x \div Base < p
BY Bases

LEMMA Multiplied ==
  ASSUME NEW p \in Nat, NEW x \in Nat, x < p, NEW d \in Byte
  PROVE  x * Base + d \in Nat /\ x * Base + d < Base * p
BY Bases

LEMMA ShiftedIs ==
  ASSUME NEW v \in Nat
  PROVE  /\ \A i \in 0 .. Width : Shifted(v)[i] \in Nat
         /\ Shifted(v)[0] = v
         /\ \A i \in 1 .. Width : Shifted(v)[i] = Shifted(v)[i - 1] \div Base
<1> DEFINE h == [i \in 1 .. Width |-> [x \in Nat |-> x \div Base]]
           s == Shifted(v)
           P(f) == f = [i \in 0 .. Width |-> IF i = 0 THEN v ELSE f[i - 1] \div Base]
<1>1. h \in [1 .. Width -> [Nat -> Nat]]
  BY Bases
<1>2. PICK f \in [0 .. Width -> Nat] : Recurs(f, v, h, Width)
  <2> HIDE DEF h
  <2> QED BY <1>1, Bases, Recursion
<1>3. \A i \in 1 .. Width : h[i][f[i - 1]] = f[i - 1] \div Base
  <2> TAKE i \in 1 .. Width
  <2>1. i - 1 \in 0 .. Width
    BY Bases
  <2> QED BY <2>1
<1>4. \A i \in 0 .. Width : f[i] = IF i = 0 THEN v ELSE f[i - 1] \div Base
  <2> HIDE DEF h
  <2> QED BY <1>2, <1>3, Bases DEF Recurs
<1>5. P(f)
  BY <1>4
<1>6. P(s)
  BY <1>5, Zenon DEF Shifted
<1> HIDE DEF s
<1>7. s[0] = v /\ \A i \in 1 .. Width : s[i] = s[i - 1] \div Base
  <2>1. 0 \in 0 .. Width /\ \A i \in 1 .. Width : i \in 0 .. Width /\ i # 0
    BY Bases
  <2> QED BY <1>6, <2>1
<1>8. \A i \in 0 .. Width : s[i] \in Nat
  <2> DEFINE T == {i \in Nat : s[i] \in Nat}
  <2>1. 0 \in T /\ \A i \in 1 .. Width : i - 1 \in T => i \in T
    BY <1>7, Divided
  <2> HIDE DEF T
  <2>2. 0 .. Width \subseteq T
    BY <2>1, Bases, Induction
  <2> QED BY <2>2 DEF T
<1> QED BY <1>7, <1>8 DEF s

LEMMA LeadingIs ==
  ASSUME NEW b \in Seq(Byte), Len(b) = Width
  PROVE  /\ \A i \in 0 .. Width : Leading(b)[i] \in Nat
         /\ Leading(b)[0] = 0
         /\ \A i \in 1 .. Width : Leading(b)[i] = Leading(b)[i - 1] * Base + b[i]
<1> DEFINE h == [i \in 1 .. Width |-> [x \in Nat |-> x * Base + b[i]]]
           n == Leading(b)
           P(f) == f = [i \in 0 .. Width |-> IF i = 0 THEN 0 ELSE f[i - 1] * Base + b[i]]
<1>1. \A i \in 1 .. Width : b[i] \in Byte /\ b[i] \in Nat
  BY Bases
<1>2. h \in [1 .. Width -> [Nat -> Nat]]
  BY <1>1, Bases
<1>3. PICK f \in [0 .. Width -> Nat] : Recurs(f, 0, h, Width)
  <2> HIDE DEF h
  <2> QED BY <1>2, Bases, Recursion
<1>4. \A i \in 1 .. Width : h[i][f[i - 1]] = f[i - 1] * Base + b[i]
  <2> TAKE i \in 1 .. Width
  <2>1. i - 1 \in 0 .. Width
    BY Bases
  <2> QED BY <2>1
<1>5. \A i \in 0 .. Width : f[i] = IF i = 0 THEN 0 ELSE f[i - 1] * Base + b[i]
  <2> HIDE DEF h
  <2> QED BY <1>3, <1>4, Bases DEF Recurs
<1>6. P(f)
  BY <1>5
<1>7. P(n)
  BY <1>6, Zenon DEF Leading
<1> HIDE DEF n
<1>8. n[0] = 0 /\ \A i \in 1 .. Width : n[i] = n[i - 1] * Base + b[i]
  <2>1. 0 \in 0 .. Width /\ \A i \in 1 .. Width : i \in 0 .. Width /\ i # 0
    BY Bases
  <2> QED BY <1>7, <2>1
<1>9. \A i \in 0 .. Width : n[i] \in Nat
  <2> DEFINE T == {i \in Nat : n[i] \in Nat}
  <2>1. 0 \in T /\ \A i \in 1 .. Width : i - 1 \in T => i \in T
    <3>1. \A i \in 1 .. Width : i \in Nat /\ (n[i - 1] \in Nat => n[i - 1] * Base \in Nat)
      BY Bases
    <3> QED BY <1>1, <1>8, <3>1
  <2> HIDE DEF T
  <2>2. 0 .. Width \subseteq T
    BY <2>1, Bases, Induction
  <2> QED BY <2>2 DEF T
<1> QED BY <1>8, <1>9 DEF n

\* Width bytes make a number that a size can hold.
LEMMA LeadingFits ==
  ASSUME NEW b \in Seq(Byte), Len(b) = Width
  PROVE  Leading(b)[Width] \in 0 .. Full - 1
<1> DEFINE n == Leading(b)
           T == {i \in 0 .. Width : n[i] < Power[i]}
<1>1. /\ \A i \in 0 .. Width : n[i] \in Nat
      /\ n[0] = 0
      /\ \A i \in 1 .. Width : n[i] = n[i - 1] * Base + b[i]
  BY LeadingIs
<1> HIDE DEF n
<1>2. 0 \in T
  BY <1>1, Powers, Bases
<1>3. ASSUME NEW i \in 1 .. Width, i - 1 \in T PROVE i \in T
  <2>1. i \in 0 .. Width /\ i - 1 \in 0 .. Width /\ b[i] \in Byte
    BY Bases
  <2>2. n[i - 1] \in Nat /\ Power[i - 1] \in Nat /\ n[i - 1] < Power[i - 1]
    BY <1>1, <1>3, <2>1, Powers
  <2>3. n[i - 1] * Base + b[i] < Base * Power[i - 1]
    BY <2>1, <2>2, Multiplied
  <2> QED BY <1>1, <2>1, <2>3, Powers
<1>4. Width \in T
  <2> HIDE DEF T
  <2>1. 0 .. Width \subseteq T
    BY <1>2, <1>3, Bases, Induction
  <2> QED BY <2>1, Bases
<1>5. n[Width] \in Nat /\ n[Width] < Full
  BY <1>1, <1>4, Bases DEF Full
<1> QED BY <1>5, Limits DEF n

LEMMA LittleEndianIs ==
  ASSUME NEW v \in Nat
  PROVE  /\ LittleEndian(v) \in Seq(Byte) /\ Len(LittleEndian(v)) = Width
         /\ Reverse(LittleEndian(v)) \in Seq(Byte) /\ Len(Reverse(LittleEndian(v))) = Width
         /\ \A i \in 1 .. Width :
              Reverse(LittleEndian(v))[i] = Shifted(v)[Width - i] % Base
         /\ Reverse(Reverse(LittleEndian(v))) = LittleEndian(v)
<1> DEFINE s == LittleEndian(v)
           r == Reverse(s)
<1>1. \A i \in 1 .. Width : Shifted(v)[i - 1] % Base \in Byte
  <2> TAKE i \in 1 .. Width
  <2>1. Shifted(v)[i - 1] \in Nat
    BY ShiftedIs, Bases
  <2> QED BY <2>1, Divided
<1>2. /\ s \in Seq(Byte) /\ Len(s) = Width
      /\ \A i \in 1 .. Width : s[i] = Shifted(v)[i - 1] % Base
  BY <1>1, Bases DEF LittleEndian
<1> HIDE DEF s
<1>3. /\ r \in Seq(Byte) /\ Len(r) = Width
      /\ \A i \in 1 .. Width : r[i] = s[Width - i + 1]
  BY <1>2, Bases DEF Reverse
<1>4. \A i \in 1 .. Width : r[i] = Shifted(v)[Width - i] % Base
  <2> TAKE i \in 1 .. Width
  <2> DEFINE j == Width - i + 1
  <2>1. j \in 1 .. Width /\ j - 1 = Width - i
    BY Bases
  <2>2. s[j] = Shifted(v)[j - 1] % Base
    BY <1>2, <2>1
  <2> QED BY <1>3, <2>1, <2>2
<1> HIDE DEF r
<1>5. Reverse(r) = s
  <2>1. /\ Reverse(r) \in Seq(Byte) /\ Len(Reverse(r)) = Width
        /\ \A i \in 1 .. Width : Reverse(r)[i] = r[Width - i + 1]
    BY <1>3, Bases DEF Reverse
  <2>2. ASSUME NEW i \in 1 .. Width PROVE Reverse(r)[i] = s[i]
    <3> DEFINE j == Width - i + 1
    <3>1. j \in 1 .. Width /\ Width - j + 1 = i
      BY Bases
    <3>2. r[j] = s[Width - j + 1]
      BY <1>3, <3>1
    <3> QED BY <2>1, <3>1, <3>2
  <2> DEFINE q == Reverse(r)
  <2> HIDE DEF q
  <2>3. q \in Seq(Byte) /\ Len(q) = Len(s) /\ \A i \in 1 .. Len(s) : q[i] = s[i]
    BY <1>2, <2>1, <2>2 DEF q
  <2>4. q = s
    BY <1>2, <2>3
  <2> QED BY <2>4 DEF q
<1> QED BY <1>2, <1>3, <1>4, <1>5 DEF s, r

\* The bytes of a number that a size can hold make that number.
LEMMA RoundTrip ==
  ASSUME NEW v \in 0 .. Full - 1
  PROVE  Leading(Reverse(LittleEndian(v)))[Width] = v
<1> DEFINE s == Shifted(v)
           b == Reverse(LittleEndian(v))
           n == Leading(b)
<1>1. v \in Nat /\ v < Full
  BY Limits
<1>2. /\ \A i \in 0 .. Width : s[i] \in Nat
      /\ s[0] = v
      /\ \A i \in 1 .. Width : s[i] = s[i - 1] \div Base
  BY <1>1, ShiftedIs
<1>3. /\ b \in Seq(Byte) /\ Len(b) = Width
      /\ \A i \in 1 .. Width : b[i] = s[Width - i] % Base
  BY <1>1, LittleEndianIs
<1> HIDE DEF s, b
<1>4. /\ n[0] = 0
      /\ \A i \in 1 .. Width : n[i] = n[i - 1] * Base + b[i]
  BY <1>3, LeadingIs
<1> HIDE DEF n
<1>5. s[Width] = 0
  <2> DEFINE T == {i \in 0 .. Width : s[i] < Power[Width - i]}
  <2>1. 0 \in T
    BY <1>1, <1>2, Bases DEF Full
  <2>2. ASSUME NEW i \in 1 .. Width, i - 1 \in T PROVE i \in T
    <3> DEFINE j == Width - i
    <3>1. /\ i \in 0 .. Width /\ i - 1 \in 0 .. Width /\ j \in 0 .. Width
          /\ j + 1 \in 1 .. Width /\ Width - (i - 1) = j + 1 /\ (j + 1) - 1 = j
      BY Bases
    <3>2. Power[j] \in Nat /\ Power[j + 1] = Base * Power[j]
      BY <3>1, Powers
    <3>3. s[i - 1] \in Nat /\ s[i - 1] < Base * Power[j]
      BY <1>2, <2>2, <3>1, <3>2
    <3>4. s[i] < Power[j]
      BY <1>2, <3>2, <3>3, Divided
    <3> QED BY <3>1, <3>4
  <2>3. Width \in T
    <3> HIDE DEF T
    <3>1. 0 .. Width \subseteq T
      BY <2>1, <2>2, Bases, Induction
    <3> QED BY <3>1, Bases
  <2>4. s[Width] < Power[Width - Width] /\ Width - Width = 0
    BY <2>3, Bases
  <2> QED BY <1>2, <2>4, Powers, Bases
<1>6. Width \in {i \in 0 .. Width : n[i] = s[Width - i]}
  <2> DEFINE T == {i \in 0 .. Width : n[i] = s[Width - i]}
  <2>1. 0 \in T
    BY <1>4, <1>5, Bases
  <2>2. ASSUME NEW i \in 1 .. Width, i - 1 \in T PROVE i \in T
    <3> DEFINE j == Width - i
    <3>1. /\ i \in 0 .. Width /\ i - 1 \in 0 .. Width /\ j \in 0 .. Width
          /\ j + 1 \in 1 .. Width /\ Width - (i - 1) = j + 1 /\ (j + 1) - 1 = j
      BY Bases
    <3>2. n[i - 1] = s[j + 1] /\ s[j + 1] = s[j] \div Base /\ s[j] \in Nat
      BY <1>2, <2>2, <3>1
    <3>3. n[i] = (s[j] \div Base) * Base + (s[j] % Base)
      BY <1>3, <1>4, <3>2
    <3>4. n[i] = s[j]
      BY <3>2, <3>3, Divided, Bases
    <3> QED BY <3>1, <3>4
  <2> HIDE DEF T
  <2>3. 0 .. Width \subseteq T
    BY <2>1, <2>2, Bases, Induction
  <2> QED BY <2>3, Bases DEF T
<1>7. n[Width] = s[0]
  BY <1>6, Bases
<1> QED BY <1>2, <1>7 DEF n, b

\* In either byte order, and signed or not.
LEMMA Written ==
  ASSUME NEW v \in 0 .. Full - 1
  PROVE  WriteFromSettings(v) \in Seq(Byte) /\ Len(WriteFromSettings(v)) = Width
<1>1. v \in Nat
  BY Limits
<1> QED BY <1>1, LittleEndianIs DEF WriteFromSettings

LEMMA Turned ==
  ASSUME NEW s \in Seq(Byte), Len(s) = Width
  PROVE  Reverse(s) \in Seq(Byte) /\ Len(Reverse(s)) = Width
BY Bases DEF Reverse

LEMMA ReadIs ==
  ASSUME NEW s \in Seq(Byte), Len(s) = Width
  PROVE  ReadFromSettings(s) \in Int
         /\ (ReadFromSettings(s) >= 0 => ReadFromSettings(s) \in 0 .. Full - 1)
<1> DEFINE b == IF order = "big" THEN s ELSE Reverse(s)
           v == Leading(b)[Width]
<1>1. b \in Seq(Byte) /\ Len(b) = Width
  BY Turned
<1>2. v \in 0 .. Full - 1
  BY <1>1, LeadingFits
<1>3. ReadFromSettings(s) = IF bytes = "signed" /\ v >= Half THEN v - Full ELSE v
  BY DEF ReadFromSettings
<1> HIDE DEF v
<1> QED BY <1>2, <1>3, Limits

LEMMA WrittenIsRead ==
  ASSUME TypeOK, NEW n \in Nat
  PROVE  ReadFromSettings(WriteFromSettings(ValueFromNumber(n))) = ValueFromNumber(n)
<1> DEFINE v == ValueFromNumber(n)
           s == WriteFromSettings(v)
           b == IF order = "big" THEN s ELSE Reverse(s)
<1>1. v \in 0 .. Full - 1 /\ v \in Nat /\ (bytes = "signed" => v < Half)
  BY SizesFit, Limits
<1> HIDE DEF v
<1>2. b = Reverse(LittleEndian(v))
  <2>1. order \in {"little", "big"}
    BY DEF TypeOK
  <2> QED BY <2>1 DEF WriteFromSettings
<1>3. Leading(b)[Width] = v
  BY <1>1, <1>2, RoundTrip
<1>4. ReadFromSettings(s) = IF bytes = "signed" /\ Leading(b)[Width] >= Half
                            THEN Leading(b)[Width] - Full ELSE Leading(b)[Width]
  BY DEF ReadFromSettings
<1>5. ~(bytes = "signed" /\ v >= Half)
  BY <1>1, Limits
<1> HIDE DEF b
<1> QED BY <1>3, <1>4, <1>5 DEF v

LEMMA Parts ==
  ASSUME NEW S, NEW s \in Seq(S), NEW t \in Seq(S), NEW m, NEW n,
         Len(s) = m, Len(t) = n
  PROVE  /\ s \o t \in Seq(S) /\ Len(s \o t) = m + n
         /\ \A i \in 1 .. m : (s \o t)[i] = s[i]
         /\ \A i \in 1 .. n : (s \o t)[m + i] = t[i]
OBVIOUS

LEMMA Joined ==
  ASSUME NEW S, NEW s \in Seq(S), NEW t \in Seq(S)
  PROVE  /\ s \o t \in Seq(S) /\ Len(s \o t) = Len(s) + Len(t)
         /\ \A i \in 1 .. Len(s) : (s \o t)[i] = s[i]
         /\ \A i \in 1 .. Len(t) : (s \o t)[Len(s) + i] = t[i]
BY Parts

LEMMA Headed ==
  ASSUME NEW S, NEW s \in Seq(S), s # <<>>
  PROVE  /\ Head(s) \in S /\ Head(s) = s[1] /\ Tail(s) \in Seq(S)
         /\ Len(s) \in Nat \ {0} /\ Len(Tail(s)) = Len(s) - 1
         /\ \A i \in 1 .. Len(s) - 1 : Tail(s)[i] = s[i + 1]
         /\ Len(s) # 1 => Tail(s) # <<>>
<1>1. /\ Head(s) \in S /\ Head(s) = s[1] /\ Tail(s) \in Seq(S)
      /\ Len(s) \in Nat \ {0} /\ Len(Tail(s)) = Len(s) - 1
      /\ \A i \in 1 .. Len(Tail(s)) : Tail(s)[i] = s[i + 1]
  BY HeadTailProperties
<1>2. Len(s) # 1 => Tail(s) # <<>>
  <2> DEFINE t == Tail(s)
  <2>1. Len(s) # 1 => Len(t) # 0
    BY <1>1
  <2> HIDE DEF t
  <2>2. t = <<>> => Len(t) = 0
    OBVIOUS
  <2> QED BY <2>1, <2>2 DEF t
<1> QED BY <1>1, <1>2

LEMMA Longer ==
  ASSUME NEW S, NEW s \in Seq(S), NEW e \in S
  PROVE  /\ Append(s, e) \in Seq(S)
         /\ Len(s) \in Nat /\ Len(Append(s, e)) = Len(s) + 1
         /\ Append(s, e)[Len(s) + 1] = e
         /\ \A i \in 1 .. Len(s) : Append(s, e)[i] = s[i]
OBVIOUS

LEMMA Frames ==
  ASSUME TypeOK, NEW m \in DOMAIN lens
  PROVE  /\ m \in Byte /\ lens[m] \in Nat \ {0}
         /\ Payload(m) \in Seq(Byte) /\ Len(Payload(m)) = lens[m]
         /\ Frame(m) \in Seq(Byte) /\ Len(Frame(m)) = Width + lens[m]
         /\ \A i \in 1 .. Width :
              Frame(m)[i] = WriteFromSettings(ValueFromNumber(lens[m]))[i]
         /\ \A i \in 1 .. lens[m] : Frame(m)[Width + i] = Payload(m)[i]
<1>1. lens \in Seq(Lengths) /\ Len(lens) <= MaxMsgs
  BY DEF TypeOK
<1>2. m \in 1 .. Len(lens) /\ lens[m] \in Nat \ {0}
  <2>1. m \in 1 .. Len(lens) /\ lens[m] \in Lengths
    BY <1>1
  <2> QED BY <2>1, Bases
<1>3. m \in Byte
  <2>1. Len(lens) \in Nat /\ MaxMsgs \in 1 .. Base - 1 /\ Byte = 0 .. Base - 1 /\ Base \in Nat
    BY <1>1, Bases
  <2> QED BY <1>1, <1>2, <2>1
<1>4. Payload(m) \in Seq(Byte) /\ Len(Payload(m)) = lens[m]
  BY <1>2, <1>3 DEF Payload
<1> DEFINE s == WriteFromSettings(ValueFromNumber(lens[m]))
           p == Payload(m)
<1>5. s \in Seq(Byte) /\ Len(s) = Width
  BY <1>2, SizesFit, Written
<1>6. Frame(m) = s \o p
  BY DEF Frame
<1> HIDE DEF s, p
<1>7. /\ s \o p \in Seq(Byte) /\ Len(s \o p) = Width + lens[m]
      /\ \A i \in 1 .. Width : (s \o p)[i] = s[i]
      /\ \A i \in 1 .. lens[m] : (s \o p)[Width + i] = p[i]
  <2>1. p \in Seq(Byte) /\ Len(p) = lens[m]
    BY <1>4 DEF p
  <2> QED BY <1>5, <2>1, Parts
<1>8. /\ Frame(m) \in Seq(Byte) /\ Len(Frame(m)) = Width + lens[m]
      /\ \A i \in 1 .. Width : Frame(m)[i] = s[i]
      /\ \A i \in 1 .. lens[m] : Frame(m)[Width + i] = p[i]
  BY <1>6, <1>7
<1> QED BY <1>2, <1>3, <1>4, <1>8 DEF s, p

-----------------------------------------------------------------------------
(* Type correctness.                                                       *)

LEMMA TypeWriters ==
  ASSUME TypeOK, HoldersWrite,
         (\E n \in Lengths : SendMessage(n)) \/ \E m \in DOMAIN lens : WriterStep(m)
  PROVE  TypeOK' /\ HoldersWrite'
<1>1. /\ lens \in Seq(Lengths) /\ Len(lens) <= MaxMsgs
      /\ unsent \in Seq(Seq(Byte)) /\ Len(unsent) = Len(lens)
      /\ DOMAIN lens = 1 .. Len(lens) /\ DOMAIN unsent = DOMAIN lens
      /\ holders \subseteq DOMAIN lens /\ started \in Seq(DOMAIN lens)
      /\ wire \in Seq(Byte)
  BY DEF TypeOK
<1>2. ASSUME NEW n \in Lengths, SendMessage(n) PROVE TypeOK' /\ HoldersWrite'
  <2>1. /\ Len(lens) < MaxMsgs /\ lens' = Append(lens, n)
        /\ unsent' = Append(unsent, <<>>)
        /\ UNCHANGED <<settings, holders, started, wire, link, reader>>
    BY <1>2 DEF SendMessage
  <2>2. /\ lens' \in Seq(Lengths) /\ Len(lens') = Len(lens) + 1
        /\ DOMAIN lens \subseteq DOMAIN lens'
    BY <1>1, <2>1
  <2>3. /\ unsent' \in Seq(Seq(Byte)) /\ Len(unsent') = Len(unsent) + 1
        /\ \A m \in DOMAIN unsent : unsent'[m] = unsent[m]
    <3>1. <<>> \in Seq(Byte)
      OBVIOUS
    <3> HIDE DEF Byte
    <3> DEFINE S == Seq(Byte)
    <3> HIDE DEF S
    <3>2. unsent \in Seq(S) /\ <<>> \in S
      BY <1>1, <3>1 DEF S
    <3> QED BY <2>1, <3>2, AppendProperties DEF S
  <2>4. started' \in Seq(DOMAIN lens')
    BY <1>1, <2>1, <2>2, OfWiderType
  <2>5. HoldersWrite'
    BY <1>1, <2>1, <2>3 DEF HoldersWrite
  <2>6. Len(lens') <= MaxMsgs
    BY <1>1, <2>1, <2>2, Bases
  <2> QED BY <1>1, <2>1, <2>2, <2>3, <2>4, <2>5, <2>6 DEF TypeOK, settings, reader
<1>3. ASSUME NEW m \in DOMAIN lens, WriterStep(m) PROVE TypeOK' /\ HoldersWrite'
  <2>1. UNCHANGED <<settings, lens, link, reader>>
    BY <1>3 DEF WriterStep, Lock, WriteByte, WriteFails
  <2>2. CASE Lock(m)
    <3>1. /\ holders' = {m} /\ started' = Append(started, m)
          /\ unsent' = [unsent EXCEPT ![m] = Frame(m)] /\ UNCHANGED wire
      BY <2>2 DEF Lock
    <3>2. Frame(m) \in Seq(Byte) /\ Len(Frame(m)) > 0
      BY Frames, Bases
    <3>3. /\ unsent' \in Seq(Seq(Byte)) /\ Len(unsent') = Len(unsent)
          /\ unsent'[m] = Frame(m)
      BY <1>1, <3>1, <3>2
    <3>4. started' \in Seq(DOMAIN lens)
      BY <1>1, <3>1
    <3>5. HoldersWrite'
      BY <3>1, <3>2, <3>3 DEF HoldersWrite
    <3> QED BY <1>1, <2>1, <3>1, <3>3, <3>4, <3>5 DEF TypeOK, settings, reader
  <2>3. CASE WriteByte(m)
    <3>1. /\ m \in holders /\ wire' = Append(wire, Head(unsent[m]))
          /\ unsent' = [unsent EXCEPT ![m] = Tail(unsent[m])]
          /\ holders' = IF Len(unsent[m]) = 1 THEN holders \ {m} ELSE holders
          /\ UNCHANGED started
      BY <2>3 DEF WriteByte
    <3>2. unsent[m] \in Seq(Byte) /\ unsent[m] # <<>>
      BY <1>1, <3>1 DEF HoldersWrite
    <3>3. /\ Head(unsent[m]) \in Byte /\ Tail(unsent[m]) \in Seq(Byte)
          /\ Len(unsent[m]) # 1 => Tail(unsent[m]) # <<>>
      BY <3>2, Headed
    <3>4. /\ unsent' \in Seq(Seq(Byte)) /\ Len(unsent') = Len(unsent)
          /\ unsent'[m] = Tail(unsent[m])
          /\ \A k \in DOMAIN unsent \ {m} : unsent'[k] = unsent[k]
      BY <1>1, <3>1, <3>3
    <3>5. wire' \in Seq(Byte)
      BY <1>1, <3>1, <3>3
    <3>6. HoldersWrite'
      BY <1>1, <3>1, <3>3, <3>4 DEF HoldersWrite
    <3> QED BY <1>1, <2>1, <3>1, <3>4, <3>5, <3>6 DEF TypeOK, settings, reader
  <2>4. CASE WriteFails(m)
    <3>1. /\ unsent' = [unsent EXCEPT ![m] = <<>>] /\ holders' = holders \ {m}
          /\ UNCHANGED <<started, wire>>
      BY <2>4 DEF WriteFails
    <3>2. /\ unsent' \in Seq(Seq(Byte)) /\ Len(unsent') = Len(unsent)
          /\ \A k \in DOMAIN unsent \ {m} : unsent'[k] = unsent[k]
      <4>1. <<>> \in Seq(Byte)
        OBVIOUS
      <4> QED BY <1>1, <3>1, <4>1
    <3>3. HoldersWrite'
      BY <1>1, <3>1, <3>2 DEF HoldersWrite
    <3> QED BY <1>1, <2>1, <3>1, <3>2, <3>3 DEF TypeOK, settings, reader
  <2> QED BY <1>3, <2>2, <2>3, <2>4 DEF WriterStep
<1> QED BY <1>2, <1>3

LEMMA TypeReader ==
  ASSUME TypeOK, HoldersWrite, ReaderStep \/ LinkBreaks \/ UNCHANGED vars
  PROVE  TypeOK' /\ HoldersWrite'
<1>1. CASE ReadByte
  <2>1. /\ got' = Append(got, Head(wire)) /\ wire' = Tail(wire) /\ wire # <<>>
        /\ UNCHANGED <<settings, writers, link, phase, size, received>>
    BY <1>1 DEF ReadByte
  <2>2. wire \in Seq(Byte) /\ got \in Seq(Byte)
    BY DEF TypeOK
  <2>3. wire' \in Seq(Byte) /\ got' \in Seq(Byte)
    BY <2>1, <2>2
  <2> QED BY <2>1, <2>3 DEF TypeOK, HoldersWrite, settings, writers
<1>2. CASE ReadSize
  <2>1. /\ Len(got) = Width /\ got \in Seq(Byte) /\ got' = <<>>
        /\ \/ ReadFromSettings(got) < 0 /\ phase' = "panicked" /\ UNCHANGED size
           \/ ~(ReadFromSettings(got) < 0) /\ phase' = "body"
              /\ size' = ReadFromSettings(got)
        /\ UNCHANGED <<settings, writers, wire, link, received>>
    BY <1>2 DEF ReadSize, TypeOK
  <2>2. phase' \in {"body", "panicked"} /\ size' \in 0 .. Full - 1
    BY <2>1, ReadIs DEF TypeOK
  <2>3. got' \in Seq(Byte)
    BY <2>1
  <2> QED BY <2>1, <2>2, <2>3 DEF TypeOK, HoldersWrite, settings, writers
<1>3. CASE SendMessageReceived
  <2>1. /\ received' = Append(received, got) /\ phase' = "size" /\ got' = <<>>
        /\ UNCHANGED <<settings, writers, wire, link, size>>
    BY <1>3 DEF SendMessageReceived
  <2>2. received \in Seq(Seq(Byte)) /\ got \in Seq(Byte)
    BY DEF TypeOK
  <2>3. received' \in Seq(Seq(Byte)) /\ got' \in Seq(Byte)
    BY <2>1, <2>2
  <2> QED BY <2>1, <2>3 DEF TypeOK, HoldersWrite, settings, writers
<1>4. CASE ReadFails
  BY <1>4 DEF ReadFails, TypeOK, HoldersWrite, settings, writers
<1>5. CASE LinkBreaks
  BY <1>5 DEF LinkBreaks, TypeOK, HoldersWrite, settings, writers, reader
<1>6. CASE UNCHANGED vars
  BY <1>6 DEF vars, TypeOK, HoldersWrite, settings, writers, reader
<1> QED BY <1>1, <1>2, <1>3, <1>4, <1>5, <1>6 DEF ReaderStep

LEMMA TypeInit ==
  ASSUME Init
  PROVE  TypeOK /\ HoldersWrite
<1>1. 0 \in 0 .. Full - 1
  BY Limits
<1>2. <<>> \in Seq(Lengths) /\ <<>> \in Seq(Seq(Byte)) /\ <<>> \in Seq(Byte)
      /\ <<>> \in Seq(DOMAIN lens) /\ Len(<<>>) = 0
  OBVIOUS
<1> QED BY <1>1, <1>2, Bases DEF Init, TypeOK, HoldersWrite

LEMMA TypeNext ==
  ASSUME TypeOK, HoldersWrite, [Next]_vars
  PROVE  TypeOK' /\ HoldersWrite'
BY TypeWriters, TypeReader DEF Next

\* The variables have their types: in particular the number read as a size is
\* never more than a size can hold, and a task that holds the mutex has
\* something left to write.
THEOREM FramesTypeCorrect == Spec => []TypeOK
<1>1. Spec => [](TypeOK /\ HoldersWrite)
  BY TypeInit, TypeNext, PTL DEF Spec
<1> QED BY <1>1, PTL

-----------------------------------------------------------------------------
(* The stream.                                                             *)

\* What no step changes.
LEMMA Kept ==
  ASSUME TypeOK, [Next]_vars
  PROVE  /\ \A k \in DOMAIN started : k \in DOMAIN started' /\ started'[k] = started[k]
         /\ \A m \in DOMAIN lens :
              /\ m \in DOMAIN lens' /\ lens'[m] = lens[m]
              /\ Fits(m)' <=> Fits(m)
              /\ Payload(m)' = Payload(m) /\ Frame(m)' = Frame(m)
<1>1. bytes' = bytes /\ order' = order
  BY DEF Next, vars, settings, SendMessage, WriterStep, Lock, WriteByte, WriteFails,
         ReaderStep, ReadByte, ReadSize, SendMessageReceived, ReadFails, LinkBreaks
<1>2. \A m \in DOMAIN lens : m \in DOMAIN lens' /\ lens'[m] = lens[m]
  <2>1. CASE \E n \in Lengths : SendMessage(n)
    <3>1. PICK n \in Lengths : lens' = Append(lens, n)
      BY <2>1 DEF SendMessage
    <3> QED BY <3>1, Longer DEF TypeOK
  <2>2. CASE UNCHANGED lens
    BY <2>2
  <2> QED BY <2>1, <2>2 DEF Next, vars, writers, WriterStep, Lock, WriteByte, WriteFails,
         ReaderStep, ReadByte, ReadSize, SendMessageReceived, ReadFails, LinkBreaks
<1>3. \A k \in DOMAIN started : k \in DOMAIN started' /\ started'[k] = started[k]
  <2>1. CASE \E m \in DOMAIN lens : Lock(m)
    <3>1. PICK m \in DOMAIN lens : started' = Append(started, m)
      BY <2>1 DEF Lock
    <3> QED BY <3>1, Longer DEF TypeOK
  <2>2. CASE UNCHANGED started
    BY <2>2
  <2> QED BY <2>1, <2>2 DEF Next, vars, writers, SendMessage, WriterStep, WriteByte,
         WriteFails, ReaderStep, ReadByte, ReadSize, SendMessageReceived, ReadFails,
         LinkBreaks
<1>4. ASSUME NEW m \in DOMAIN lens
      PROVE  /\ Fits(m)' <=> Fits(m)
             /\ Payload(m)' = Payload(m) /\ Frame(m)' = Frame(m)
  <2>1. lens'[m] = lens[m]
    BY <1>2
  <2>2. Limit' = Limit
    BY <1>1 DEF Limit
  <2>3. Payload(m)' = Payload(m)
    BY <2>1, Zenon DEF Payload
  <2>4. ValueFromNumber(lens[m])' = ValueFromNumber(lens[m])
    BY <2>1, <2>2, Zenon DEF ValueFromNumber
  <2>5. WriteFromSettings(ValueFromNumber(lens[m]))'
          = WriteFromSettings(ValueFromNumber(lens[m]))
    BY <1>1, <2>4, Zenon DEF WriteFromSettings
  <2> QED BY <2>1, <2>2, <2>3, <2>5, Zenon DEF Fits, Frame
<1> QED BY <1>2, <1>3, <1>4

\* What a stream laid out is like.
LEMMA LaidIs ==
  ASSUME TypeOK, NEW s \in Seq(Byte), NEW p \in Seq(Nat), Laid(s, p)
  PROVE  /\ Len(started) \in Nat /\ Len(s) \in Nat /\ DOMAIN started = 1 .. Len(started)
         /\ \A k \in 1 .. Len(started) + 1 : p[k] \in Nat /\ p[k] <= Len(s)
         /\ \A k \in DOMAIN started :
              /\ started[k] \in DOMAIN lens /\ lens[started[k]] \in Nat \ {0}
              /\ k \in 1 .. Len(started) + 1 /\ k + 1 \in 1 .. Len(started) + 1
<1>1. started \in Seq(DOMAIN lens)
  BY DEF TypeOK
<1>2. Len(started) \in Nat /\ Len(s) \in Nat /\ DOMAIN started = 1 .. Len(started)
  BY <1>1
<1>3. \A k \in DOMAIN started :
        /\ started[k] \in DOMAIN lens /\ lens[started[k]] \in Nat \ {0}
        /\ k \in 1 .. Len(started) + 1 /\ k + 1 \in 1 .. Len(started) + 1
  BY <1>1, <1>2, Frames
<1>4. ASSUME NEW k \in 1 .. Len(started) + 1 PROVE p[k] \in Nat /\ p[k] <= Len(s)
  <2>1. Len(p) = Len(started) + 1
    BY DEF Laid
  <2>2. p[k] \in Nat
    BY <1>2, <2>1
  <2>3. CASE k = 1
    BY <1>2, <2>3 DEF Laid
  <2>4. CASE k # 1
    <3>1. k - 1 \in DOMAIN started /\ (k - 1) + 1 = k
      BY <1>2, <2>4
    <3>2. p[(k - 1) + 1] <= Len(s)
      BY <3>1 DEF Laid
    <3> QED BY <2>2, <3>1, <3>2
  <2> QED BY <2>2, <2>3, <2>4
<1> QED BY <1>2, <1>3, <1>4

\* The stream stays as it is as long as no other task gets the mutex.
LEMMA StaysLaid ==
  ASSUME TypeOK, [Next]_vars, UNCHANGED started,
         NEW s \in Seq(Byte), NEW p \in Seq(Nat), Laid(s, p)
  PROVE  Laid(s, p)'
<1>1. started' = started
  OBVIOUS
<1>2. ASSUME NEW k \in DOMAIN started
      PROVE  /\ p[k + 1] = p[k] + Width + lens'[started'[k]] /\ p[k + 1] <= Len(s)
             /\ \A i \in 1 .. Width + lens'[started'[k]] :
                  s[p[k] + i] = Frame(started[k])'[i]
  <2>1. started[k] \in DOMAIN lens /\ lens'[started[k]] = lens[started[k]]
    BY Kept, LaidIs
  <2>2. Frame(started[k])' = Frame(started[k])
    BY <1>1, <2>1, Kept
  <2>3. /\ p[k + 1] = p[k] + Width + lens[started[k]] /\ p[k + 1] <= Len(s)
        /\ \A i \in 1 .. Width + lens[started[k]] : s[p[k] + i] = Frame(started[k])[i]
    BY DEF Laid
  <2> QED BY <1>1, <2>1, <2>2, <2>3
<1>3. Len(p) = Len(started) + 1 /\ p[1] = 0 /\ p[Len(started) + 1] = Len(s)
  BY DEF Laid
<1> QED BY <1>1, <1>2, <1>3 DEF Laid

\* Where the reader is.
LEMMA PlacesAre ==
  ASSUME TypeOK, NEW s \in Seq(Byte), NEW p \in Seq(Nat), Laid(s, p), Synced(s, p)
  PROVE  /\ Len(received) \in Nat /\ Len(got) \in Nat /\ Len(wire) \in Nat /\ size \in Nat
         /\ DOMAIN got = 1 .. Len(got) /\ DOMAIN wire = 1 .. Len(wire)
         /\ Len(received) + 1 \in 1 .. Len(started) + 1
         /\ Start(p) \in Nat /\ Here(p) = Start(p) + Len(got)
         /\ There(p) = Here(p) + Len(wire) /\ There(p) <= Len(s)
<1>1. /\ Len(received) \in Nat /\ Len(got) \in Nat /\ Len(wire) \in Nat /\ size \in Nat
      /\ DOMAIN got = 1 .. Len(got) /\ DOMAIN wire = 1 .. Len(wire)
  BY Limits DEF TypeOK
<1>2. Len(received) + 1 \in 1 .. Len(started) + 1
  BY <1>1, LaidIs DEF Synced
<1>3. p[Len(received) + 1] \in Nat
  BY <1>2, LaidIs
<1>4. Start(p) \in Nat
  BY <1>3, Bases DEF Start
<1> QED BY <1>1, <1>2, <1>4 DEF Here, There, Synced

\* What has been read and what is on the wire is in the stream.
LEMMA Inward ==
  ASSUME TypeOK, NEW s \in Seq(Byte), NEW p \in Seq(Nat), Laid(s, p), Synced(s, p)
  PROVE  /\ \A i \in DOMAIN got : Start(p) + i \in 1 .. Len(s)
         /\ \A i \in DOMAIN wire : Here(p) + i \in 1 .. Len(s)
<1>1. /\ Len(got) \in Nat /\ Len(wire) \in Nat /\ Len(s) \in Nat
      /\ DOMAIN got = 1 .. Len(got) /\ DOMAIN wire = 1 .. Len(wire)
      /\ Start(p) \in Nat /\ Here(p) = Start(p) + Len(got)
      /\ There(p) = Here(p) + Len(wire) /\ There(p) <= Len(s)
  BY PlacesAre
<1> DEFINE a == Len(got)
           b == Len(wire)
           c == Len(s)
           x == Start(p)
<1>2. a \in Nat /\ b \in Nat /\ c \in Nat /\ x \in Nat /\ x + a + b <= c
  BY <1>1
<1> HIDE DEF a, b, c, x
<1>3. /\ \A i \in 1 .. a : x + i \in 1 .. c
      /\ \A i \in 1 .. b : x + a + i \in 1 .. c
  BY <1>2
<1> QED BY <1>1, <1>3 DEF a, b, c, x

LEMMA SyncSendMessage ==
  ASSUME TypeOK, HoldersWrite, InSync, NEW n \in Lengths, SendMessage(n)
  PROVE  InSync'
<1>1. PICK s \in Seq(Byte), p \in Seq(Nat) : Laid(s, p) /\ Synced(s, p)
  BY DEF InSync
<1>2. /\ unsent' = Append(unsent, <<>>)
      /\ started' = started /\ UNCHANGED <<holders, wire, link, reader>>
  BY DEF SendMessage
<1>3. Next
  BY DEF Next
<1>4. Laid(s, p)'
  BY <1>1, <1>2, <1>3, StaysLaid
<1>5. \A m \in holders : unsent'[m] = unsent[m]
  <2>1. /\ unsent \in Seq(Seq(Byte)) /\ <<>> \in Seq(Byte)
        /\ \A m \in holders : m \in 1 .. Len(unsent)
    BY DEF TypeOK
  <2> DEFINE S == Seq(Byte)
  <2> HIDE DEF S
  <2>2. unsent \in Seq(S) /\ <<>> \in S
    BY <2>1 DEF S
  <2> QED BY <1>2, <2>1, <2>2, Longer
<1>6. phase = "body" =>
        LET m == started[Len(received) + 1] IN lens'[m] = lens[m] /\ (Fits(m)' <=> Fits(m))
  <2>1. phase = "body" => started[Len(received) + 1] \in DOMAIN lens
    BY <1>1, LaidIs DEF Synced
  <2>2. received' = received /\ started' = started
    BY <1>2 DEF reader
  <2> QED BY <1>3, <2>1, <2>2, Kept
<1>7. Start(p)' = Start(p) /\ Here(p)' = Here(p) /\ There(p)' = There(p)
  BY <1>2 DEF Start, Here, There, reader
<1>8. Synced(s, p)'
  <2> DEFINE m == started[Len(received) + 1]
  <2>1. /\ m' = m /\ received' = received /\ got' = got /\ phase' = phase
        /\ size' = size /\ started' = started /\ wire' = wire /\ link' = link
        /\ holders' = holders
    BY <1>2 DEF reader
  <2>2. phase = "body" => /\ Len(received) + 1 \in DOMAIN started /\ Fits(m)'
                          /\ size = lens'[m] /\ Len(got) <= size
    BY <1>1, <1>6 DEF Synced
  <2>3. link = "open" => \A k \in holders :
          /\ holders = {k}
          /\ There(p) + Len(unsent'[k]) = Len(s)
          /\ \A i \in DOMAIN unsent'[k] : unsent'[k][i] = s[There(p) + i]
    BY <1>1, <1>5 DEF Synced
  <2>4. /\ Len(received) <= Len(started)
        /\ There(p) <= Len(s)
        /\ \A i \in DOMAIN got : got[i] = s[Start(p) + i]
        /\ \A i \in DOMAIN wire : wire[i] = s[Here(p) + i]
        /\ phase = "size" => Len(got) <= Width
        /\ link = "open" /\ holders = {} => There(p) = Len(s)
    BY <1>1 DEF Synced
  <2> QED BY <1>7, <2>1, <2>2, <2>3, <2>4 DEF Synced
<1> QED BY <1>4, <1>8 DEF InSync

LEMMA LastOne ==
  ASSUME NEW n \in Nat, NEW k \in 1 .. n + 1, k \notin 1 .. n
  PROVE  k = n + 1
OBVIOUS

LEMMA Inside ==
  ASSUME NEW a \in Nat, NEW w \in Nat, NEW n \in Nat, NEW l \in Nat, NEW e \in Nat,
         a + w + n <= l
  PROVE  /\ \A i \in 1 .. w + n : a + i \in 1 .. l
         /\ a + w + n = a + (w + n) /\ a + w + n \in Nat
         /\ a + w + n <= l + e
OBVIOUS

\* A task that gets the mutex lengthens the stream by its frame.
LEMMA LongerLaid ==
  ASSUME TypeOK, NEW m \in DOMAIN lens, Lock(m),
         NEW s \in Seq(Byte), NEW p \in Seq(Nat), Laid(s, p),
         NEW t \in Seq(Byte), NEW q \in Seq(Nat),
         Len(t) = Len(s) + (Width + lens[m]),
         \A i \in 1 .. Len(s) : t[i] = s[i],
         \A i \in 1 .. Width + lens[m] : t[Len(s) + i] = Frame(m)[i],
         Len(q) = Len(started) + 2,
         q[Len(started) + 2] = Len(s) + Width + lens[m],
         \A k \in 1 .. Len(started) + 1 : q[k] = p[k]
  PROVE  Laid(t, q)'
<1>1. /\ Len(started) \in Nat /\ Len(s) \in Nat /\ DOMAIN started = 1 .. Len(started)
      /\ \A k \in 1 .. Len(started) + 1 : p[k] \in Nat /\ p[k] <= Len(s)
      /\ \A k \in DOMAIN started :
           /\ started[k] \in DOMAIN lens /\ lens[started[k]] \in Nat \ {0}
           /\ k \in 1 .. Len(started) + 1 /\ k + 1 \in 1 .. Len(started) + 1
  BY LaidIs
<1>2. /\ Frame(m) \in Seq(Byte) /\ Len(Frame(m)) = Width + lens[m]
      /\ lens[m] \in Nat \ {0} /\ Width \in Nat
  BY Frames, Bases
<1>3. /\ Len(t) = Len(s) + (Width + lens[m])
      /\ \A i \in 1 .. Len(s) : t[i] = s[i]
      /\ \A i \in 1 .. Width + lens[m] : t[Len(s) + i] = Frame(m)[i]
  OBVIOUS
<1>4. /\ Len(p) = Len(started) + 1 /\ p[1] = 0 /\ p[Len(started) + 1] = Len(s)
      /\ \A k \in DOMAIN started :
           /\ p[k + 1] = p[k] + Width + lens[started[k]] /\ p[k + 1] <= Len(s)
           /\ \A i \in 1 .. Width + lens[started[k]] : s[p[k] + i] = Frame(started[k])[i]
  BY DEF Laid
<1>5. /\ Len(q) = Len(started) + 2
      /\ q[Len(started) + 2] = Len(s) + Width + lens[m]
      /\ \A k \in 1 .. Len(started) + 1 : q[k] = p[k]
  OBVIOUS
<1>6. /\ Len(started') = Len(started) + 1 /\ DOMAIN started' = 1 .. Len(started) + 1
      /\ started'[Len(started) + 1] = m
      /\ \A k \in DOMAIN started : started'[k] = started[k]
  <2>1. started' = Append(started, m) /\ started \in Seq(DOMAIN lens)
    BY DEF Lock, TypeOK
  <2> QED BY <1>1, <2>1, Longer
<1>7. \A k \in DOMAIN lens : Frame(k)' = Frame(k) /\ lens'[k] = lens[k]
  <2>1. Next
    BY DEF Next, WriterStep
  <2> QED BY <2>1, Kept
<1>8. ASSUME NEW k \in DOMAIN started'
      PROVE  /\ q[k + 1] = q[k] + Width + lens'[started'[k]] /\ q[k + 1] <= Len(t)
             /\ \A i \in 1 .. Width + lens'[started'[k]] :
                  t[q[k] + i] = Frame(started[k])'[i]
  <2>1. CASE k \in DOMAIN started
    <3> DEFINE n == started[k]
    <3>1. n \in DOMAIN lens /\ lens[n] \in Nat \ {0} /\ started'[k] = n
      BY <1>1, <1>6, <2>1
    <3>2. lens'[started'[k]] = lens[n] /\ Frame(started[k])' = Frame(n)
      BY <1>7, <3>1
    <3>3. /\ q[k] = p[k] /\ q[k + 1] = p[k + 1] /\ p[k] \in Nat
      BY <1>1, <1>5, <2>1
    <3>4. /\ p[k + 1] = p[k] + Width + lens[n] /\ p[k + 1] <= Len(s)
          /\ \A i \in 1 .. Width + lens[n] : s[p[k] + i] = Frame(n)[i]
      BY <1>4, <2>1
    <3> HIDE DEF n
    <3>5. \A i \in 1 .. Width + lens[n] : p[k] + i \in 1 .. Len(s)
      <4>1. Len(s) \in Nat /\ Width \in Nat /\ lens[n] \in Nat
        BY <1>1, <1>2, <3>1
      <4>2. p[k] + Width + lens[n] <= Len(s)
        BY <3>4
      <4> QED BY <3>3, <4>1, <4>2, Inside
    <3>6. \A i \in 1 .. Width + lens[n] : t[p[k] + i] = Frame(n)[i]
      BY <1>3, <3>4, <3>5
    <3>7. p[k + 1] <= Len(t)
      <4>1. /\ Len(s) \in Nat /\ Width \in Nat /\ lens[n] \in Nat
            /\ Width + lens[m] \in Nat /\ Len(t) = Len(s) + (Width + lens[m])
        BY <1>1, <1>2, <1>3, <3>1
      <4>2. p[k] + Width + lens[n] <= Len(s)
        BY <3>4
      <4>3. p[k] + Width + lens[n] <= Len(s) + (Width + lens[m])
        BY <3>3, <4>1, <4>2, Inside
      <4> QED BY <3>4, <4>1, <4>3
    <3> QED BY <3>2, <3>3, <3>4, <3>6, <3>7
  <2>2. CASE k \notin DOMAIN started
    <3>1. k = Len(started) + 1 /\ started'[k] = m
      <4>1. k \in 1 .. Len(started) + 1 /\ k \notin 1 .. Len(started)
        BY <1>1, <1>6, <2>2, Zenon
      <4>2. Len(started) \in Nat
        BY <1>1
      <4>3. k = Len(started) + 1
        BY <4>1, <4>2, LastOne
      <4> QED BY <1>6, <4>3, Zenon
    <3>2. lens'[started'[k]] = lens[m] /\ Frame(started[k])' = Frame(m)
      BY <1>7, <3>1
    <3>3. q[k] = Len(s) /\ q[k + 1] = Len(s) + Width + lens[m]
      <4>1. k \in 1 .. Len(started) + 1 /\ k + 1 = Len(started) + 2
        BY <1>1, <3>1
      <4> QED BY <1>4, <1>5, <3>1, <4>1
    <3>4. q[k + 1] <= Len(t)
      <4>1. Len(s) + Width + lens[m] = Len(s) + (Width + lens[m])
            /\ Len(s) + (Width + lens[m]) <= Len(s) + (Width + lens[m])
        BY <1>1, <1>2
      <4> QED BY <1>3, <3>3, <4>1
    <3> QED BY <1>3, <3>2, <3>3, <3>4
  <2> QED BY <2>1, <2>2
<1>9. /\ Len(q) = Len(started') + 1 /\ q[1] = 0 /\ q[Len(started') + 1] = Len(t)
  <2>1. 1 \in 1 .. Len(started) + 1 /\ Len(started') + 1 = Len(started) + 2
        /\ Len(s) + Width + lens[m] = Len(s) + (Width + lens[m])
    BY <1>1, <1>2, <1>6
  <2> QED BY <1>3, <1>4, <1>5, <2>1
<1> QED BY <1>8, <1>9 DEF Laid

LEMMA SyncLock ==
  ASSUME TypeOK, HoldersWrite, InSync, NEW m \in DOMAIN lens, Lock(m)
  PROVE  InSync'
<1>1. PICK s \in Seq(Byte), p \in Seq(Nat) : Laid(s, p) /\ Synced(s, p)
  BY DEF InSync
<1>2. /\ Len(started) \in Nat /\ Len(s) \in Nat /\ DOMAIN started = 1 .. Len(started)
      /\ Frame(m) \in Seq(Byte) /\ Len(Frame(m)) = Width + lens[m]
      /\ lens[m] \in Nat \ {0} /\ Width \in Nat
  BY <1>1, LaidIs, Frames, Bases
<1>3. PICK t \in Seq(Byte) :
        /\ Len(t) = Len(s) + (Width + lens[m])
        /\ \A i \in 1 .. Len(s) : t[i] = s[i]
        /\ \A i \in 1 .. Width + lens[m] : t[Len(s) + i] = Frame(m)[i]
  <2>1. PICK f \in Seq(Byte) : f = Frame(m)
    BY <1>2
  <2>2. PICK t \in Seq(Byte) : t = s \o f
    BY Joined
  <2>3. /\ Len(t) = Len(s) + Len(f)
        /\ \A i \in 1 .. Len(s) : t[i] = s[i]
        /\ \A i \in 1 .. Len(f) : t[Len(s) + i] = f[i]
    BY <2>2, Joined
  <2>4. Len(f) = Width + lens[m]
    BY <1>2, <2>1
  <2> QED BY <2>1, <2>3, <2>4, Zenon
<1>4. PICK q \in Seq(Nat) :
        /\ Len(q) = Len(started) + 2
        /\ q[Len(started) + 2] = Len(s) + Width + lens[m]
        /\ \A k \in 1 .. Len(started) + 1 : q[k] = p[k]
  <2>1. PICK e \in Nat : e = Len(s) + Width + lens[m]
    BY <1>2
  <2>2. PICK q \in Seq(Nat) : q = Append(p, e)
    BY Longer
  <2>3. /\ Len(q) = Len(p) + 1 /\ q[Len(p) + 1] = e
        /\ \A k \in 1 .. Len(p) : q[k] = p[k]
    BY <2>2, Longer
  <2>4. Len(p) = Len(started) + 1 /\ Len(p) + 1 = Len(started) + 2
    BY <1>1, <1>2 DEF Laid
  <2> QED BY <2>1, <2>3, <2>4, Zenon
<1>5. /\ Laid(t, q)'
      /\ \A k \in 1 .. Len(started) + 1 : q[k] = p[k]
      /\ \A i \in 1 .. Len(s) : t[i] = s[i]
      /\ Len(t) = Len(s) + Len(Frame(m))
      /\ \A i \in 1 .. Len(Frame(m)) : t[Len(s) + i] = Frame(m)[i]
  <2>1. Laid(t, q)'
    BY <1>1, <1>3, <1>4, LongerLaid
  <2> QED BY <1>2, <1>3, <1>4, <2>1, Zenon
<1>6. /\ holders = {} /\ holders' = {m} /\ UNCHANGED <<settings, lens, wire, link, reader>>
      /\ unsent'[m] = Frame(m)
  <2>1. m \in DOMAIN unsent
    BY DEF TypeOK
  <2> QED BY <2>1 DEF Lock, TypeOK
<1>7. /\ Len(received) \in Nat /\ Len(got) \in Nat /\ Len(wire) \in Nat
      /\ DOMAIN got = 1 .. Len(got) /\ DOMAIN wire = 1 .. Len(wire)
      /\ Len(received) + 1 \in 1 .. Len(started) + 1
      /\ Start(p) \in Nat /\ Here(p) = Start(p) + Len(got)
      /\ There(p) = Here(p) + Len(wire) /\ There(p) <= Len(s)
  BY <1>1, PlacesAre
<1>8. /\ received' = received /\ got' = got /\ wire' = wire /\ phase' = phase
      /\ size' = size /\ link' = link /\ lens' = lens
  BY <1>6 DEF reader
<1>9. Start(q)' = Start(p) /\ Here(q)' = Here(p) /\ There(q)' = There(p)
  <2>1. Start(q)' = Start(p)
    BY <1>5, <1>7, <1>8 DEF Start
  <2> QED BY <1>8, <2>1 DEF Here, There
<1>10. Len(received) <= Len(started') /\ Len(started') = Len(started) + 1
  <2>1. started' = Append(started, m) /\ started \in Seq(DOMAIN lens)
    BY DEF Lock, TypeOK
  <2> QED BY <1>2, <1>7, <2>1, Longer
<1>11. /\ \A i \in DOMAIN got : got[i] = t[Start(p) + i]
       /\ \A i \in DOMAIN wire : wire[i] = t[Here(p) + i]
  <2>1. /\ \A i \in DOMAIN got : got[i] = s[Start(p) + i]
        /\ \A i \in DOMAIN wire : wire[i] = s[Here(p) + i]
    BY <1>1 DEF Synced
  <2>2. /\ \A i \in DOMAIN got : Start(p) + i \in 1 .. Len(s)
        /\ \A i \in DOMAIN wire : Here(p) + i \in 1 .. Len(s)
    BY <1>1, Inward
  <2> QED BY <1>5, <2>1, <2>2
<1>12. phase = "body" =>
         LET next == Len(received) + 1 IN
         /\ next \in DOMAIN started' /\ started'[next] = started[next]
         /\ Fits(started[next])' /\ size = lens[started[next]] /\ Len(got) <= size
  <2>1. Next
    BY DEF Next, WriterStep
  <2>2. phase = "body" =>
          LET next == Len(received) + 1 IN
          /\ next \in DOMAIN started /\ Fits(started[next])
          /\ size = lens[started[next]] /\ Len(got) <= size
    BY <1>1 DEF Synced
  <2> SUFFICES ASSUME phase = "body"
      PROVE  LET next == Len(received) + 1 IN
             /\ next \in DOMAIN started' /\ started'[next] = started[next]
             /\ Fits(started[next])' /\ size = lens[started[next]] /\ Len(got) <= size
    OBVIOUS
  <2> DEFINE next == Len(received) + 1
             n == started[next]
  <2>3. next \in DOMAIN started /\ n \in DOMAIN lens /\ Fits(n)
    BY <1>1, <2>2, LaidIs
  <2>4. next \in DOMAIN started' /\ started'[next] = n
    BY <2>1, <2>3, Kept
  <2>5. next' = next
    BY <1>8
  <2>6. Fits(started[next])'
    BY <2>1, <2>3, <2>4, <2>5, Kept
  <2> QED BY <2>2, <2>4, <2>6
<1>13. /\ There(p) <= Len(t)
       /\ phase = "size" => Len(got) <= Width
       /\ link = "open" => There(p) + Len(unsent'[m]) = Len(t)
       /\ link = "open" => \A i \in DOMAIN unsent'[m] : unsent'[m][i] = t[There(p) + i]
  <2>1. There(p) <= Len(t)
    <3>1. There(p) \in Nat /\ There(p) <= Len(s)
      BY <1>7
    <3>2. Len(s) \in Nat /\ Len(Frame(m)) \in Nat /\ Len(t) = Len(s) + Len(Frame(m))
      BY <1>2, <1>5
    <3> QED BY <3>1, <3>2
  <2>2. /\ phase = "size" => Len(got) <= Width
        /\ link = "open" => There(p) = Len(s)
    BY <1>1, <1>6 DEF Synced
  <2>3. DOMAIN unsent'[m] = 1 .. Len(Frame(m))
    BY <1>2, <1>6
  <2> QED BY <1>5, <1>6, <2>1, <2>2, <2>3
<1>14. Synced(t, q)'
  <2>1. \A k \in holders' : k = m
    BY <1>6
  <2>2. holders' # {} /\ holders' = {m}
    BY <1>6
  <2> QED BY <1>8, <1>9, <1>10, <1>11, <1>12, <1>13, <2>1, <2>2 DEF Synced
<1> QED BY <1>5, <1>14 DEF InSync

LEMMA SyncWriteByte ==
  ASSUME TypeOK, HoldersWrite, InSync, NEW m \in DOMAIN lens, WriteByte(m)
  PROVE  InSync'
<1>1. PICK s \in Seq(Byte), p \in Seq(Nat) : Laid(s, p) /\ Synced(s, p)
  BY DEF InSync
<1>2. /\ m \in holders /\ link = "open"
      /\ wire' = Append(wire, Head(unsent[m]))
      /\ unsent' = [unsent EXCEPT ![m] = Tail(unsent[m])]
      /\ holders' = IF Len(unsent[m]) = 1 THEN holders \ {m} ELSE holders
      /\ UNCHANGED <<settings, lens, started, link, reader>>
  BY DEF WriteByte
<1>3. Next
  BY DEF Next, WriterStep
<1>4. Laid(s, p)'
  BY <1>1, <1>2, <1>3, StaysLaid
<1>5. /\ received' = received /\ got' = got /\ phase' = phase /\ size' = size
      /\ link' = link /\ lens' = lens /\ started' = started
      /\ bytes' = bytes /\ order' = order
  BY <1>2 DEF reader, settings
<1>6. m \in DOMAIN unsent /\ unsent[m] \in Seq(Byte) /\ unsent[m] # <<>>
  BY <1>2 DEF TypeOK, HoldersWrite
<1>7. PICK u \in Seq(Byte), v \in Seq(Byte), w \in Seq(Byte) :
        /\ u = unsent[m] /\ v = unsent'[m] /\ w = wire'
        /\ Len(u) \in Nat \ {0} /\ Len(v) = Len(u) - 1
        /\ \A i \in 1 .. Len(u) - 1 : v[i] = u[i + 1]
        /\ Len(w) = Len(wire) + 1 /\ w[Len(wire) + 1] = u[1]
        /\ \A i \in 1 .. Len(wire) : w[i] = wire[i]
  <2>1. PICK u \in Seq(Byte) : u = unsent[m] /\ u # <<>>
    BY <1>6
  <2>2. /\ Head(u) \in Byte /\ Head(u) = u[1] /\ Tail(u) \in Seq(Byte)
        /\ Len(u) \in Nat \ {0} /\ Len(Tail(u)) = Len(u) - 1
        /\ \A i \in 1 .. Len(u) - 1 : Tail(u)[i] = u[i + 1]
    BY <2>1, Headed
  <2>3. unsent'[m] = Tail(u)
    BY <1>2, <1>6, <2>1 DEF TypeOK
  <2>4. PICK e \in Byte : e = Head(u)
    BY <2>2
  <2>5. wire' = Append(wire, e) /\ wire \in Seq(Byte)
    BY <1>2, <2>1, <2>4 DEF TypeOK
  <2>6. /\ wire' \in Seq(Byte) /\ Len(wire') = Len(wire) + 1
        /\ wire'[Len(wire) + 1] = e
        /\ \A i \in 1 .. Len(wire) : wire'[i] = wire[i]
    BY <2>5, Longer
  <2>7. PICK v \in Seq(Byte) : v = Tail(u)
    BY <2>2
  <2>8. PICK w \in Seq(Byte) : w = wire'
    BY <2>6
  <2>9. /\ u = unsent[m] /\ v = unsent'[m] /\ w = wire'
        /\ Len(u) \in Nat \ {0} /\ Len(v) = Len(u) - 1
        /\ \A i \in 1 .. Len(u) - 1 : v[i] = u[i + 1]
        /\ Len(w) = Len(wire) + 1 /\ w[Len(wire) + 1] = u[1]
        /\ \A i \in 1 .. Len(wire) : w[i] = wire[i]
    BY <2>1, <2>2, <2>3, <2>4, <2>6, <2>7, <2>8, Zenon
  <2> QED BY <2>9
<1>8. /\ Len(got) \in Nat /\ Len(wire) \in Nat /\ Len(s) \in Nat
      /\ DOMAIN wire = 1 .. Len(wire)
      /\ Start(p) \in Nat /\ Here(p) = Start(p) + Len(got)
      /\ There(p) = Here(p) + Len(wire)
  BY <1>1, PlacesAre
<1>9. Start(p)' = Start(p) /\ Here(p)' = Here(p) /\ There(p)' = There(p) + 1
  <2>1. Start(p)' = Start(p)
    BY <1>5 DEF Start
  <2>2. Here(p)' = Here(p)
    BY <1>5, <2>1 DEF Here
  <2>3. There(p)' = Here(p) + (Len(wire) + 1)
    BY <1>7, <2>2 DEF There
  <2> QED BY <1>8, <2>1, <2>2, <2>3
<1>10. /\ holders = {m}
       /\ There(p) + Len(u) = Len(s)
       /\ \A i \in 1 .. Len(u) : u[i] = s[There(p) + i]
  <2>1. \A k \in holders :
          /\ holders = {k}
          /\ There(p) + Len(unsent[k]) = Len(s)
          /\ \A i \in DOMAIN unsent[k] : unsent[k][i] = s[There(p) + i]
    BY <1>1, <1>2 DEF Synced
  <2>2. DOMAIN u = 1 .. Len(u)
    OBVIOUS
  <2> QED BY <1>2, <1>7, <2>1, <2>2
<1>11. /\ There(p) + 1 <= Len(s)
       /\ \A i \in 1 .. Len(wire) + 1 : w[i] = s[Here(p) + i]
       /\ There(p) + 1 + Len(v) = Len(s)
       /\ \A i \in 1 .. Len(v) : v[i] = s[There(p) + 1 + i]
       /\ Len(u) = 1 => There(p) + 1 = Len(s)
  <2> DEFINE x == There(p)
             y == Here(p)
             a == Len(u)
             b == Len(wire)
  <2>1. x \in Nat /\ y \in Nat /\ x = y + b /\ b \in Nat /\ a \in Nat \ {0}
    BY <1>7, <1>8
  <2>2. /\ x + a = Len(s) /\ Len(s) \in Nat /\ Len(v) = a - 1
        /\ \A i \in 1 .. a : u[i] = s[x + i]
        /\ \A i \in 1 .. a - 1 : v[i] = u[i + 1]
        /\ w[b + 1] = u[1] /\ \A i \in 1 .. b : w[i] = wire[i]
        /\ \A i \in 1 .. b : wire[i] = s[y + i]
    BY <1>1, <1>7, <1>8, <1>10 DEF Synced
  <2> HIDE DEF x, y, a, b
  <2>3. x + 1 <= Len(s) /\ x + 1 + Len(v) = Len(s) /\ (a = 1 => x + 1 = Len(s))
    <3>1. x + a = Len(s) /\ Len(s) \in Nat /\ Len(v) = a - 1
      BY <2>2
    <3>2. x \in Nat /\ a \in Nat \ {0}
      BY <2>1
    <3>3. PICK l \in Nat : l = Len(s)
      BY <3>1
    <3>4. PICK n \in Int : n = a - 1 /\ n = Len(v)
      BY <3>1, <3>2
    <3>5. x + a = l
      BY <3>1, <3>3
    <3>6. x + 1 <= l
      BY <3>2, <3>5
    <3>7. x + 1 + n = l
      BY <3>2, <3>4, <3>5
    <3>8. a = 1 => x + 1 = l
      BY <3>2, <3>5
    <3> QED BY <3>3, <3>4, <3>6, <3>7, <3>8
  <2>4. ASSUME NEW i \in 1 .. b + 1 PROVE w[i] = s[y + i]
    <3>1. CASE i \in 1 .. b
      BY <2>2, <3>1
    <3>2. CASE i \notin 1 .. b
      <4>1. i = b + 1 /\ y + i = x + 1 /\ 1 \in 1 .. a
        BY <2>1, <3>2
      <4> QED BY <2>2, <4>1
    <3> QED BY <3>1, <3>2
  <2>5. ASSUME NEW i \in 1 .. Len(v) PROVE v[i] = s[x + 1 + i]
    <3>1. i \in 1 .. a - 1 /\ i + 1 \in 1 .. a /\ x + (i + 1) = x + 1 + i
      BY <2>1, <2>2
    <3> QED BY <2>2, <3>1
  <2> QED BY <2>3, <2>4, <2>5 DEF x, y, a, b
<1>12. phase = "body" =>
         LET next == Len(received) + 1 IN
         /\ next \in DOMAIN started /\ Fits(started[next])'
         /\ size = lens[started[next]] /\ Len(got) <= size
  BY <1>1, <1>5 DEF Synced, Fits, Limit
<1>13. /\ holders' \subseteq {m}
       /\ holders' = {} => Len(u) = 1
  BY <1>2, <1>7, <1>10
<1>14. /\ Len(received) <= Len(started)
       /\ \A i \in DOMAIN got : got[i] = s[Start(p) + i]
       /\ phase = "size" => Len(got) <= Width
  BY <1>1 DEF Synced
<1>15. Synced(s, p)'
  <2>1. DOMAIN w = 1 .. Len(wire) + 1 /\ DOMAIN v = 1 .. Len(v)
    BY <1>7, <1>8
  <2>2. \A k \in holders' :
           /\ holders' = {k}
           /\ There(p) + 1 + Len(unsent'[k]) = Len(s)
           /\ \A i \in DOMAIN unsent'[k] : unsent'[k][i] = s[There(p) + 1 + i]
    BY <1>7, <1>11, <1>13, <2>1
  <2>3. \A i \in DOMAIN wire' : wire'[i] = s[Here(p) + i]
    BY <1>7, <1>11, <2>1
  <2>4. holders' = {} => There(p) + 1 = Len(s)
    BY <1>11, <1>13
  <2> QED BY <1>5, <1>9, <1>11, <1>12, <1>14, <2>2, <2>3, <2>4 DEF Synced
<1> QED BY <1>4, <1>15 DEF InSync

\* A stream that is broken, or breaks, is not written any more.
LEMMA SyncBroken ==
  ASSUME TypeOK, HoldersWrite, InSync,
         LinkBreaks \/ \E m \in DOMAIN lens : WriteFails(m)
  PROVE  InSync'
<1>1. PICK s \in Seq(Byte), p \in Seq(Nat) : Laid(s, p) /\ Synced(s, p)
  BY DEF InSync
<1>2. /\ UNCHANGED <<settings, lens, started, wire, reader>> /\ link' = "broken"
  BY DEF LinkBreaks, WriteFails, writers
<1>3. Next
  BY DEF Next, WriterStep
<1>4. Laid(s, p)'
  BY <1>1, <1>2, <1>3, StaysLaid
<1>5. /\ received' = received /\ got' = got /\ phase' = phase /\ size' = size
      /\ wire' = wire /\ lens' = lens /\ started' = started
      /\ bytes' = bytes /\ order' = order
  BY <1>2 DEF reader, settings
<1>6. Start(p)' = Start(p) /\ Here(p)' = Here(p) /\ There(p)' = There(p)
  BY <1>5 DEF Start, Here, There
<1>7. phase = "body" =>
        LET next == Len(received) + 1 IN
        /\ next \in DOMAIN started /\ Fits(started[next])'
        /\ size = lens[started[next]] /\ Len(got) <= size
  BY <1>1, <1>5 DEF Synced, Fits, Limit
<1>8. /\ Len(received) <= Len(started)
      /\ There(p) <= Len(s)
      /\ \A i \in DOMAIN got : got[i] = s[Start(p) + i]
      /\ \A i \in DOMAIN wire : wire[i] = s[Here(p) + i]
      /\ phase = "size" => Len(got) <= Width
  BY <1>1 DEF Synced
<1>9. Synced(s, p)'
  BY <1>2, <1>5, <1>6, <1>7, <1>8 DEF Synced
<1> QED BY <1>4, <1>9 DEF InSync

LEMMA SyncReadByte ==
  ASSUME TypeOK, HoldersWrite, InSync, ReadByte
  PROVE  InSync'
<1>1. PICK s \in Seq(Byte), p \in Seq(Nat) : Laid(s, p) /\ Synced(s, p)
  BY DEF InSync
<1>2. /\ \/ phase = "size" /\ Len(got) < Width
         \/ phase = "body" /\ Len(got) < size
      /\ wire # <<>>
      /\ got' = Append(got, Head(wire)) /\ wire' = Tail(wire)
      /\ UNCHANGED <<settings, writers, link, phase, size, received>>
  BY DEF ReadByte
<1>3. Next
  BY DEF Next, ReaderStep
<1>4. /\ lens' = lens /\ unsent' = unsent /\ holders' = holders /\ started' = started
      /\ link' = link /\ phase' = phase /\ size' = size /\ received' = received
      /\ bytes' = bytes /\ order' = order
  BY <1>2 DEF settings, writers
<1>5. Laid(s, p)'
  BY <1>1, <1>3, <1>4, StaysLaid
<1>6. PICK g \in Seq(Byte), w \in Seq(Byte) :
        /\ g = got' /\ w = wire'
        /\ Len(wire) \in Nat \ {0} /\ Len(w) = Len(wire) - 1
        /\ \A i \in 1 .. Len(wire) - 1 : w[i] = wire[i + 1]
        /\ Len(g) = Len(got) + 1 /\ g[Len(got) + 1] = wire[1]
        /\ \A i \in 1 .. Len(got) : g[i] = got[i]
  <2>1. wire \in Seq(Byte) /\ got \in Seq(Byte)
    BY DEF TypeOK
  <2>2. /\ Head(wire) \in Byte /\ Head(wire) = wire[1] /\ Tail(wire) \in Seq(Byte)
        /\ Len(wire) \in Nat \ {0} /\ Len(Tail(wire)) = Len(wire) - 1
        /\ \A i \in 1 .. Len(wire) - 1 : Tail(wire)[i] = wire[i + 1]
    BY <1>2, <2>1, Headed
  <2>3. PICK e \in Byte : e = Head(wire)
    BY <2>2
  <2>4. got' = Append(got, e)
    BY <1>2, <2>3
  <2>5. /\ got' \in Seq(Byte) /\ Len(got') = Len(got) + 1
        /\ got'[Len(got) + 1] = e
        /\ \A i \in 1 .. Len(got) : got'[i] = got[i]
    BY <2>1, <2>4, Longer
  <2>6. PICK g \in Seq(Byte) : g = got'
    BY <2>5
  <2>7. PICK w \in Seq(Byte) : w = Tail(wire)
    BY <2>2
  <2>8. /\ g = got' /\ w = wire'
        /\ Len(wire) \in Nat \ {0} /\ Len(w) = Len(wire) - 1
        /\ \A i \in 1 .. Len(wire) - 1 : w[i] = wire[i + 1]
        /\ Len(g) = Len(got) + 1 /\ g[Len(got) + 1] = wire[1]
        /\ \A i \in 1 .. Len(got) : g[i] = got[i]
    BY <1>2, <2>2, <2>3, <2>5, <2>6, <2>7, Zenon
  <2> QED BY <2>8
<1>7. /\ Len(got) \in Nat /\ size \in Nat /\ Width \in Nat
      /\ DOMAIN got = 1 .. Len(got) /\ DOMAIN wire = 1 .. Len(wire)
      /\ Start(p) \in Nat /\ Here(p) = Start(p) + Len(got)
      /\ There(p) = Here(p) + Len(wire)
  BY <1>1, PlacesAre, Bases
<1>8. Start(p)' = Start(p) /\ Here(p)' = Here(p) + 1 /\ There(p)' = There(p)
  <2>1. Start(p)' = Start(p)
    BY <1>4 DEF Start
  <2>2. Here(p)' = Start(p) + (Len(got) + 1)
    BY <1>6, <2>1 DEF Here
  <2>3. Here(p)' = Here(p) + 1
    BY <1>7, <2>2
  <2>4. There(p)' = Here(p) + 1 + (Len(wire) - 1)
    BY <1>6, <2>3 DEF There
  <2>5. Here(p) + 1 + (Len(wire) - 1) = There(p)
    BY <1>6, <1>7
  <2> QED BY <2>1, <2>3, <2>4, <2>5
<1>9. /\ \A i \in 1 .. Len(got) + 1 : g[i] = s[Start(p) + i]
      /\ \A i \in 1 .. Len(w) : w[i] = s[Here(p) + 1 + i]
      /\ phase = "size" => Len(got) + 1 <= Width
      /\ phase = "body" => Len(got) + 1 <= size
  <2> DEFINE x == Start(p)
             a == Len(got)
             b == Len(wire)
  <2>1. x \in Nat /\ a \in Nat /\ b \in Nat \ {0} /\ Here(p) = x + a
    BY <1>6, <1>7
  <2>2. /\ Len(w) = b - 1 /\ \A i \in 1 .. b - 1 : w[i] = wire[i + 1]
        /\ g[a + 1] = wire[1] /\ \A i \in 1 .. a : g[i] = got[i]
        /\ \A i \in 1 .. a : got[i] = s[x + i]
        /\ \A i \in 1 .. b : wire[i] = s[x + a + i]
    BY <1>1, <1>6, <1>7 DEF Synced
  <2>3. /\ phase = "size" => a + 1 <= Width
        /\ phase = "body" => a + 1 <= size
    <3>1. /\ phase = "size" => Len(got) < Width
          /\ phase = "body" => Len(got) < size
      BY <1>2
    <3> QED BY <1>7, <3>1
  <2> HIDE DEF x, a, b
  <2>4. ASSUME NEW i \in 1 .. a + 1 PROVE g[i] = s[x + i]
    <3>1. CASE i \in 1 .. a
      BY <2>2, <3>1
    <3>2. CASE i \notin 1 .. a
      <4>1. i = a + 1
        BY <2>1, <3>2, LastOne
      <4>2. 1 \in 1 .. b /\ x + a + 1 = x + (a + 1)
        BY <2>1
      <4> QED BY <2>2, <4>1, <4>2
    <3> QED BY <3>1, <3>2
  <2>5. ASSUME NEW i \in 1 .. Len(w) PROVE w[i] = s[x + a + 1 + i]
    <3>1. i \in 1 .. b - 1
      BY <2>2
    <3>2. i + 1 \in 1 .. b /\ x + a + (i + 1) = x + a + 1 + i
      BY <2>1, <3>1
    <3> QED BY <2>2, <3>1, <3>2
  <2> QED BY <2>1, <2>3, <2>4, <2>5 DEF x, a, b
<1>10. phase = "body" =>
         LET next == Len(received) + 1 IN
         /\ next \in DOMAIN started /\ Fits(started[next])'
         /\ size = lens[started[next]]
  BY <1>1, <1>4 DEF Synced, Fits, Limit
<1>11. /\ Len(received) <= Len(started) /\ There(p) <= Len(s)
       /\ link = "open" /\ holders = {} => There(p) = Len(s)
       /\ link = "open" => \A m \in holders :
            /\ holders = {m}
            /\ There(p) + Len(unsent[m]) = Len(s)
            /\ \A i \in DOMAIN unsent[m] : unsent[m][i] = s[There(p) + i]
  BY <1>1 DEF Synced
<1>12. Synced(s, p)'
  <2>1. DOMAIN g = 1 .. Len(got) + 1 /\ DOMAIN w = 1 .. Len(w)
    BY <1>6, <1>7
  <2>2. /\ \A i \in DOMAIN got' : got'[i] = s[Start(p) + i]
        /\ \A i \in DOMAIN wire' : wire'[i] = s[Here(p) + 1 + i]
        /\ phase = "size" => Len(got') <= Width
        /\ phase = "body" => Len(got') <= size
    BY <1>6, <1>9, <2>1
  <2> QED BY <1>4, <1>8, <1>10, <1>11, <2>2 DEF Synced
<1> QED BY <1>5, <1>12 DEF InSync

\* What a reader that has a whole size has read.
LEMMA SizeRead ==
  ASSUME TypeOK, NEW s \in Seq(Byte), NEW p \in Seq(Nat), Laid(s, p), Synced(s, p),
         phase = "size", Len(got) = Width
  PROVE  LET next == Len(received) + 1 IN
         /\ next \in DOMAIN started
         /\ ReadFromSettings(got) = ValueFromNumber(lens[started[next]])
<1> DEFINE next == Len(received) + 1
           n == started[next]
<1>1. /\ Len(started) \in Nat /\ Len(s) \in Nat /\ DOMAIN started = 1 .. Len(started)
      /\ Len(wire) \in Nat /\ Width \in Nat \ {0}
      /\ next \in 1 .. Len(started) + 1
      /\ Start(p) = p[next] /\ p[next] \in Nat
      /\ There(p) = p[next] + Width + Len(wire) /\ There(p) <= Len(s)
  <2>1. /\ Len(started) \in Nat /\ Len(s) \in Nat /\ DOMAIN started = 1 .. Len(started)
        /\ Len(wire) \in Nat
        /\ next \in 1 .. Len(started) + 1
        /\ Here(p) = Start(p) + Len(got)
        /\ There(p) = Here(p) + Len(wire) /\ There(p) <= Len(s)
    BY LaidIs, PlacesAre
  <2>2. Start(p) = p[next]
    BY DEF Start
  <2>3. p[next] \in Nat
    BY <2>1, LaidIs
  <2> QED BY <2>1, <2>2, <2>3, Bases
<1>2. next \in DOMAIN started
  <2> SUFFICES ASSUME next \notin 1 .. Len(started) PROVE FALSE
    BY <1>1
  <2>1. next = Len(started) + 1
    BY <1>1, LastOne
  <2>2. p[next] = Len(s)
    BY <2>1 DEF Laid
  <2> HIDE DEF next
  <2> QED BY <1>1, <2>2
<1>3. n \in DOMAIN lens /\ lens[n] \in Nat
  BY <1>2, LaidIs
<1>4. got = WriteFromSettings(ValueFromNumber(lens[n]))
  <2> DEFINE b == WriteFromSettings(ValueFromNumber(lens[n]))
  <2>1. b \in Seq(Byte) /\ Len(b) = Width
    BY <1>3, SizesFit, Written
  <2>2. got \in Seq(Byte) /\ DOMAIN got = 1 .. Width
    BY DEF TypeOK
  <2>3. ASSUME NEW i \in 1 .. Width PROVE got[i] = b[i]
    <3>1. got[i] = s[p[next] + i]
      BY <1>1, <2>2 DEF Synced
    <3>2. Frame(n)[i] = b[i]
      BY <1>3, Frames
    <3>3. i \in 1 .. Width + lens[n]
      BY <1>1, <1>3
    <3>4. s[p[next] + i] = Frame(n)[i]
      BY <1>2, <3>3 DEF Laid
    <3> QED BY <3>1, <3>2, <3>4
  <2> HIDE DEF b
  <2>4. got = b
    BY <2>1, <2>2, <2>3
  <2> QED BY <2>4 DEF b
<1>5. ReadFromSettings(got) = ValueFromNumber(lens[n])
  BY <1>3, <1>4, WrittenIsRead
<1> QED BY <1>2, <1>5

LEMMA SyncReadSize ==
  ASSUME TypeOK, HoldersWrite, ~Lost, InSync, ReadSize
  PROVE  phase' = "body" /\ (Lost' \/ InSync')
<1>1. PICK s \in Seq(Byte), p \in Seq(Nat) : Laid(s, p) /\ Synced(s, p)
  BY DEF InSync
<1> DEFINE next == Len(received) + 1
           n == started[next]
<1>2. phase = "size" /\ Len(got) = Width
  BY DEF ReadSize
<1>3. /\ next \in DOMAIN started /\ n \in DOMAIN lens /\ lens[n] \in Nat
      /\ ReadFromSettings(got) = ValueFromNumber(lens[n])
  <2>1. next \in DOMAIN started /\ ReadFromSettings(got) = ValueFromNumber(lens[n])
    BY <1>1, <1>2, SizeRead
  <2> QED BY <1>1, <2>1, LaidIs
<1>4. Fits(n)
  <2>1. Len(received) \in Nat
    BY <1>1, PlacesAre
  <2> QED BY <1>3, <2>1 DEF Lost
<1>5. ReadFromSettings(got) = lens[n]
  BY <1>3, <1>4, SizesFit DEF Fits
<1>6. /\ phase' = "body" /\ size' = lens[n] /\ got' = <<>>
      /\ UNCHANGED <<settings, writers, wire, link, received>>
  BY <1>3, <1>5 DEF ReadSize
<1>7. Next
  BY DEF Next, ReaderStep
<1>8. /\ lens' = lens /\ unsent' = unsent /\ holders' = holders /\ started' = started
      /\ link' = link /\ received' = received /\ wire' = wire
      /\ bytes' = bytes /\ order' = order
  BY <1>6 DEF settings, writers
<1>9. Laid(s, p)'
  BY <1>1, <1>7, <1>8, StaysLaid
<1>10. /\ Start(p)' = p[next] + Width /\ Here(p)' = Here(p) /\ There(p)' = There(p)
  <2>1. Start(p) = p[next] /\ Here(p) = p[next] + Width
    BY <1>2 DEF Start, Here
  <2>2. Start(p)' = p[next] + Width
    BY <1>6, <1>8 DEF Start
  <2>3. Here(p)' = Here(p)
    <3>1. p[next] + Width \in Nat
      <4>1. p[next] \in Nat /\ Width \in Nat
        BY <1>1, <1>3, LaidIs, Bases
      <4> QED BY <4>1
    <3>2. Here(p)' = (p[next] + Width) + 0
      BY <1>6, <2>2 DEF Here
    <3> QED BY <2>1, <3>1, <3>2
  <2> QED BY <1>8, <2>2, <2>3 DEF There
<1>11. Fits(n)' /\ DOMAIN got' = {} /\ Len(got') = 0
  BY <1>4, <1>6, <1>8 DEF Fits, Limit
<1>12. /\ Len(received) <= Len(started) /\ There(p) <= Len(s)
       /\ \A i \in DOMAIN wire : wire[i] = s[Here(p) + i]
       /\ link = "open" /\ holders = {} => There(p) = Len(s)
       /\ link = "open" => \A m \in holders :
            /\ holders = {m}
            /\ There(p) + Len(unsent[m]) = Len(s)
            /\ \A i \in DOMAIN unsent[m] : unsent[m][i] = s[There(p) + i]
  BY <1>1 DEF Synced
<1>13. Synced(s, p)'
  BY <1>3, <1>6, <1>8, <1>10, <1>11, <1>12 DEF Synced
<1> QED BY <1>6, <1>9, <1>13 DEF InSync

\* What a reader that has as many bytes as the size says has read.
LEMMA BodyRead ==
  ASSUME TypeOK, NEW s \in Seq(Byte), NEW p \in Seq(Nat), Laid(s, p), Synced(s, p),
         phase = "body", Len(got) = size
  PROVE  LET next == Len(received) + 1 IN
         /\ next \in DOMAIN started /\ got = Payload(started[next])
         /\ Here(p) = p[next + 1]
<1> DEFINE next == Len(received) + 1
           n == started[next]
<1>1. next \in DOMAIN started /\ size = lens[n]
  BY DEF Synced
<1>2. n \in DOMAIN lens /\ lens[n] \in Nat /\ p[next] \in Nat /\ Width \in Nat
  BY <1>1, LaidIs, Bases
<1>3. Start(p) = p[next] + Width /\ Here(p) = p[next] + Width + lens[n]
  BY <1>1 DEF Start, Here
<1>4. Here(p) = p[next + 1]
  BY <1>1, <1>3 DEF Laid
<1>5. got = Payload(n)
  <2> DEFINE b == Payload(n)
  <2>1. b \in Seq(Byte) /\ Len(b) = lens[n]
    BY <1>2, Frames
  <2>2. got \in Seq(Byte) /\ DOMAIN got = 1 .. lens[n] /\ Len(got) = lens[n]
    BY <1>1 DEF TypeOK
  <2>3. ASSUME NEW i \in 1 .. lens[n] PROVE got[i] = b[i]
    <3>1. got[i] = s[p[next] + Width + i]
      BY <1>3, <2>2 DEF Synced
    <3>2. Frame(n)[Width + i] = b[i]
      BY <1>2, Frames
    <3>3. Width + i \in 1 .. Width + lens[n] /\ p[next] + Width + i = p[next] + (Width + i)
      BY <1>2
    <3>4. s[p[next] + (Width + i)] = Frame(n)[Width + i]
      BY <1>1, <3>3 DEF Laid
    <3> QED BY <3>1, <3>2, <3>3, <3>4
  <2> HIDE DEF b
  <2>4. got = b
    BY <2>1, <2>2, <2>3
  <2> QED BY <2>4 DEF b
<1> QED BY <1>1, <1>4, <1>5

LEMMA SyncReceived ==
  ASSUME TypeOK, HoldersWrite, InSync, SendMessageReceived
  PROVE  /\ InSync'
         /\ Len(received) + 1 \in DOMAIN started
         /\ got = Payload(started[Len(received) + 1])
<1>1. PICK s \in Seq(Byte), p \in Seq(Nat) : Laid(s, p) /\ Synced(s, p)
  BY DEF InSync
<1> DEFINE next == Len(received) + 1
<1>2. /\ phase = "body" /\ Len(got) = size
      /\ received' = Append(received, got) /\ phase' = "size" /\ got' = <<>>
      /\ UNCHANGED <<settings, writers, wire, link, size>>
  BY DEF SendMessageReceived
<1>3. /\ next \in DOMAIN started /\ got = Payload(started[next])
      /\ Here(p) = p[next + 1]
  BY <1>1, <1>2, BodyRead
<1>4. Next
  BY DEF Next, ReaderStep
<1>5. /\ lens' = lens /\ unsent' = unsent /\ holders' = holders /\ started' = started
      /\ link' = link /\ wire' = wire
  BY <1>2 DEF settings, writers
<1>6. Laid(s, p)'
  BY <1>1, <1>4, <1>5, StaysLaid
<1>7. Len(received') = next /\ next \in Nat /\ next <= Len(started)
  <2>1. received \in Seq(Seq(Byte)) /\ got \in Seq(Byte)
    BY DEF TypeOK
  <2> DEFINE S == Seq(Byte)
  <2> HIDE DEF S
  <2>2. received \in Seq(S) /\ got \in S
    BY <2>1 DEF S
  <2>3. Len(received') = next /\ Len(received) \in Nat
    BY <1>2, <2>2, Longer
  <2>4. next \in 1 .. Len(started) /\ Len(started) \in Nat
    BY <1>1, <1>3, LaidIs
  <2> QED BY <2>3, <2>4
<1>8. Start(p)' = Here(p) /\ Here(p)' = Here(p) /\ There(p)' = There(p)
  <2>1. Start(p)' = Here(p)
    BY <1>2, <1>3, <1>7 DEF Start
  <2>2. Here(p)' = Here(p) + 0 /\ Here(p) \in Nat
    <3>1. Start(p) \in Nat /\ Len(got) \in Nat /\ Here(p) = Start(p) + Len(got)
      BY <1>1, PlacesAre
    <3> QED BY <1>2, <2>1, <3>1 DEF Here
  <2>3. Here(p)' = Here(p)
    BY <2>2
  <2> QED BY <1>5, <2>1, <2>3 DEF There
<1>9. DOMAIN got' = {} /\ Len(got') = 0 /\ 0 <= Width
  BY <1>2, Bases
<1>10. /\ There(p) <= Len(s)
       /\ \A i \in DOMAIN wire : wire[i] = s[Here(p) + i]
       /\ link = "open" /\ holders = {} => There(p) = Len(s)
       /\ link = "open" => \A m \in holders :
            /\ holders = {m}
            /\ There(p) + Len(unsent[m]) = Len(s)
            /\ \A i \in DOMAIN unsent[m] : unsent[m][i] = s[There(p) + i]
  BY <1>1 DEF Synced
<1>11. Synced(s, p)'
  BY <1>2, <1>5, <1>7, <1>8, <1>9, <1>10 DEF Synced
<1> QED BY <1>3, <1>6, <1>11 DEF InSync

-----------------------------------------------------------------------------
(* What is received.                                                       *)

LEMMA FramesInit ==
  ASSUME Init
  PROVE  FramesInv
<1>1. TypeOK
  BY TypeInit
<1>2. IntactUntilUnfit /\ NoPanicUntilUnfit
  BY DEF Init, IntactUntilUnfit, NoPanicUntilUnfit
<1>3. PICK s \in Seq(Byte), p \in Seq(Nat) :
        s = <<>> /\ Len(s) = 0 /\ Len(p) = 1 /\ p[1] = 0
  <2>1. <<>> \in Seq(Byte) /\ <<0>> \in Seq(Nat) /\ Len(<<0>>) = 1 /\ <<0>>[1] = 0
    OBVIOUS
  <2> QED BY <2>1
<1>4. /\ lens = <<>> /\ started = <<>> /\ holders = {} /\ wire = <<>> /\ got = <<>>
      /\ received = <<>> /\ phase = "size"
  BY DEF Init
<1>5. Len(started) = 0 /\ Len(received) = 0 /\ Len(got) = 0 /\ Len(wire) = 0
      /\ DOMAIN started = {} /\ DOMAIN got = {} /\ DOMAIN wire = {}
  BY <1>4
<1>6. Laid(s, p)
  BY <1>3, <1>5 DEF Laid
<1>7. Start(p) = 0 /\ Here(p) = 0 /\ There(p) = 0
  <2>1. Start(p) = 0
    BY <1>3, <1>4, <1>5 DEF Start
  <2>2. Here(p) = 0
    BY <1>5, <2>1 DEF Here
  <2> QED BY <1>5, <2>1, <2>2 DEF There
<1>8. Synced(s, p)
  BY <1>3, <1>4, <1>5, <1>7, Bases DEF Synced
<1>9. InSync
  BY <1>6, <1>8 DEF InSync
<1> QED BY <1>2, <1>9 DEF FramesInv

\* What has been received stays, and a reader that is lost stays so.
LEMMA Remains ==
  ASSUME TypeOK, [Next]_vars
  PROVE  /\ \/ received' = received
            \/ /\ SendMessageReceived
               /\ DOMAIN received' = DOMAIN received \union {Len(received) + 1}
               /\ Len(received') = Len(received) + 1
               /\ received'[Len(received) + 1] = got
               /\ \A k \in DOMAIN received : received'[k] = received[k]
         /\ DOMAIN received = 1 .. Len(received) /\ Len(received) \in Nat
         /\ Lost => Lost'
<1>1. DOMAIN received = 1 .. Len(received) /\ Len(received) \in Nat
  BY DEF TypeOK
<1>2. received' = received \/ SendMessageReceived
  BY DEF Next, vars, reader, SendMessage, WriterStep, Lock, WriteByte, WriteFails,
         ReaderStep, ReadByte, ReadSize, ReadFails, LinkBreaks
<1>3. ASSUME SendMessageReceived
      PROVE  /\ DOMAIN received' = DOMAIN received \union {Len(received) + 1}
             /\ Len(received') = Len(received) + 1
             /\ received'[Len(received) + 1] = got
             /\ \A k \in DOMAIN received : received'[k] = received[k]
  <2>1. received \in Seq(Seq(Byte)) /\ got \in Seq(Byte)
    BY DEF TypeOK
  <2>2. received' = Append(received, got)
    BY <1>3 DEF SendMessageReceived
  <2> DEFINE S == Seq(Byte)
  <2> HIDE DEF S
  <2>3. received \in Seq(S) /\ got \in S
    BY <2>1 DEF S
  <2>4. Len(received') = Len(received) + 1
    BY <2>2, <2>3, Longer
  <2> QED BY <2>2, <2>3, <2>4, Spawned
<1>4. ASSUME Lost PROVE Lost'
  <2>1. PICK i \in 1 .. Len(received) + 1 : i \in DOMAIN started /\ ~Fits(started[i])
    BY <1>4 DEF Lost
  <2>2. i \in 1 .. Len(received') + 1
    BY <1>1, <1>2, <1>3
  <2>3. started[i] \in DOMAIN lens
    BY <2>1 DEF TypeOK
  <2>4. i \in DOMAIN started' /\ ~Fits(started[i])'
    BY <2>1, <2>3, Kept
  <2> QED BY <2>2, <2>4 DEF Lost
<1> QED BY <1>1, <1>2, <1>3, <1>4

\* Only a size that is negative makes the reader panic.
LEMMA Panics ==
  ASSUME TypeOK, HoldersWrite, FramesInv, [Next]_vars
  PROVE  NoPanicUntilUnfit'
<1>1. ASSUME NEW i \in DOMAIN started, ~Fits(started[i]) PROVE NoPanicUntilUnfit'
  <2>1. started[i] \in DOMAIN lens
    BY <1>1 DEF TypeOK
  <2>2. i \in DOMAIN started' /\ ~Fits(started[i])'
    BY <1>1, <2>1, Kept
  <2> QED BY <2>2 DEF NoPanicUntilUnfit
<1>2. CASE Lost
  BY <1>1, <1>2 DEF Lost
<1>3. CASE phase = "panicked"
  BY <1>1, <1>3 DEF FramesInv, NoPanicUntilUnfit
<1>4. CASE ~Lost /\ phase # "panicked" /\ ReadSize
  <2>1. InSync
    BY <1>4 DEF FramesInv, ReadSize
  <2>2. phase' = "body"
    BY <1>4, <2>1, SyncReadSize
  <2> QED BY <2>2 DEF NoPanicUntilUnfit
<1>5. CASE phase # "panicked" /\ ~ReadSize
  <2>1. phase' # "panicked"
    BY <1>5 DEF Next, vars, reader, SendMessage, WriterStep, Lock, WriteByte, WriteFails,
                ReaderStep, ReadByte, SendMessageReceived, ReadFails, LinkBreaks
  <2> QED BY <2>1 DEF NoPanicUntilUnfit
<1> QED BY <1>2, <1>3, <1>4, <1>5

LEMMA Intact ==
  ASSUME TypeOK, HoldersWrite, FramesInv, [Next]_vars
  PROVE  IntactUntilUnfit'
<1>1. \A i \in DOMAIN started :
        /\ started[i] \in DOMAIN lens /\ i \in DOMAIN started' /\ started'[i] = started[i]
        /\ Fits(started[i])' <=> Fits(started[i])
        /\ Payload(started[i])' = Payload(started[i])
  <2> TAKE i \in DOMAIN started
  <2>1. started[i] \in DOMAIN lens
    BY DEF TypeOK
  <2> QED BY <2>1, Kept
<1> SUFFICES ASSUME NEW k \in DOMAIN received',
                    \A i \in 1 .. k : i \in DOMAIN started' => Fits(started[i])'
             PROVE  k \in DOMAIN started' /\ received'[k] = Payload(started[k])'
  BY DEF IntactUntilUnfit
<1>2. \A i \in 1 .. k : i \in DOMAIN started => Fits(started[i])
  BY <1>1
<1>3. CASE k \in DOMAIN received
  <2>1. received'[k] = received[k]
    BY <1>3, Remains
  <2>2. k \in DOMAIN started /\ received[k] = Payload(started[k])
    BY <1>2, <1>3 DEF FramesInv, IntactUntilUnfit
  <2> QED BY <1>1, <2>1, <2>2
<1>4. CASE k \notin DOMAIN received
  <2>1. SendMessageReceived /\ k = Len(received) + 1 /\ received'[k] = got
    BY <1>4, Remains
  <2>2. ~Lost
    BY <1>2, <2>1 DEF Lost
  <2>3. InSync
    BY <2>1, <2>2 DEF FramesInv, SendMessageReceived
  <2>4. k \in DOMAIN started /\ got = Payload(started[k])
    BY <2>1, <2>3, SyncReceived
  <2> QED BY <1>1, <2>1, <2>4
<1> QED BY <1>3, <1>4

LEMMA FramesNext ==
  ASSUME TypeOK, HoldersWrite, FramesInv, [Next]_vars
  PROVE  FramesInv'
<1>1. ASSUME phase' \in {"size", "body"} PROVE Lost' \/ InSync'
  <2>1. CASE Lost
    BY <2>1, Remains
  <2>2. CASE ~Lost
    <3>1. phase \in {"size", "body"}
      BY <1>1 DEF Next, vars, reader, SendMessage, WriterStep, Lock, WriteByte, WriteFails,
                  ReaderStep, ReadByte, ReadSize, SendMessageReceived, ReadFails, LinkBreaks
    <3>2. InSync
      BY <2>2, <3>1 DEF FramesInv
    <3>3. CASE \E n \in Lengths : SendMessage(n)
      BY <3>2, <3>3, SyncSendMessage
    <3>4. CASE \E m \in DOMAIN lens : Lock(m)
      BY <3>2, <3>4, SyncLock
    <3>5. CASE \E m \in DOMAIN lens : WriteByte(m)
      BY <3>2, <3>5, SyncWriteByte
    <3>6. CASE LinkBreaks \/ \E m \in DOMAIN lens : WriteFails(m)
      BY <3>2, <3>6, SyncBroken
    <3>7. CASE ReadByte
      BY <3>2, <3>7, SyncReadByte
    <3>8. CASE ReadSize
      BY <2>2, <3>2, <3>8, SyncReadSize
    <3>9. CASE SendMessageReceived
      BY <3>2, <3>9, SyncReceived
    <3>10. CASE ReadFails
      BY <1>1, <3>10 DEF ReadFails
    <3>11. CASE UNCHANGED vars
      <4>1. PICK s \in Seq(Byte), p \in Seq(Nat) : Laid(s, p) /\ Synced(s, p)
        BY <3>2 DEF InSync
      <4>2. Laid(s, p)'
        BY <3>11, <4>1, StaysLaid DEF vars, writers
      <4>3. Synced(s, p)'
        BY <3>11, <4>1 DEF vars, settings, writers, reader, Synced, Start, Here, There,
                           Fits, Limit
      <4> QED BY <4>2, <4>3 DEF InSync
    <3> QED BY <3>3, <3>4, <3>5, <3>6, <3>7, <3>8, <3>9, <3>10, <3>11
            DEF Next, WriterStep, ReaderStep
  <2> QED BY <2>1, <2>2
<1> QED BY <1>1, Panics, Intact DEF FramesInv

\* The bytes read, those on the wire and those still to be written are next to
\* each other in a stream of whole frames, one for every task that has had the
\* mutex, until the reader meets a message that is too long for its size: what
\* the mutex of the write half is for.
THEOREM FramesInvariant == Spec => []FramesInv
<1>1. Spec => [](TypeOK /\ HoldersWrite)
  BY TypeInit, TypeNext, PTL DEF Spec
<1>2. TypeOK /\ HoldersWrite /\ FramesInv /\ [Next]_vars => FramesInv'
  BY FramesNext
<1> QED BY <1>1, <1>2, FramesInit, PTL DEF Spec

\* Up to the first message that is too long for its size, the messages are
\* received whole, unmixed and in the order in which their tasks got the mutex
\* (send_message, WriteType::write and ReadType::read), with sizes of any width,
\* in either byte order, signed or not, and any lengths and number of messages.
THEOREM FramesAreIntact == Spec => []IntactUntilUnfit
BY FramesInvariant, PTL DEF FramesInv

\* A reader does not panic over a size (read_value_to_usize and vec!) unless a
\* message was too long for it.
THEOREM ReadersPanicOverUnfitOnly == Spec => []NoPanicUntilUnfit
BY FramesInvariant, PTL DEF FramesInv
=============================================================================
