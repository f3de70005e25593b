----------------------------- MODULE WireProofs -----------------------------
(***************************************************************************)
(* Wire for every width of a byte and every size of the batch: nothing is  *)
(* written behind the array, and what was accepted is what the book reads. *)
(***************************************************************************)
EXTENDS Wire, Arithmetic, SequenceTheorems, TLAPS

Memory == [0..BatchSize + MessageSize - 1 -> Byte]

-----------------------------------------------------------------------------
(* Numbers and their digits.                                               *)

LEMMA Sizes ==
  /\ Base \in Nat /\ Base > 1
  /\ HalfWordSize \in Nat /\ HalfWordSize >= Base /\ HalfWordSize > 2
  /\ WordSize \in Nat /\ WordSize > 2 * HalfWordSize
<1>1. Base \in Nat /\ Base > 1
  BY WireAssumption
<1>2. HalfWordSize \in Nat /\ HalfWordSize >= 2 * Base
  BY <1>1 DEF HalfWordSize
<1>3. ASSUME NEW h \in Nat, h > 2 PROVE h * h \in Nat /\ h * h > 2 * h
  BY <1>3
<1>4. QED BY <1>1, <1>2, <1>3 DEF WordSize

-----------------------------------------------------------------------------
(* The layout.                                                             *)

LEMMA FieldBounds ==
  \A f \in Field : Offset[f] \in 0..40 /\ Width[f] \in 1..8
                    /\ Offset[f] + Width[f] <= 44
  BY DEF Field, Width, Offset

LEMMA PlacesApart ==
  \A f, g \in Field :
    f # g => \/ Offset[f] + Width[f] <= Offset[g]
             \/ Offset[g] + Width[g] <= Offset[f]
  BY DEF Field, Width, Offset

LEMMA PlacesCover == \A o \in 0..MessageSize - 1 : \E f \in Field : o \in Place(f)
  BY DEF Field, Width, Offset, Place, MessageSize

LEMMA FieldAtPlace ==
  ASSUME NEW f \in Field, NEW o \in Place(f)
  PROVE  FieldAt(o) = f
  <1>1. ASSUME NEW g \in Field, o \in Place(g), g # f
        PROVE  FALSE
    <2>1. /\ Offset[f] \in Int /\ Width[f] \in Int
          /\ Offset[g] \in Int /\ Width[g] \in Int
      BY FieldBounds
    <2>2. Offset[f] + Width[f] <= Offset[g] \/ Offset[g] + Width[g] <= Offset[f]
      BY <1>1, PlacesApart
    <2> QED
      BY <1>1, <2>1, <2>2 DEF Place
  <1>2. FieldAt(o) \in Field /\ o \in Place(FieldAt(o))
    BY Zenon DEF FieldAt
  <1> QED
    BY <1>1, <1>2

LEMMA FieldAtType ==
  ASSUME NEW o \in 0..MessageSize - 1
  PROVE  FieldAt(o) \in Field /\ o \in Place(FieldAt(o))
  BY PlacesCover DEF FieldAt

LEMMA ValueType ==
  ASSUME NEW f \in Field
  PROVE  [0..Width[f] - 1 -> Byte] \subseteq Value
  BY FieldBounds DEF Value

LEMMA MessageFields ==
  ASSUME NEW m \in Message, NEW f \in Field
  PROVE  m[f] \in [0..Width[f] - 1 -> Byte]
  BY DEF Message, Fields

LEMMA AsBytesType ==
  ASSUME NEW m \in Message
  PROVE  AsBytes(m) \in [0..MessageSize - 1 -> Byte]
  <1> SUFFICES ASSUME NEW o \in 0..MessageSize - 1
               PROVE  m[FieldAt(o)][o - Offset[FieldAt(o)]] \in Byte
    BY DEF AsBytes
  <1>1. FieldAt(o) \in Field /\ o - Offset[FieldAt(o)] \in 0..Width[FieldAt(o)] - 1
    <2>1. FieldAt(o) \in Field /\ o \in Place(FieldAt(o))
      BY FieldAtType
    <2>2. ASSUME NEW f \in Field, o \in Place(f)
          PROVE  o - Offset[f] \in 0..Width[f] - 1
      <3>1. Offset[f] \in Int /\ Width[f] \in Int
        BY FieldBounds
      <3> QED
        BY <2>2, <3>1 DEF Place
    <2> QED
      BY <2>1, <2>2
  <1> QED
    BY <1>1, MessageFields

LEMMA FromBytesType ==
  ASSUME NEW bytes \in [0..MessageSize - 1 -> Byte]
  PROVE  FromBytes(bytes) \in Message
  <1>1. ASSUME NEW f \in Field, NEW j \in 0..Width[f] - 1
        PROVE  bytes[Offset[f] + j] \in Byte
    <2>1. Offset[f] + j \in 0..MessageSize - 1
      BY FieldBounds DEF MessageSize
    <2> QED
      BY <2>1
  <1>2. \A f \in Field : [j \in 0..Width[f] - 1 |-> bytes[Offset[f] + j]]
                            \in [0..Width[f] - 1 -> Byte]
    BY <1>1
  <1> QED
    BY <1>2, ValueType DEF FromBytes, Message, Fields

\* as_bytes and from_bytes are inverse: the fields cover the message and none
\* overlaps another.
LEMMA RoundTrip ==
  ASSUME NEW m \in Message
  PROVE  FromBytes(AsBytes(m)) = m
  <1>1. ASSUME NEW f \in Field, NEW j \in 0..Width[f] - 1
        PROVE  AsBytes(m)[Offset[f] + j] = m[f][j]
    <2>1. Offset[f] + j \in Place(f) /\ Offset[f] + j \in 0..MessageSize - 1
      BY FieldBounds DEF Place, MessageSize
    <2>2. FieldAt(Offset[f] + j) = f /\ (Offset[f] + j) - Offset[f] = j
      BY <2>1, FieldAtPlace, FieldBounds
    <2> QED
      BY <2>1, <2>2 DEF AsBytes
  <1>2. ASSUME NEW f \in Field
        PROVE  [j \in 0..Width[f] - 1 |-> AsBytes(m)[Offset[f] + j]] = m[f]
    BY <1>1, MessageFields
  <1>3. m = [f \in Field |-> m[f]]
    BY DEF Message, Fields
  <1> QED
    BY <1>2, <1>3 DEF FromBytes
-----------------------------------------------------------------------------
(* One message added to a batch.                                           *)

LEMMA ReadType ==
  ASSUME NEW b \in Memory, b[0] * MessageSize < BatchSize, NEW k \in 0..b[0] - 1
  PROVE  /\ \A o \in 0..MessageSize - 1 : At(k) + o \in 1..BatchSize - 1
         /\ GetMessage(b, k) \in Message
  <1>1. b[0] \in Nat
    BY WireAssumption DEF Memory, Byte, MessageSize
  <1>2. \A o \in 0..MessageSize - 1 : At(k) + o \in 1..BatchSize - 1
    BY <1>1, WireAssumption DEF At, MessageSize
  <1>3. [o \in 0..MessageSize - 1 |-> b[At(k) + o]] \in [0..MessageSize - 1 -> Byte]
    <2>1. \A o \in 0..MessageSize - 1 : At(k) + o \in 0..BatchSize + MessageSize - 1
      BY <1>2, WireAssumption DEF MessageSize
    <2>2. \A o \in 0..MessageSize - 1 : b[At(k) + o] \in Byte
      BY <2>1 DEF Memory
    <2> QED
      BY <2>2
  <1> QED
    BY <1>2, <1>3, FromBytesType DEF GetMessage

LEMMA AllMessagesType ==
  ASSUME NEW b \in Memory, b[0] * MessageSize < BatchSize
  PROVE  GetAllMessages(b) \in Seq(Message) /\ Len(GetAllMessages(b)) = b[0]
  <1>1. b[0] \in Nat
    BY WireAssumption DEF Memory, Byte, MessageSize
  <1>2. \A k \in 1..b[0] : GetMessage(b, k - 1) \in Message
    BY <1>1, ReadType
  <1>3. GetAllMessages(b) \in [1..b[0] -> Message]
    BY <1>2 DEF GetAllMessages
  <1> QED
    BY <1>1, <1>3

\* add_message on a batch with room: the count grows by one without wrapping, the
\* write stays inside the array, what was there reads as before and the new
\* message reads as it was written.
LEMMA AddedMessage ==
  ASSUME NEW b \in Memory, HasRoom(b), NEW m \in Message
  PROVE  /\ AddMessage(b, m) \in Memory
         /\ AddMessage(b, m)[0] = b[0] + 1
         /\ AddMessage(b, m)[0] * MessageSize < BatchSize
         /\ \A i \in BatchSize..BatchSize + MessageSize - 1 : AddMessage(b, m)[i] = b[i]
         /\ GetAllMessages(AddMessage(b, m)) = Append(GetAllMessages(b), m)
  <1> DEFINE c == AddMessage(b, m)
             n == b[0]
  <1>1. n \in Nat /\ (n + 1) * 44 < BatchSize /\ n + 1 \in Byte
    BY WireAssumption DEF Memory, Byte, HasRoom, MessageSize
  <1>2. DOMAIN b = 0..BatchSize + 43 /\ \A i \in 0..BatchSize + 43 : b[i] \in Byte
    BY DEF Memory, MessageSize
  <1>3. AsBytes(m) \in [0..43 -> Byte]
    BY AsBytesType DEF MessageSize
  <1>4. (n + 1) % Base = n + 1
    BY <1>1, WireAssumption DEF Byte
  <1>5. /\ DOMAIN c = 0..BatchSize + 43
        /\ c[0] = n + 1
        /\ \A i \in 1..BatchSize + 43 :
             c[i] = IF i \in n * 44 + 1..n * 44 + 44 THEN AsBytes(m)[i - (n * 44 + 1)]
                                                     ELSE b[i]
    <2>1. c = [i \in 0..BatchSize + 43 |->
                 IF i = 0 THEN n + 1
                 ELSE IF i \in n * 44 + 1..n * 44 + 1 + 44 - 1
                      THEN AsBytes(m)[i - (n * 44 + 1)] ELSE b[i]]
      BY <1>2, <1>4 DEF AddMessage, At, MessageSize
    <2>2. n * 44 + 1 + 44 - 1 = n * 44 + 44 /\ BatchSize \in Nat
      BY <1>1, WireAssumption
    <2> HIDE DEF c, n
    <2> QED
      BY <2>1, <2>2
  <1>a. c = [i \in 0..BatchSize + 43 |-> c[i]]
    BY <1>2 DEF AddMessage
  <1>b. n = b[0] /\ BatchSize \in Nat
    BY WireAssumption
  <1>c. HasRoom(b) /\ c = AddMessage(b, m)
    OBVIOUS
  <1> HIDE DEF c, n
  <1>6. c \in Memory
    <2>1. ASSUME NEW i \in 1..BatchSize + 43
          PROVE  c[i] \in Byte
      <3>1. CASE i \in n * 44 + 1..n * 44 + 44
        <4>1. i - (n * 44 + 1) \in 0..43
          BY <3>1, <1>1
        <4> QED
          BY <4>1, <3>1, <1>3, <1>5, ZenonT(40)
      <3>2. CASE i \notin n * 44 + 1..n * 44 + 44
        BY <3>2, <1>2, <1>5, <1>b
      <3> QED
        BY <3>1, <3>2
    <2>2. \A i \in 0..BatchSize + 43 : c[i] \in Byte
      BY <2>1, <1>1, <1>5, <1>b
    <2>3. BatchSize + MessageSize - 1 = BatchSize + 43
      BY <1>b DEF MessageSize
    <2> QED
      BY <2>2, <2>3, <1>a DEF Memory
  <1>7. ASSUME NEW i \in BatchSize..BatchSize + 43
        PROVE  c[i] = b[i]
    BY <1>1, <1>5, <1>b
  <1>8. ASSUME NEW k \in 0..n - 1
        PROVE  GetMessage(c, k) = GetMessage(b, k)
    <2>1. ASSUME NEW o \in 0..43
          PROVE  c[At(k) + o] = b[At(k) + o]
      <3>1. At(k) + o = k * 44 + 1 + o /\ k * 44 + 1 + o \in 1..n * 44
        BY <1>1 DEF At, MessageSize
      <3>2. k * 44 + 1 + o \in 1..BatchSize + 43
              /\ k * 44 + 1 + o \notin n * 44 + 1..n * 44 + 44
        BY <3>1, <1>1, <1>b
      <3> QED
        BY <3>1, <3>2, <1>5
    <2>2. [o \in 0..43 |-> c[At(k) + o]] = [o \in 0..43 |-> b[At(k) + o]]
      BY <2>1
    <2>3. k \in 0..c[0] - 1
      BY <1>1, <1>5
    <2> QED
      BY <2>2, <2>3, <1>b DEF GetMessage, MessageSize
  <1>9. GetMessage(c, n) = m
    <2>1. ASSUME NEW o \in 0..43
          PROVE  c[At(n) + o] = AsBytes(m)[o]
      <3>1. At(n) + o = n * 44 + 1 + o
        BY <1>1 DEF At, MessageSize
      <3>2. /\ n * 44 + 1 + o \in 1..BatchSize + 43
            /\ n * 44 + 1 + o \in n * 44 + 1..n * 44 + 44
            /\ (n * 44 + 1 + o) - (n * 44 + 1) = o
        BY <1>1, <1>b
      <3> QED
        BY <3>1, <3>2, <1>5
    <2>2. [o \in 0..43 |-> c[At(n) + o]] = AsBytes(m)
      BY <2>1, <1>3
    <2>3. n \in 0..c[0] - 1
      BY <1>1, <1>5
    <2> QED
      BY <2>2, <2>3, <1>1, RoundTrip DEF GetMessage, MessageSize
  <1>10. GetAllMessages(c) = Append(GetAllMessages(b), m)
    <2>1. b[0] * MessageSize < BatchSize /\ c[0] * MessageSize < BatchSize
      BY <1>1, <1>5, <1>b DEF MessageSize
    <2>2. /\ GetAllMessages(b) \in Seq(Message) /\ Len(GetAllMessages(b)) = n
          /\ GetAllMessages(c) \in Seq(Message) /\ Len(GetAllMessages(c)) = n + 1
      BY <2>1, <1>5, <1>6, <1>b, AllMessagesType
    <2>3. /\ Append(GetAllMessages(b), m) \in Seq(Message)
          /\ Len(Append(GetAllMessages(b), m)) = n + 1
      BY <2>2
    <2>4. ASSUME NEW k \in 1..n + 1
          PROVE  GetAllMessages(c)[k] = Append(GetAllMessages(b), m)[k]
      <3>1. GetAllMessages(c)[k] = GetMessage(c, k - 1)
        BY <1>1, <1>5 DEF GetAllMessages
      <3>2. CASE k = n + 1
        <4>1. k - 1 = n /\ Append(GetAllMessages(b), m)[k] = m
          BY <3>2, <1>1, <2>2
        <4> QED
          BY <3>1, <4>1, <1>9
      <3>3. CASE k # n + 1
        <4>1. k \in 1..n /\ k - 1 \in 0..n - 1
          BY <3>3, <1>1
        <4>2. Append(GetAllMessages(b), m)[k] = GetAllMessages(b)[k]
          BY <4>1, <2>2
        <4>3. GetAllMessages(b)[k] = GetMessage(b, k - 1)
          BY <4>1, <1>b DEF GetAllMessages
        <4> QED
          BY <3>1, <4>1, <4>2, <4>3, <1>8
      <3> QED
        BY <3>2, <3>3
    <2> QED
      BY <2>2, <2>3, <2>4, SeqEqual
  <1> QED
    <2>1. BatchSize + MessageSize - 1 = BatchSize + 43 /\ c[0] * MessageSize < BatchSize
      BY <1>1, <1>5, <1>b DEF MessageSize
    <2> QED
      BY <2>1, <1>5, <1>6, <1>7, <1>10, <1>b, <1>c

LEMMA EmptyBatchMessages ==
  /\ EmptyBatch \in Memory /\ EmptyBatch[0] = 0
  /\ HasRoom(EmptyBatch)
  /\ \A i \in BatchSize..BatchSize + MessageSize - 1 : EmptyBatch[i] = 0
  /\ GetAllMessages(EmptyBatch) = <<>>
  <1>1. EmptyBatch \in Memory /\ EmptyBatch[0] = 0
    BY WireAssumption DEF EmptyBatch, Memory, Byte, MessageSize
  <1>2. \A i \in BatchSize..BatchSize + MessageSize - 1 : EmptyBatch[i] = 0
    BY WireAssumption DEF EmptyBatch, MessageSize
  <1>3. HasRoom(EmptyBatch)
    BY <1>1, WireAssumption DEF HasRoom, MessageSize
  <1>4. GetAllMessages(EmptyBatch) = <<>>
    <2>1. EmptyBatch[0] * MessageSize < BatchSize
      BY <1>1, WireAssumption DEF MessageSize
    <2> QED
      BY <2>1, <1>1, AllMessagesType, EmptySeq
  <1> QED
    BY <1>1, <1>2, <1>3, <1>4

LEMMA WeightType == \A j \in Nat : Weight(j) \in Nat \ {0}
<1>1. /\ HalfWordSize * Base \in Nat \ {0} /\ HalfWordSize \in Nat \ {0}
      /\ Base \in Nat \ {0} /\ WordSize \in Nat \ {0}
  BY Sizes
<1> DEFINE w == <<1, Base, HalfWordSize, HalfWordSize * Base>>
<1>2. \A i \in 1..4 : w[i] \in Nat \ {0}
  BY <1>1
<1> HIDE DEF w
<1>3. ASSUME NEW j \in Nat PROVE /\ w[(j % 4) + 1] \in Nat \ {0}
                                 /\ WordSize * w[(j % 4) + 1] \in Nat \ {0}
  <2>1. (j % 4) + 1 \in 1..4
    OBVIOUS
  <2>2. w[(j % 4) + 1] \in Nat \ {0}
    BY <1>2, <2>1
  <2>3. QED BY <1>1, <2>2
<1>4. QED BY <1>3 DEF Weight, w

\* The digits of a word are its bytes.
LEMMA WordOfBytes ==
  ASSUME NEW n \in 0..WordSize - 1
  PROVE  Word(Bytes(n, 4), 0) = n
<1> DEFINE q1 == n \div Base
           q2 == q1 \div Base
           q3 == q2 \div Base
<1>1. Base \in Nat \ {0} /\ n \in Nat
  BY Sizes
<1>2. /\ n = Base * q1 + (n % Base) /\ q1 \in Int /\ n % Base \in 0..Base - 1
  BY <1>1, Division
<1>3. q1 = Base * q2 + (q1 % Base) /\ q2 \in Int /\ q1 % Base \in 0..Base - 1
  BY <1>1, <1>2, Division
<1>4. q2 = Base * q3 + (q2 % Base) /\ q3 \in Int /\ q2 % Base \in 0..Base - 1
  BY <1>1, <1>3, Division
<1>5. q2 = n \div HalfWordSize /\ HalfWordSize \in Nat \ {0}
  <2> HIDE DEF q2
  <2>1. n \div (Base * Base) = q1 \div Base /\ Base * Base \in Nat \ {0}
    BY <1>1, DivideTwice, ZenonT(40)
  <2>2. QED BY <2>1 DEF HalfWordSize, q2
<1>6. q3 = n \div (HalfWordSize * Base)
  <2>1. n \div (HalfWordSize * Base) = (n \div HalfWordSize) \div Base
    BY <1>1, <1>5, DivideTwice, ZenonT(40)
  <2>2. QED BY <1>5, <2>1
<1>7. q3 \in 0..Base - 1
  <2> HIDE DEF q1, q2, q3
  <2>1. HalfWordSize * Base \in Nat \ {0} /\ HalfWordSize * Base \in Int
    BY <1>1, <1>5
  <2> DEFINE d == HalfWordSize * Base
             r == n % d
  <2>2. n = d * q3 + r /\ r \in 0..d - 1
    <3>1. d \in Nat \ {0} /\ q3 = n \div d
      BY <1>6, <2>1
    <3> HIDE DEF d
    <3>2. QED BY <1>1, <3>1, Division DEF r
  <2>3. WordSize = d * Base
    BY <1>1, <1>5 DEF WordSize, HalfWordSize
  <2> HIDE DEF d, r
  <2>4. d \in Nat \ {0}
    BY <2>1 DEF d
  <2>5. ~(q3 >= Base)
    <3>1. ASSUME q3 >= Base PROVE d * q3 >= d * Base
      BY <1>1, <1>4, <2>4, <3>1
    <3>2. d * q3 \in Int /\ d * Base \in Int
      BY <1>1, <1>4, <2>4
    <3>3. QED BY <2>2, <2>3, <2>4, <3>1, <3>2
  <2>6. ~(q3 < 0)
    <3>1. ASSUME q3 < 0 PROVE d * q3 <= -d
      BY <1>4, <2>4, <3>1
    <3>2. d * q3 \in Int
      BY <1>4, <2>4
    <3>3. QED BY <1>1, <2>2, <2>4, <3>1, <3>2
  <2>7. QED BY <1>1, <1>4, <2>5, <2>6
<1>8. q3 % Base = q3
  <2> HIDE DEF q3
  <2>1. QED BY <1>1, <1>7
<1> DEFINE v == Bytes(n, 4)
<1>9. v[0] = n % Base /\ v[1] = q1 % Base /\ v[2] = q2 % Base /\ v[3] = q3 % Base
  <2>1. /\ Weight(0) = 1 /\ Weight(1) = Base /\ Weight(2) = HalfWordSize
        /\ Weight(3) = HalfWordSize * Base
    BY DEF Weight
  <2>2. n \div 1 = n
    BY <1>1
  <2> HIDE DEF q1, q2, q3
  <2>3. /\ v[0] = (n \div Weight(0)) % Base /\ v[1] = (n \div Weight(1)) % Base
        /\ v[2] = (n \div Weight(2)) % Base /\ v[3] = (n \div Weight(3)) % Base
    BY DEF Bytes
  <2>4. n \div Base = q1
    BY DEF q1
  <2>5. QED BY <1>5, <1>6, <2>1, <2>2, <2>3, <2>4
<1> HIDE DEF q1, q2, q3, v
<1>10. Word(v, 0) = (n % Base) + Base * ((q1 % Base) + Base * ((q2 % Base) + Base * q3))
  BY <1>8, <1>9 DEF Word
<1>11. (q2 % Base) + Base * q3 = q2
  BY <1>4, <1>1
<1>12. (q1 % Base) + Base * q2 = q1
  BY <1>3, <1>1
<1>13. (n % Base) + Base * q1 = n
  BY <1>2, <1>1
<1>14. QED BY <1>10, <1>11, <1>12, <1>13 DEF v

\* Different words have different bytes.
LEMMA BytesApart ==
  ASSUME NEW n \in 0..WordSize - 1, NEW k \in 0..WordSize - 1, Bytes(n, 4) = Bytes(k, 4)
  PROVE  n = k
BY WordOfBytes

LEMMA DigitUnique ==
  ASSUME NEW x \in Int, NEW y \in Int, NEW b \in 0..Base - 1, NEW c \in 0..Base - 1,
         b + Base * x = c + Base * y
  PROVE  b = c /\ x = y
<1>1. Base \in Nat \ {0} /\ Base * x \in Int /\ Base * y \in Int
  BY Sizes
<1>2. Base * x + b = Base * y + c
  BY <1>1
<1>3. QED BY <1>1, <1>2, QuotientUnique

\* A word is below WordSize, and other bytes make another word.
LEMMA WordApart ==
  ASSUME NEW v, NEW at \in Nat, \A j \in at..at + 3 : v[j] \in Byte
  PROVE  /\ Word(v, at) \in 0..WordSize - 1
         /\ \A u : /\ \A j \in at..at + 3 : u[j] \in Byte
                  /\ Word(u, at) = Word(v, at)
                  => \A j \in at..at + 3 : u[j] = v[j]
<1>1. Base \in Nat \ {0, 1} /\ \A x \in Byte : x \in 0..Base - 1
  BY WireAssumption DEF Byte
<1>2. ASSUME NEW n \in Nat \ {0}, NEW x \in 0..n - 1, NEW b \in 0..Base - 1
      PROVE  b + Base * x \in 0..Base * n - 1 /\ Base * n \in Nat \ {0}
  <2>1. Base * x <= Base * (n - 1)
    BY <1>1
  <2>2. Base * (n - 1) = Base * n - Base /\ Base * x \in Nat /\ Base * n \in Nat \ {0}
    BY <1>1
  <2>3. QED BY <1>1, <2>1, <2>2
<1> DEFINE H2(z) == z[at + 2] + Base * z[at + 3]
           H1(z) == z[at + 1] + Base * H2(z)
<1>3. ASSUME NEW z, \A j \in at..at + 3 : z[j] \in Byte
      PROVE  /\ z[at] \in 0..Base - 1 /\ z[at + 1] \in 0..Base - 1
             /\ z[at + 2] \in 0..Base - 1 /\ z[at + 3] \in 0..Base - 1
             /\ H2(z) \in 0..Base * Base - 1
             /\ H1(z) \in 0..Base * (Base * Base) - 1
             /\ Word(z, at) \in 0..WordSize - 1
             /\ Word(z, at) = z[at] + Base * H1(z)
  <2>1. /\ z[at] \in 0..Base - 1 /\ z[at + 1] \in 0..Base - 1
        /\ z[at + 2] \in 0..Base - 1 /\ z[at + 3] \in 0..Base - 1
    BY <1>1, <1>3
  <2>2. H2(z) \in 0..Base * Base - 1 /\ Base * Base \in Nat \ {0}
    BY <1>1, <1>2, <2>1
  <2> HIDE DEF H2
  <2>3. H1(z) \in 0..Base * (Base * Base) - 1 /\ Base * (Base * Base) \in Nat \ {0}
    BY <1>2, <2>1, <2>2
  <2> HIDE DEF H1
  <2>4. z[at] + Base * H1(z) \in 0..Base * (Base * (Base * Base)) - 1
    BY <1>2, <2>1, <2>3
  <2>5. Base * (Base * (Base * Base)) = WordSize
    BY <1>1 DEF WordSize, HalfWordSize
  <2>6. Word(z, at) = z[at] + Base * H1(z)
    BY DEF Word, H1, H2
  <2>7. QED BY <2>1, <2>2, <2>3, <2>4, <2>5, <2>6
<1>4. ASSUME NEW u, \A j \in at..at + 3 : u[j] \in Byte, Word(u, at) = Word(v, at)
      PROVE  \A j \in at..at + 3 : u[j] = v[j]
  <2>1. u[at] = v[at] /\ H1(u) = H1(v)
    <3> HIDE DEF H1
    <3>1. H1(u) \in Int /\ H1(v) \in Int
      BY <1>3, <1>4
    <3>2. /\ u[at] + Base * H1(u) = v[at] + Base * H1(v)
          /\ u[at] \in 0..Base - 1 /\ v[at] \in 0..Base - 1
      BY <1>3, <1>4
    <3>3. QED BY DigitUnique, <3>1, <3>2
  <2>2. u[at + 1] = v[at + 1] /\ H2(u) = H2(v)
    <3> HIDE DEF H2
    <3>1. H2(u) \in Int /\ H2(v) \in Int
      BY <1>3, <1>4
    <3>2. u[at + 1] \in 0..Base - 1 /\ v[at + 1] \in 0..Base - 1
      BY <1>3, <1>4
    <3>3. QED BY DigitUnique, <2>1, <3>1, <3>2
  <2>3. u[at + 2] = v[at + 2] /\ u[at + 3] = v[at + 3]
    <3>1. /\ u[at + 2] \in 0..Base - 1 /\ v[at + 2] \in 0..Base - 1
          /\ u[at + 3] \in 0..Base - 1 /\ v[at + 3] \in 0..Base - 1
      BY <1>3, <1>4
    <3>2. QED BY DigitUnique, <2>2, <3>1
  <2>4. at..at + 3 = {at, at + 1, at + 2, at + 3}
    OBVIOUS
  <2>5. QED BY <2>1, <2>2, <2>3, <2>4
<1>5. Word(v, at) \in 0..WordSize - 1
  BY <1>3
<1>6. QED BY <1>4, <1>5

LEMMA BytesType ==
  ASSUME NEW n \in Int, NEW w \in Nat
  PROVE  Bytes(n, w) \in [0..w - 1 -> Byte]
  <1>1. ASSUME NEW j \in 0..w - 1 PROVE (n \div Weight(j)) % Base \in Byte
    <2>1. Weight(j) \in Nat \ {0}
      BY WeightType
    <2>2. n \div Weight(j) \in Int
      BY <2>1, Division
    <2>3. Base \in Nat \ {0}
      BY Sizes
    <2>4. QED BY <2>2, <2>3, Division DEF Byte
  <1>2. QED BY <1>1 DEF Bytes

LEMMA WidthsOf ==
  /\ Field = {"userId", "side", "timeInForce", "price", "quantity", "timestamp",
              "seq_number", "transaction_id", "checksum"}
  /\ Width["userId"] - 1 = 3 /\ Width["timeInForce"] - 1 = 0
  /\ Width["price"] - 1 = 7 /\ Width["quantity"] - 1 = 1 /\ Width["timestamp"] - 1 = 7
  /\ Width["seq_number"] - 1 = 7 /\ Width["transaction_id"] - 1 = 7
  /\ Width["checksum"] - 1 = 3
  BY DEF Field, Width

\* All fields of m but the checksum are bytes of their widths.
Typed(m) == \A f \in Field \ {"checksum"} : m[f] \in [0..Width[f] - 1 -> Byte]

LEMMA TypedFields ==
  ASSUME NEW m, Typed(m)
  PROVE  /\ m.userId \in [0..3 -> Byte] /\ m.side \in [0..0 -> Byte]
         /\ m.timeInForce \in [0..0 -> Byte] /\ m.quantity \in [0..1 -> Byte]
         /\ m.price \in [0..7 -> Byte] /\ m.timestamp \in [0..7 -> Byte]
         /\ m.seq_number \in [0..7 -> Byte] /\ m.transaction_id \in [0..7 -> Byte]
<1>1. Width["side"] - 1 = 0
  BY DEF Width
<1>2. QED BY <1>1, WidthsOf DEF Typed

SideOf(m) == IF m.side[0] # 0 THEN 1 ELSE 0

\* The sum calculateChecksum computes in words that wrap around.
WordSum(m) ==
  Word(m.userId, 0) + SideOf(m) + m.timeInForce[0] + Halves(m.price)
    + SignExtended(m.quantity) + Halves(m.timestamp) + Halves(m.seq_number)
    + Halves(m.transaction_id)

LEMMA ChecksumIsSum == \A m : calculateChecksum(m) = WordSum(m) % WordSize
BY DEF calculateChecksum, WordSum, SideOf

LEMMA HalvesType ==
  ASSUME NEW v \in [0..7 -> Byte]
  PROVE  /\ Halves(v) \in Int
         /\ Word(v, 0) \in 0..WordSize - 1 /\ Word(v, 4) \in 0..WordSize - 1
<1>1. /\ \A j \in 0..0 + 3 : v[j] \in Byte
      /\ \A j \in 4..4 + 3 : v[j] \in Byte
  OBVIOUS
<1>2. Word(v, 0) \in 0..WordSize - 1 /\ Word(v, 4) \in 0..WordSize - 1
  BY <1>1, WordApart
<1>3. QED BY <1>2, Sizes DEF Halves

LEMMA SignType ==
  ASSUME NEW v \in [0..1 -> Byte]
  PROVE  /\ v[0] + Base * v[1] \in 0..HalfWordSize - 1
         /\ SignExtended(v) \in 0..WordSize - 1
<1>1. Base \in Nat \ {0} /\ v[0] \in 0..Base - 1 /\ v[1] \in 0..Base - 1
  BY Sizes DEF Byte
<1>2. Base * v[1] <= Base * (Base - 1) /\ Base * v[1] \in Nat
  BY <1>1
<1>3. Base * (Base - 1) = HalfWordSize - Base
  BY <1>1 DEF HalfWordSize
<1>4. v[0] + Base * v[1] \in 0..HalfWordSize - 1
  BY <1>1, <1>2, <1>3, Sizes
<1> DEFINE x == v[0] + Base * v[1]
<1>5. SignExtended(v) = x + 0 \/ SignExtended(v) = x + (WordSize - HalfWordSize)
  BY DEF SignExtended
<1> HIDE DEF x
<1>6. x \in 0..HalfWordSize - 1
  BY <1>4 DEF x
<1>7. SignExtended(v) \in 0..WordSize - 1
  BY <1>5, <1>6, Sizes
<1>8. QED BY <1>4, <1>7

LEMMA TermTypes ==
  ASSUME NEW m, Typed(m)
  PROVE  /\ Word(m.userId, 0) \in 0..WordSize - 1 /\ SideOf(m) \in {0, 1}
         /\ m.timeInForce[0] \in Byte /\ m.timeInForce[0] \in Int
         /\ Halves(m.price) \in Int /\ SignExtended(m.quantity) \in 0..WordSize - 1
         /\ Halves(m.timestamp) \in Int /\ Halves(m.seq_number) \in Int
         /\ Halves(m.transaction_id) \in Int
<1>1. \A j \in 0..0 + 3 : m.userId[j] \in Byte
  BY TypedFields
<1>2. Word(m.userId, 0) \in 0..WordSize - 1
  BY <1>1, WordApart
<1>3. m.timeInForce[0] \in Byte /\ m.timeInForce[0] \in Int
  BY TypedFields DEF Byte
<1>4. SideOf(m) \in {0, 1}
  BY DEF SideOf
<1>5. QED BY <1>2, <1>3, <1>4, TypedFields, HalvesType, SignType

LEMMA ChecksumType ==
  ASSUME NEW m, Typed(m)
  PROVE  WordSum(m) \in Int /\ calculateChecksum(m) \in 0..WordSize - 1
<1>1. WordSum(m) \in Int
  BY TermTypes, Sizes DEF WordSum
<1>2. WordSize \in Nat \ {0}
  BY Sizes
<1>3. QED BY <1>1, <1>2, Division, ChecksumIsSum

\* Two numbers that no multiple of WordSize lies between.
Apart(x, y) == x # y /\ -WordSize < x - y /\ x - y < WordSize

LEMMA RemaindersApart ==
  ASSUME NEW x \in Int, NEW y \in Int, Apart(x, y)
  PROVE  x % WordSize # y % WordSize
<1> SUFFICES ASSUME x % WordSize = y % WordSize PROVE FALSE
  OBVIOUS
<1> DEFINE a == x \div WordSize
           b == y \div WordSize
           r == x % WordSize
<1>1. WordSize \in Nat \ {0}
  BY Sizes
<1>2. /\ a \in Int /\ b \in Int /\ r \in 0..WordSize - 1
      /\ x = WordSize * a + r /\ y = WordSize * b + r
  BY <1>1, Division
<1> HIDE DEF a, b, r
<1>3. WordSize * (a - b) = WordSize * a - WordSize * b /\ a - b \in Int
  BY <1>1, <1>2
<1>4. WordSize * a \in Int /\ WordSize * b \in Int
  BY <1>1, <1>2
<1>5. WordSize * (a - b) = x - y
  BY <1>2, <1>3, <1>4
<1>6. a - b = 0
  BY <1>1, <1>3, <1>5, NoMultiple DEF Apart
<1>7. a = b
  BY <1>2, <1>6
<1>8. QED BY <1>2, <1>4, <1>7 DEF Apart

LEMMA WordsDiffer ==
  ASSUME NEW x \in 0..WordSize - 1, NEW y \in 0..WordSize - 1, x # y
  PROVE  Apart(x, y)
BY Sizes DEF Apart

LEMMA HalvesApart ==
  ASSUME NEW u \in [0..7 -> Byte], NEW v \in [0..7 -> Byte], NEW j \in 0..7, u[j] # v[j],
         \A i \in 0..7 : i # j => u[i] = v[i]
  PROVE  Apart(Halves(u), Halves(v))
<1>1. /\ \A i \in 0..0 + 3 : u[i] \in Byte /\ v[i] \in Byte
      /\ \A i \in 4..4 + 3 : u[i] \in Byte /\ v[i] \in Byte
  OBVIOUS
<1>2. /\ Word(u, 0) \in 0..WordSize - 1 /\ Word(u, 4) \in 0..WordSize - 1
      /\ Word(v, 0) \in 0..WordSize - 1 /\ Word(v, 4) \in 0..WordSize - 1
  BY HalvesType
<1>3. CASE j <= 3
  <2>1. Word(u, 4) = Word(v, 4)
    BY <1>3 DEF Word
  <2>2. Word(u, 0) # Word(v, 0)
    BY <1>1, <1>3, WordApart
  <2>3. QED BY <1>2, <2>1, <2>2, Sizes DEF Halves, Apart
<1>4. CASE j >= 4
  <2>1. Word(u, 0) = Word(v, 0)
    BY <1>4 DEF Word
  <2>2. Word(u, 4) # Word(v, 4)
    BY <1>1, <1>4, WordApart
  <2>3. QED BY <1>2, <2>1, <2>2, Sizes DEF Halves, Apart
<1>5. QED BY <1>3, <1>4

LEMMA SignsApart ==
  ASSUME NEW u \in [0..1 -> Byte], NEW v \in [0..1 -> Byte], NEW j \in 0..1, u[j] # v[j]
  PROVE  Apart(SignExtended(u), SignExtended(v))
<1> DEFINE x == u[0] + Base * u[1]
           y == v[0] + Base * v[1]
<1>1. /\ Base \in Nat \ {0} /\ u[0] \in 0..Base - 1 /\ u[1] \in 0..Base - 1
      /\ v[0] \in 0..Base - 1 /\ v[1] \in 0..Base - 1
  BY Sizes DEF Byte
<1>2. x # y
  <2>1. Base * u[1] \in Int /\ Base * v[1] \in Int
    BY <1>1
  <2>2. ASSUME x = y PROVE u[0] = v[0] /\ u[1] = v[1]
    <3>1. /\ u[0] \in 0..Base - 1 /\ u[1] \in Int /\ v[0] \in 0..Base - 1 /\ v[1] \in Int
          /\ u[0] + Base * u[1] = v[0] + Base * v[1]
      BY <1>1, <2>2
    <3>2. QED BY <3>1, DigitUnique
  <2>3. QED BY <2>2
<1>3. /\ x \in 0..HalfWordSize - 1 /\ y \in 0..HalfWordSize - 1
      /\ SignExtended(u) \in 0..WordSize - 1 /\ SignExtended(v) \in 0..WordSize - 1
  BY SignType
<1>4. /\ SignExtended(u) = x + 0 \/ SignExtended(u) = x + (WordSize - HalfWordSize)
      /\ SignExtended(v) = y + 0 \/ SignExtended(v) = y + (WordSize - HalfWordSize)
  BY DEF SignExtended
<1> HIDE DEF x, y
<1>5. SignExtended(u) # SignExtended(v)
  BY <1>2, <1>3, <1>4, Sizes
<1>6. QED BY <1>3, <1>5, WordsDiffer

\* One byte changed, and the checksum is another one.
LEMMA ChecksumApart ==
  ASSUME NEW m, Typed(m), NEW n, Typed(n), NEW f \in Field \ {"checksum"},
         NEW j \in 0..Width[f] - 1, n[f][j] # m[f][j],
         \A i \in 0..Width[f] - 1 : i # j => n[f][i] = m[f][i],
         \A g \in Field \ {"checksum"} : g # f => n[g] = m[g],
         f = "side" => n[f][j] \in {0, 1} /\ m[f][j] \in {0, 1}
  PROVE  calculateChecksum(n) # calculateChecksum(m)
<1>1. /\ f # "userId" => n.userId = m.userId
      /\ f # "side" => n.side = m.side
      /\ f # "timeInForce" => n.timeInForce = m.timeInForce
      /\ f # "price" => n.price = m.price
      /\ f # "quantity" => n.quantity = m.quantity
      /\ f # "timestamp" => n.timestamp = m.timestamp
      /\ f # "seq_number" => n.seq_number = m.seq_number
      /\ f # "transaction_id" => n.transaction_id = m.transaction_id
  BY WidthsOf
<1>2. \A x, y, k \in Int : Apart(x + k, y + k) <=> Apart(x, y)
  BY DEF Apart
<1> DEFINE T(x) == <<Word(x.userId, 0), SideOf(x), x.timeInForce[0], Halves(x.price),
                     SignExtended(x.quantity), Halves(x.timestamp), Halves(x.seq_number),
                     Halves(x.transaction_id)>>
<1>3. \E k \in 1..8 : /\ Apart(T(n)[k], T(m)[k])
                      /\ \A i \in 1..8 : i # k => T(n)[i] = T(m)[i]
  <2>1. CASE f = "userId"
    <3>1. j \in 0..3
      BY <2>1, WidthsOf
    <3>2. /\ \A i \in 0..0 + 3 : n.userId[i] \in Byte /\ m.userId[i] \in Byte
          /\ n.userId[j] # m.userId[j]
      BY <2>1, TypedFields
    <3>3. Word(n.userId, 0) # Word(m.userId, 0)
      BY <3>1, <3>2, WordApart
    <3>4. Apart(Word(n.userId, 0), Word(m.userId, 0))
      BY <3>3, TermTypes, WordsDiffer
    <3>5. QED BY <1>1, <2>1, <3>4 DEF SideOf
  <2>2. CASE f = "side"
    <3>1. j = 0 /\ n.side[0] \in {0, 1} /\ m.side[0] \in {0, 1} /\ n.side[0] # m.side[0]
      BY <2>2 DEF Width
    <3>2. SideOf(n) # SideOf(m)
      BY <3>1 DEF SideOf
    <3>3. Apart(SideOf(n), SideOf(m))
      BY <3>2, TermTypes, Sizes DEF Apart
    <3>4. QED BY <1>1, <2>2, <3>3
  <2>3. CASE f = "timeInForce"
    <3>1. j = 0 /\ n.timeInForce[0] # m.timeInForce[0]
      BY <2>3, WidthsOf
    <3>2. n.timeInForce[0] \in 0..WordSize - 1 /\ m.timeInForce[0] \in 0..WordSize - 1
      <4>1. n.timeInForce[0] \in 0..Base - 1 /\ m.timeInForce[0] \in 0..Base - 1
        BY TermTypes DEF Byte
      <4>2. QED BY <4>1, Sizes
    <3>3. Apart(n.timeInForce[0], m.timeInForce[0])
      BY <3>1, <3>2, WordsDiffer
    <3>4. QED BY <1>1, <2>3, <3>3 DEF SideOf
  <2>4. CASE f = "quantity"
    <3>1. j \in 0..1 /\ n.quantity[j] # m.quantity[j]
      BY <2>4, WidthsOf
    <3>2. Apart(SignExtended(n.quantity), SignExtended(m.quantity))
      BY <3>1, TypedFields, SignsApart
    <3>3. QED BY <1>1, <2>4, <3>2 DEF SideOf
  <2>5. CASE f \in {"price", "timestamp", "seq_number", "transaction_id"}
    <3>1. Width[f] - 1 = 7 /\ n[f] \in [0..7 -> Byte] /\ m[f] \in [0..7 -> Byte]
      BY <2>5, WidthsOf, TypedFields
    <3>2. Apart(Halves(n[f]), Halves(m[f]))
      BY <3>1, HalvesApart
    <3>3. CASE f = "price"
      BY <1>1, <3>2, <3>3 DEF SideOf
    <3>4. CASE f = "timestamp"
      BY <1>1, <3>2, <3>4 DEF SideOf
    <3>5. CASE f = "seq_number"
      BY <1>1, <3>2, <3>5 DEF SideOf
    <3>6. CASE f = "transaction_id"
      BY <1>1, <3>2, <3>6 DEF SideOf
    <3>7. QED BY <2>5, <3>3, <3>4, <3>5, <3>6
  <2>6. QED BY <2>1, <2>2, <2>3, <2>4, <2>5, WidthsOf
<1>4. /\ T(n) \in [1..8 -> Int] /\ T(m) \in [1..8 -> Int]
  BY TermTypes
<1>5. /\ WordSum(n) = T(n)[1] + T(n)[2] + T(n)[3] + T(n)[4] + T(n)[5] + T(n)[6]
                        + T(n)[7] + T(n)[8]
      /\ WordSum(m) = T(m)[1] + T(m)[2] + T(m)[3] + T(m)[4] + T(m)[5] + T(m)[6]
                        + T(m)[7] + T(m)[8]
  BY DEF WordSum
<1> DEFINE a == T(n)
           b == T(m)
<1>6. /\ a \in [1..8 -> Int] /\ b \in [1..8 -> Int]
      /\ WordSum(n) = a[1] + a[2] + a[3] + a[4] + a[5] + a[6] + a[7] + a[8]
      /\ WordSum(m) = b[1] + b[2] + b[3] + b[4] + b[5] + b[6] + b[7] + b[8]
      /\ \E k \in 1..8 : Apart(a[k], b[k]) /\ \A i \in 1..8 : i # k => a[i] = b[i]
  BY <1>3, <1>4, <1>5
<1> HIDE DEF a, b, T
<1>7. WordSum(n) \in Int /\ WordSum(m) \in Int /\ Apart(WordSum(n), WordSum(m))
  <2>1. PICK k \in 1..8 : Apart(a[k], b[k]) /\ \A i \in 1..8 : i # k => a[i] = b[i]
    BY <1>6
  <2>2. WordSum(n) - WordSum(m) = a[k] - b[k]
    BY <1>6, <2>1
  <2>3. WordSum(n) \in Int /\ WordSum(m) \in Int /\ a[k] \in Int /\ b[k] \in Int
    BY <1>6, ChecksumType
  <2>4. QED BY <2>1, <2>2, <2>3 DEF Apart
<1>8. QED BY <1>7, RemaindersApart, ChecksumIsSum

\* The checksum itself is not summed.
LEMMA ChecksumReads ==
  ASSUME NEW m, NEW n, \A f \in Field \ {"checksum"} : m[f] = n[f]
  PROVE  calculateChecksum(m) = calculateChecksum(n)
<1>1. /\ m.userId = n.userId /\ m.side = n.side /\ m.timeInForce = n.timeInForce
      /\ m.price = n.price /\ m.quantity = n.quantity /\ m.timestamp = n.timestamp
      /\ m.seq_number = n.seq_number /\ m.transaction_id = n.transaction_id
  BY WidthsOf
<1>2. QED BY <1>1 DEF calculateChecksum

\* What translate makes of an order: its checksum verifies, its bool is one.
Sound(m) == verifyChecksum(m) /\ m.side[0] \in {0, 1}

\* A message with one byte changed no longer verifies.
LEMMA ChangeDetected ==
  ASSUME NEW m \in Message, Sound(m), NEW o \in 0..MessageSize - 1,
         NEW v \in Byte, v # AsBytes(m)[o], FieldAt(o) = "side" => v \in {0, 1}
  PROVE  ~verifyChecksum(FromBytes([AsBytes(m) EXCEPT ![o] = v]))
<1> DEFINE bytes == [AsBytes(m) EXCEPT ![o] = v]
           n == FromBytes(bytes)
           f == FieldAt(o)
           j == o - Offset[f]
<1>1. /\ AsBytes(m) \in [0..MessageSize - 1 -> Byte]
      /\ bytes \in [0..MessageSize - 1 -> Byte]
      /\ bytes[o] = v /\ \A i \in 0..MessageSize - 1 : i # o => bytes[i] = AsBytes(m)[i]
  BY AsBytesType
<1>2. f \in Field /\ o \in Place(f)
  BY FieldAtType
<1>3. j \in 0..Width[f] - 1 /\ Offset[f] + j = o /\ Offset[f] \in Int
  BY <1>2, FieldBounds DEF Place
<1> HIDE DEF bytes
<1>4. n \in Message
  BY <1>1, FromBytesType
<1>5. ASSUME NEW g \in Field, NEW i \in 0..Width[g] - 1
      PROVE  /\ Offset[g] + i \in 0..MessageSize - 1
             /\ n[g][i] = bytes[Offset[g] + i]
             /\ m[g][i] = AsBytes(m)[Offset[g] + i]
             /\ Offset[g] + i = o => g = f /\ i = j
  <2>1. Offset[g] + i \in Place(g) /\ Offset[g] + i \in 0..MessageSize - 1
    BY FieldBounds DEF Place, MessageSize
  <2>2. n[g][i] = bytes[Offset[g] + i]
    BY DEF FromBytes
  <2>3. FieldAt(Offset[g] + i) = g /\ (Offset[g] + i) - Offset[g] = i
    BY <2>1, FieldAtPlace, FieldBounds
  <2>4. AsBytes(m)[Offset[g] + i] = m[g][i]
    BY <2>1, <2>3 DEF AsBytes
  <2>5. Offset[g] + i = o => g = f /\ i = j
    BY <2>3
  <2>6. QED BY <2>1, <2>2, <2>4, <2>5
<1> HIDE DEF n, f, j
<1>6. /\ n[f][j] = v /\ m[f][j] = AsBytes(m)[o]
      /\ \A i \in 0..Width[f] - 1 : i # j => n[f][i] = m[f][i]
  <2>1. n[f][j] = bytes[Offset[f] + j] /\ m[f][j] = AsBytes(m)[Offset[f] + j]
    BY <1>2, <1>3, <1>5
  <2>2. ASSUME NEW i \in 0..Width[f] - 1, i # j PROVE n[f][i] = m[f][i]
    BY <1>1, <1>2, <1>5, <2>2
  <2>3. QED BY <1>1, <1>3, <2>1, <2>2
<1>7. ASSUME NEW g \in Field, g # f PROVE n[g] = m[g]
  <2>1. n[g] \in [0..Width[g] - 1 -> Byte] /\ m[g] \in [0..Width[g] - 1 -> Byte]
    BY <1>4, MessageFields
  <2>2. ASSUME NEW i \in 0..Width[g] - 1 PROVE n[g][i] = m[g][i]
    <3>1. Offset[g] + i # o /\ Offset[g] + i \in 0..MessageSize - 1
      BY <1>5, <1>7
    <3>2. bytes[Offset[g] + i] = AsBytes(m)[Offset[g] + i]
      BY <1>1, <3>1
    <3>3. QED BY <1>5, <3>2
  <2>3. ASSUME NEW D, NEW x \in [D -> Byte], NEW y \in [D -> Byte], \A i \in D : x[i] = y[i]
        PROVE  x = y
    BY <2>3
  <2> DEFINE D == 0..Width[g] - 1
             x == n[g]
             y == m[g]
  <2>4. x \in [D -> Byte] /\ y \in [D -> Byte] /\ \A i \in D : x[i] = y[i]
    BY <2>1, <2>2
  <2> HIDE DEF D, x, y
  <2>5. x = y
    BY <2>3, <2>4
  <2>6. QED BY <2>5 DEF x, y
<1>8. Typed(m) /\ Typed(n)
  BY <1>4, MessageFields DEF Typed
<1>9. CASE f = "checksum"
  <2>1. calculateChecksum(n) = calculateChecksum(m)
    BY <1>7, <1>9, ChecksumReads
  <2>2. n.checksum # m.checksum
    BY <1>6, <1>9
  <2>3. QED BY <2>1, <2>2 DEF Sound, verifyChecksum, n, bytes
<1>10. CASE f # "checksum"
  <2>1. n[f][j] # m[f][j]
    BY <1>6
  <2>2. f = "side" => n[f][j] \in {0, 1} /\ m[f][j] \in {0, 1}
    <3>1. ASSUME f = "side" PROVE v \in {0, 1} /\ j = 0
      BY <1>3, <3>1 DEF Width, f
    <3>2. QED BY <1>6, <3>1 DEF Sound
  <2>3. calculateChecksum(n) # calculateChecksum(m)
    BY <1>2, <1>3, <1>6, <1>7, <1>8, <1>10, <2>1, <2>2, ChecksumApart
  <2>4. /\ calculateChecksum(n) \in 0..WordSize - 1
        /\ calculateChecksum(m) \in 0..WordSize - 1
    BY <1>8, ChecksumType
  <2>5. n.checksum = m.checksum
    BY <1>7, <1>10, WidthsOf
  <2>6. QED BY <2>3, <2>4, <2>5, BytesApart DEF Sound, verifyChecksum, n, bytes
<1>11. QED BY <1>9, <1>10

LEMMA TranslateType ==
  ASSUME NEW c \in ClientMessage, NEW seq \in Nat, NEW id \in Nat
  PROVE  translate(c, seq, id) \in Message /\ Sound(translate(c, seq, id))
  <1> DEFINE Numbered(sum) ==
               [f \in Field |-> CASE f = "seq_number"     -> Bytes(seq, 8)
                                  [] f = "transaction_id" -> Bytes(id, 8)
                                  [] f = "checksum"       -> sum
                                  [] OTHER                -> c[f]]
  <1>1. ASSUME NEW f \in Field, f \notin {"seq_number", "transaction_id", "checksum"}
        PROVE  c[f] \in [0..Width[f] - 1 -> Byte]
    <2>1. f \in ClientField
      BY <1>1, WidthsOf DEF ClientField
    <2> QED
      BY <2>1 DEF ClientMessage, Fields
  <1>2. /\ Bytes(seq, 8) \in [0..7 -> Byte] /\ Bytes(id, 8) \in [0..7 -> Byte]
    <2> HIDE DEF Numbered
    <2>1. \A n \in Int : Bytes(n, 8) \in [0..8 - 1 -> Byte]
      BY BytesType
    <2>2. 8 - 1 = 7
      OBVIOUS
    <2> QED
      BY <2>1, <2>2
  <1>3. ASSUME NEW sum, NEW f \in Field, f # "checksum"
        PROVE  Numbered(sum)[f] \in [0..Width[f] - 1 -> Byte]
    <2>1. CASE f = "seq_number"
      <3>1. Numbered(sum)[f] = Bytes(seq, 8)
        BY <2>1
      <3> QED
        BY <2>1, <3>1, <1>2, WidthsOf
    <2>2. CASE f = "transaction_id"
      <3>1. Numbered(sum)[f] = Bytes(id, 8)
        BY <2>2
      <3> QED
        BY <2>2, <3>1, <1>2, WidthsOf
    <2>3. CASE f \notin {"seq_number", "transaction_id"}
      <3>1. Numbered(sum)[f] = c[f]
        BY <1>3, <2>3
      <3> QED
        BY <1>1, <1>3, <2>3, <3>1
    <2> QED
      BY <2>1, <2>2, <2>3
  <1>4. ASSUME NEW sum
        PROVE  calculateChecksum(Numbered(sum)) \in Int
    <2>1. Typed(Numbered(sum))
      BY <1>3 DEF Typed
    <2> HIDE DEF Numbered
    <2> QED
      BY <2>1, ChecksumType
  <1>5. ASSUME NEW sum \in [0..3 -> Byte]
        PROVE  Numbered(sum) \in Message
    <2>1. \A f \in Field : Numbered(sum)[f] \in [0..Width[f] - 1 -> Byte]
      <3>1. Numbered(sum)["checksum"] \in [0..Width["checksum"] - 1 -> Byte]
        BY <1>5, WidthsOf
      <3> QED
        BY <3>1, <1>3
    <2>2. DOMAIN Numbered(sum) = Field /\ Numbered(sum) = [f \in Field |-> Numbered(sum)[f]]
      OBVIOUS
    <2> HIDE DEF Numbered
    <2>3. \A f \in Field : Numbered(sum)[f] \in Value
      BY <2>1, ValueType
    <2> QED
      BY <2>1, <2>2, <2>3 DEF Message, Fields
  <1>6. Bytes(calculateChecksum(Numbered(Bytes(1, 4))), 4) \in [0..3 -> Byte]
    <2>1. calculateChecksum(Numbered(Bytes(1, 4))) \in Int
      BY <1>4
    <2> HIDE DEF Numbered
    <2>2. \A n \in Int : Bytes(n, 4) \in [0..4 - 1 -> Byte]
      BY BytesType
    <2>3. 4 - 1 = 3
      OBVIOUS
    <2> QED
      BY <2>1, <2>2, <2>3
  <1>7. translate(c, seq, id) = Numbered(Bytes(calculateChecksum(Numbered(Bytes(1, 4))), 4))
    BY DEF translate
  <1>8. ASSUME NEW sum
        PROVE  calculateChecksum(Numbered(sum)) = calculateChecksum(Numbered(Bytes(1, 4)))
    <2>1. ASSUME NEW f \in Field \ {"checksum"}
          PROVE  Numbered(sum)[f] = Numbered(Bytes(1, 4))[f]
      OBVIOUS
    <2> HIDE DEF Numbered
    <2> QED
      BY <2>1, ChecksumReads
  <1>9. ASSUME NEW sum
        PROVE  Numbered(sum).checksum = sum /\ Numbered(sum).side[0] \in {0, 1}
    BY WidthsOf DEF ClientMessage
  <1> HIDE DEF Numbered
  <1> QED
    BY <1>5, <1>6, <1>7, <1>8, <1>9 DEF Sound, verifyChecksum

-----------------------------------------------------------------------------
(* The invariant.                                                          *)

\* The count of the batch leaves its messages inside the array, every id handed out
\* belongs to an accepted order, and the checksum of each order verifies.
IInv ==
  /\ TypeOK
  /\ batch[0] * MessageSize < BatchSize
  /\ transactionId = Len(accepted)
  /\ NothingPastTheEnd
  /\ HandedIsAccepted
  /\ \A k \in 1..Len(accepted) : Sound(accepted[k])

LEMMA InitIInv == Init => IInv
  <1> SUFFICES ASSUME Init PROVE IInv
    OBVIOUS
  <1>1. batch \in Memory /\ batch[0] = 0 /\ NothingPastTheEnd /\ GetAllMessages(batch) = <<>>
    BY EmptyBatchMessages DEF Init, NothingPastTheEnd
  <1>2. TypeOK
    BY <1>1, WireAssumption DEF Init, TypeOK, Memory
  <1>3. batch[0] * MessageSize < BatchSize
    BY <1>1, WireAssumption DEF MessageSize
  <1>4. HandedIsAccepted
    BY <1>1 DEF Init, HandedIsAccepted
  <1> QED
    BY <1>1, <1>2, <1>3, <1>4 DEF Init, IInv

LEMMA AcceptOrderIInv ==
  ASSUME IInv, NEW c \in ClientOrders, AcceptOrder(c)
  PROVE  IInv'
  <1> DEFINE m == translate(c, transactionCounter, transactionId)
  <1>1. /\ batch \in Memory /\ transactionId \in Nat /\ transactionCounter \in Nat
        /\ accepted \in Seq(Message) /\ handed \in Seq(Message)
        /\ batch[0] * MessageSize < BatchSize
    BY WireAssumption DEF IInv, TypeOK, Memory
  <1>2. m \in Message /\ Sound(m)
    BY <1>1, TranslateType, WireAssumption
  <1>3. /\ Len(accepted) < MaxOrders
        /\ accepted' = Append(accepted, m)
        /\ transactionId' = transactionId + 1
        /\ transactionCounter' = transactionCounter + 1
        /\ \/ HasRoom(batch) /\ batch' = AddMessage(batch, m) /\ handed' = handed
           \/ /\ handed' = handed \o GetAllMessages(batch)
              /\ batch' = AddMessage(EmptyBatch, m)
    BY DEF AcceptOrder
  <1> HIDE DEF m
  <1>4. GetAllMessages(batch) \in Seq(Message)
    BY <1>1, AllMessagesType
  <1>5. /\ batch' \in Memory
        /\ batch'[0] * MessageSize < BatchSize
        /\ NothingPastTheEnd'
        /\ handed' \in Seq(Message)
        /\ handed' \o GetAllMessages(batch') = Append(handed \o GetAllMessages(batch), m)
    <2>1. CASE HasRoom(batch) /\ batch' = AddMessage(batch, m) /\ handed' = handed
      <3>1. handed \o Append(GetAllMessages(batch), m)
              = Append(handed \o GetAllMessages(batch), m)
        BY <1>1, <1>2, <1>4
      <3>2. /\ batch' \in Memory /\ batch'[0] * MessageSize < BatchSize
            /\ \A i \in BatchSize..BatchSize + MessageSize - 1 : batch'[i] = batch[i]
            /\ GetAllMessages(batch') = Append(GetAllMessages(batch), m)
        BY <2>1, <1>1, <1>2, AddedMessage
      <3>3. NothingPastTheEnd'
        BY <3>2 DEF IInv, NothingPastTheEnd
      <3> QED
        BY <2>1, <3>1, <3>2, <3>3, <1>1
    <2>2. CASE /\ handed' = handed \o GetAllMessages(batch)
               /\ batch' = AddMessage(EmptyBatch, m)
      <3>1. /\ batch' \in Memory /\ batch'[0] * MessageSize < BatchSize
            /\ \A i \in BatchSize..BatchSize + MessageSize - 1 : batch'[i] = EmptyBatch[i]
            /\ GetAllMessages(batch') = Append(<<>>, m)
        BY <2>2, <1>2, AddedMessage, EmptyBatchMessages
      <3>2. NothingPastTheEnd'
        BY <3>1, EmptyBatchMessages DEF NothingPastTheEnd
      <3>3. handed' \in Seq(Message) /\ handed' \o Append(<<>>, m) = Append(handed', m)
        BY <2>2, <1>1, <1>2, <1>4
      <3> QED
        BY <2>2, <3>1, <3>2, <3>3
    <2> QED
      BY <1>3, <2>1, <2>2
  <1>6. accepted' \in Seq(Message) /\ Len(accepted') = Len(accepted) + 1
    BY <1>1, <1>2, <1>3
  <1>7. TypeOK' /\ transactionId' = Len(accepted')
    BY <1>1, <1>3, <1>5, <1>6, WireAssumption, SMTT(30) DEF IInv, TypeOK, Memory
  <1>8. HandedIsAccepted'
    BY <1>3, <1>5 DEF IInv, HandedIsAccepted
  <1>9. \A k \in 1..Len(accepted') : Sound(accepted'[k])
    <2>1. \A k \in 1..Len(accepted) : accepted'[k] = accepted[k]
      BY <1>1, <1>2, <1>3
    <2>2. accepted'[Len(accepted) + 1] = m
      BY <1>1, <1>2, <1>3
    <2>3. 1..Len(accepted') = 1..Len(accepted) \union {Len(accepted) + 1}
      BY <1>1, <1>6
    <2> QED
      BY <1>2, <2>1, <2>2, <2>3 DEF IInv
  <1> QED
    BY <1>5, <1>7, <1>8, <1>9 DEF IInv

LEMMA FlushIInv ==
  ASSUME IInv, Flush
  PROVE  IInv'
  <1>1. /\ batch \in Memory /\ handed \in Seq(Message)
        /\ batch[0] * MessageSize < BatchSize
    BY DEF IInv, TypeOK, Memory
  <1>2. GetAllMessages(batch) \in Seq(Message)
    BY <1>1, AllMessagesType
  <1>3. /\ batch' \in Memory /\ batch'[0] = 0
        /\ NothingPastTheEnd' /\ GetAllMessages(batch') = <<>>
    BY EmptyBatchMessages DEF Flush, NothingPastTheEnd
  <1>4. handed' \in Seq(Message) /\ handed' \o <<>> = handed'
    BY <1>1, <1>2 DEF Flush
  <1>5. TypeOK'
    BY <1>3, <1>4 DEF IInv, TypeOK, Flush, Memory
  <1>6. batch'[0] * MessageSize < BatchSize
    BY <1>3, WireAssumption DEF MessageSize
  <1>7. HandedIsAccepted'
    BY <1>3, <1>4 DEF IInv, HandedIsAccepted, Flush
  <1> QED
    BY <1>3, <1>5, <1>6, <1>7 DEF IInv, Flush

LEMMA StutterIInv ==
  ASSUME IInv, UNCHANGED vars
  PROVE  IInv'
  BY DEF IInv, TypeOK, NothingPastTheEnd, HandedIsAccepted, vars

LEMMA Inductive == Spec => []IInv
  <1>1. IInv /\ [Next]_vars => IInv'
    BY AcceptOrderIInv, FlushIInv, StutterIInv DEF Next
  <1> QED
    BY <1>1, InitIInv, PTL DEF Spec

\* The bytes of the batch are bytes and its messages are messages, for every width
\* of a byte and every size of the batch.
THEOREM WireTypes == Spec => []TypeOK
  BY Inductive, PTL DEF IInv

\* For every size of the batch whose count fits its byte, add_message writes inside
\* the array.
THEOREM WireInBounds == Spec => []NothingPastTheEnd
  BY Inductive, PTL DEF IInv

\* For every size of the batch and every accepted order, the book reads exactly the
\* bytes that were accepted, in order.
THEOREM WireReadsBack == Spec => []HandedIsAccepted
  BY Inductive, PTL DEF IInv

\* For every width of a byte and all orders, a message read from the batch verifies, and
\* with any one byte changed it does not.
THEOREM WireChecksumTells == Spec => []ChecksumTells
  <1>1. IInv => ChecksumTells
    <2> SUFFICES ASSUME IInv, NEW k \in 1..batch[0]
                 PROVE  LET m == GetMessage(batch, k - 1)
                        IN  m \in Message /\ Sound(m)
      <3>1. ASSUME NEW m \in Message, Sound(m), NEW o \in 0..MessageSize - 1,
                   NEW v \in (IF FieldAt(o) = "side" THEN {0, 1} ELSE Byte) \ {AsBytes(m)[o]}
            PROVE  ~verifyChecksum(FromBytes([AsBytes(m) EXCEPT ![o] = v]))
        <4>1. v \in Byte /\ (FieldAt(o) = "side" => v \in {0, 1}) /\ v # AsBytes(m)[o]
          BY Sizes DEF Byte
        <4> QED
          BY <3>1, <4>1, ChangeDetected
      <3> QED
        BY <3>1 DEF ChecksumTells, Sound
    <2>1. /\ batch \in Memory /\ batch[0] * MessageSize < BatchSize
          /\ handed \in Seq(Message) /\ batch[0] \in Nat
      BY WireAssumption, SMTT(30) DEF IInv, TypeOK, Memory, Byte, MessageSize
    <2>2. GetAllMessages(batch) \in Seq(Message) /\ Len(GetAllMessages(batch)) = batch[0]
      BY <2>1, AllMessagesType
    <2>3. GetAllMessages(batch)[k] = GetMessage(batch, k - 1)
      BY <2>1 DEF GetAllMessages
    <2>4. /\ GetMessage(batch, k - 1) = accepted[Len(handed) + k]
          /\ Len(handed) + k \in 1..Len(accepted)
      <3> DEFINE g == GetAllMessages(batch)
      <3>1. g \in Seq(Message) /\ handed \in Seq(Message) /\ k \in 1..Len(g)
        BY <2>1, <2>2
      <3>2. handed \o g = accepted /\ g[k] = GetMessage(batch, k - 1)
        BY <2>3 DEF IInv, HandedIsAccepted
      <3> HIDE DEF g
      <3>3. /\ (handed \o g)[Len(handed) + k] = g[k]
            /\ Len(handed) + k \in 1..Len(handed \o g)
        BY <3>1
      <3> QED
        BY <3>2, <3>3
    <2>5. GetMessage(batch, k - 1) \in Message
      BY <2>2, <2>3
    <2> QED
      BY <2>4, <2>5 DEF IInv
  <1> QED
    BY <1>1, Inductive, PTL
=============================================================================
