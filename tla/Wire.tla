-------------------------------- MODULE Wire --------------------------------
(***************************************************************************)
(* An accepted order as bytes: translate() numbers it and adds a checksum, *)
(* add_message copies it into the byte array of a BatchSystemProtocol,     *)
(* get_all_messages reads the array back for the order book.               *)
(*                                                                         *)
(* A field is its object representation: the bytes memcpy copies, lowest   *)
(* first.  The array is modelled with one message of memory behind its     *)
(* end, where a write that does not fit would land.  The batch lock makes  *)
(* each action one step; what happens around the lock is Gateway's subject.*)
(***************************************************************************)
EXTENDS Integers, Sequences

CONSTANTS
  Base,          \* the number of values of a byte (256 in the code)
  BatchSize,     \* the bytes of the array (1000 in the code)
  ClientOrders,  \* the orders sent, stamped by the gateway
  MaxOrders      \* bound on the number of orders accepted

Byte == 0..Base - 1

\* Where SystemProtocol keeps its fields on the wire, and how many bytes they take.
Offset ==
  [userId |-> 0, side |-> 4, timeInForce |-> 5, price |-> 6, quantity |-> 14,
   timestamp |-> 16, seq_number |-> 24, transaction_id |-> 32, checksum |-> 40]

Width ==
  [userId |-> 4, side |-> 1, timeInForce |-> 1, price |-> 8, quantity |-> 2,
   timestamp |-> 8, seq_number |-> 8, transaction_id |-> 8, checksum |-> 4]

Field == DOMAIN Width
ClientField == {"userId", "side", "timeInForce", "price", "quantity", "timestamp"}
MessageSize == 44

Value == UNION {[0..w - 1 -> Byte] : w \in 1..8}

Fields(fs) == {m \in [fs -> Value] : \A f \in fs : m[f] \in [0..Width[f] - 1 -> Byte]}

\* A bool is stored as 0 or 1.
ClientMessage == {c \in Fields(ClientField) : c.side[0] \in {0, 1}}
Message == Fields(Field)

ASSUME WireAssumption ==
  /\ Base \in Nat \ {0, 1}
  /\ BatchSize \in Nat
  /\ MessageSize < BatchSize              \* an empty batch takes a message
  /\ BatchSize <= MessageSize * Base      \* the count of a full one fits its byte
  /\ ClientOrders \subseteq ClientMessage
  /\ MaxOrders \in Nat

HalfWordSize == Base * Base
WordSize == HalfWordSize * HalfWordSize

\* What one in byte j of an integer stands for.
Weight(j) ==
  LET inWord == <<1, Base, HalfWordSize, HalfWordSize * Base>>[(j % 4) + 1]
  IN  IF j < 4 THEN inWord ELSE WordSize * inWord

\* The bytes of an integer of w bytes; a negative one is in two's complement.
Bytes(n, w) == [j \in 0..w - 1 |-> (n \div Weight(j)) % Base]

-----------------------------------------------------------------------------
(* The checksum: the sum of the message's 32-bit words.                    *)

Word(v, at) ==
  v[at] + Base * (v[at + 1] + Base * (v[at + 2] + Base * v[at + 3]))

\* static_cast<uint32_t> of an int16_t repeats its sign.
SignExtended(v) ==
  v[0] + Base * v[1] + (IF v[1] >= Base \div 2 THEN WordSize - HalfWordSize ELSE 0)

\* Mutant: the upper words are left out.
HalvesLowOnly(v) == Word(v, 0)

Halves(v) == Word(v, 0) + Word(v, 4)

calculateChecksum(m) ==
  (Word(m.userId, 0) + (IF m.side[0] # 0 THEN 1 ELSE 0) + m.timeInForce[0]
     + Halves(m.price) + SignExtended(m.quantity) + Halves(m.timestamp)
     + Halves(m.seq_number) + Halves(m.transaction_id)) % WordSize

verifyChecksum(m) == m.checksum = Bytes(calculateChecksum(m), 4)

\* translate(): first with a placeholder, then with the checksum of that.
translate(c, seq, id) ==
  LET Numbered(sum) ==
        [f \in Field |-> CASE f = "seq_number"     -> Bytes(seq, 8)
                           [] f = "transaction_id" -> Bytes(id, 8)
                           [] f = "checksum"       -> sum
                           [] OTHER                -> c[f]]
  IN  Numbered(Bytes(calculateChecksum(Numbered(Bytes(1, 4))), 4))

-----------------------------------------------------------------------------
(* The layout.                                                             *)

Place(f) == Offset[f]..Offset[f] + Width[f] - 1

FieldAt(o) == CHOOSE f \in Field : o \in Place(f)

\* A message as bytes (as_bytes, and the copies of add_message) and back.
AsBytes(m) ==
  [o \in 0..MessageSize - 1 |-> LET f == FieldAt(o) IN m[f][o - Offset[f]]]

FromBytes(bytes) ==
  [f \in Field |-> [j \in 0..Width[f] - 1 |-> bytes[Offset[f] + j]]]

\* SystemProtocol(): everything zero; GTC is 0.
DefaultMessage == [f \in Field |-> [j \in 0..Width[f] - 1 |-> 0]]

EmptyBatch == [i \in 0..BatchSize + MessageSize - 1 |-> 0]

\* Mutant: the byte of the count is forgotten.
HasRoomToTheEnd(b) == (b[0] + 1) * MessageSize <= BatchSize

HasRoom(b) == (b[0] + 1) * MessageSize < BatchSize

\* Mutant: a message begins on the last byte of the one before.
AtShort(k) == k * (MessageSize - 1) + 1

At(k) == k * MessageSize + 1

AddMessage(b, m) ==
  LET at == At(b[0])
      bytes == AsBytes(m)
  IN  [i \in DOMAIN b |->
         IF i = 0 THEN (b[0] + 1) % Base
         ELSE IF i \in at..at + MessageSize - 1 THEN bytes[i - at] ELSE b[i]]

GetMessage(b, k) ==
  IF k \in 0..b[0] - 1
  THEN FromBytes([o \in 0..MessageSize - 1 |-> b[At(k) + o]])
  ELSE DefaultMessage

GetAllMessages(b) == [k \in 1..b[0] |-> GetMessage(b, k - 1)]

-----------------------------------------------------------------------------
(* The gateway's side: orders are accepted into the batch, and the batch   *)
(* goes to the book when it is full or when the batch thread finds one.    *)

VARIABLES
  batch,               \* BatchSystemProtocol::batch
  transactionId,       \* BatchSystemProtocol::transactionId
  transactionCounter,  \* the gateway's sequence numbers
  accepted,            \* history: the messages accepted
  handed               \* history: the messages the book has read from batches

vars == <<batch, transactionId, transactionCounter, accepted, handed>>

Init ==
  /\ batch = EmptyBatch
  /\ transactionId = 0
  /\ transactionCounter = 1
  /\ accepted = <<>>
  /\ handed = <<>>

AcceptOrder(c) ==
  /\ Len(accepted) < MaxOrders
  /\ LET m == translate(c, transactionCounter, transactionId)
     IN  /\ accepted' = Append(accepted, m)
         /\ \/ /\ HasRoom(batch)
               /\ batch' = AddMessage(batch, m)
               /\ UNCHANGED handed
            \/ /\ ~HasRoom(batch)
               /\ handed' = handed \o GetAllMessages(batch)
               /\ batch' = AddMessage(EmptyBatch, m)
  /\ transactionId' = transactionId + 1
  /\ transactionCounter' = transactionCounter + 1

Flush ==
  /\ batch[0] > 0
  /\ handed' = handed \o GetAllMessages(batch)
  /\ batch' = EmptyBatch
  /\ UNCHANGED <<transactionId, transactionCounter, accepted>>

Next ==
  \/ \E c \in ClientOrders : AcceptOrder(c)
  \/ Flush

Spec == Init /\ [][Next]_vars

-----------------------------------------------------------------------------

TypeOK ==
  /\ batch \in [0..BatchSize + MessageSize - 1 -> Byte]
  /\ transactionId \in 0..MaxOrders
  /\ transactionCounter = transactionId + 1
  /\ accepted \in Seq(Message)
  /\ handed \in Seq(Message)

\* add_message never writes behind the array: HasRoom leaves room for the byte of
\* the count as well as for the messages.
NothingPastTheEnd ==
  \A i \in BatchSize..BatchSize + MessageSize - 1 : batch[i] = 0

\* Every field of every accepted order reaches the book as it was accepted, in the
\* order of acceptance: no two fields share a byte, no message touches its
\* neighbour, none is left behind in a full batch and none of the last batch is
\* seen again in the next.
HandedIsAccepted == handed \o GetAllMessages(batch) = accepted

\* A message read from the batch verifies, and would not if any one byte of it had
\* changed (a bool has two representations only).
ChecksumTells ==
  \A k \in 1..batch[0] :
    LET m == GetMessage(batch, k - 1)
        Values(o) == IF FieldAt(o) = "side" THEN {0, 1} ELSE Byte
        Changed(o, v) == FromBytes([AsBytes(m) EXCEPT ![o] = v])
    IN  /\ verifyChecksum(m)
        /\ \A o \in 0..MessageSize - 1 : \A v \in Values(o) \ {AsBytes(m)[o]} :
             ~verifyChecksum(Changed(o, v))
=============================================================================
