---------------------------- MODULE Wire_proofs ----------------------------
(***************************************************************************)
(* Proofs about what goes over the wire: the reassembly of split           *)
(* Transitions, for any number of transitions and parts, and the reading   *)
(* of messages, for any messages and any values whose codec keeps them.    *)
(***************************************************************************)
EXTENDS Wire, TLAPS, WellFoundedInduction

-----------------------------------------------------------------------------
(* The assembler of split Transitions.                                     *)

\* Types of the variables, and the emptiness of an idle assembler.
ChunkTypes ==
    /\ data \in Seq(Chunk)
    /\ total_parts \in 0..MaxParts
    /\ transition_id \in Transitions \cup {None}
    /\ buffering <=> data # <<>>
    /\ buffering => Len(data) < total_parts
    /\ honest \in BOOLEAN /\ refused \in BOOLEAN
    /\ sending \in Sending \cup {None}

\* The parts held are the first parts of one Transition.
Held ==
    \A i \in DOMAIN data :
        /\ data[i].part_number = i - 1
        /\ data[i].total_parts = total_parts
        /\ data[i].transition_id = transition_id

\* While the server keeps to the protocol, the assembler has just what was
\* sent of the Transition under way.
InStep ==
    honest => IF sending = None THEN data = <<>>
              ELSE /\ Len(data) = sending.next
                   /\ sending.next < sending.parts
                   /\ total_parts = sending.parts
                   /\ transition_id = sending.id

IInv == ChunkTypes /\ Held /\ InStep /\ AssembledWhole /\ HonestNeverRefused

-----------------------------------------------------------------------------
\* Initially nothing is held or under way.
LEMMA InitInv == Init => IInv
<1> SUFFICES ASSUME Init PROVE IInv
  OBVIOUS
<1> USE DEF Init
<1>1. ChunkTypes
  <2>1. data \in Seq(Chunk) /\ total_parts \in 0..MaxParts
    BY ChunkAssumption
  <2>2. (buffering <=> data # <<>>) /\ (buffering => Len(data) < total_parts)
    BY DEF buffering
  <2>3. honest \in BOOLEAN /\ refused \in BOOLEAN
    BY Zenon
  <2> QED
    BY <2>1, <2>2, <2>3 DEF ChunkTypes
<1>2. Held
  BY DEF Held
<1>3. InStep
  BY DEF InStep
<1>4. AssembledWhole
  BY DEF AssembledWhole
<1>5. HonestNeverRefused
  BY DEF HonestNeverRefused
<1> QED
  BY <1>1, <1>2, <1>3, <1>4, <1>5 DEF IInv

\* An assembler that discards its parts is idle.
LEMMA AbandonIdle ==
  ASSUME Abandon
  PROVE  /\ data' = <<>> /\ data' \in Seq(Chunk)
         /\ total_parts' \in 0..MaxParts
         /\ transition_id' \in Transitions \cup {None}
         /\ ~buffering' /\ Held'
  BY ChunkAssumption DEF Abandon, Held, buffering

\* Discarding the parts leaves an idle assembler, in step with the next
\* connection's server.
LEMMA DisconnectInv ==
  ASSUME IInv, Disconnect, UNCHANGED assembled, refused' = refused
  PROVE  IInv'
  BY ChunkAssumption
  DEF Disconnect, Abandon, IInv, ChunkTypes, Held, InStep, AssembledWhole, HonestNeverRefused,
      buffering

\* A part in its place keeps the parts held the first of one Transition.
LEMMA StoreInv ==
  ASSUME IInv, NEW c \in Chunk, Store(c)
  PROVE  /\ Held' /\ AssembledWhole' /\ HonestNeverRefused'
         /\ data' \in Seq(Chunk)
         /\ Len(data') = c.part_number + 1 /\ Len(data') < c.total_parts
         /\ total_parts' = c.total_parts /\ total_parts' \in 1..MaxParts
         /\ transition_id' = c.transition_id /\ transition_id' \in Transitions
         /\ data' # <<>>
<1> c.part_number \in 0..MaxParts /\ c.total_parts \in 0..MaxParts
        /\ c.transition_id \in Transitions
  BY DEF Chunk
<1> USE DEF IInv, ChunkTypes, Store, Consistent, InOrder, buffering
<1>1. data' = Append(data, c) /\ data' \in Seq(Chunk) /\ Len(data') = Len(data) + 1
  OBVIOUS
<1>2. DOMAIN data' = 1..(Len(data) + 1) /\ data'[Len(data) + 1] = c
        /\ \A i \in 1..Len(data) : data'[i] = data[i]
  BY <1>1
<1>3. Held'
  <2> SUFFICES ASSUME NEW i \in DOMAIN data'
               PROVE  /\ data'[i].part_number = i - 1
                      /\ data'[i].total_parts = total_parts'
                      /\ data'[i].transition_id = transition_id'
    BY DEF Held
  <2>1. CASE i = Len(data) + 1
    BY <2>1, <1>2
  <2>2. CASE i # Len(data) + 1
    <3>1. i \in 1..Len(data) /\ i \in DOMAIN data /\ data'[i] = data[i]
      BY <2>2, <1>2
    <3>2. buffering
      BY <3>1
    <3> QED
      BY <3>1, <3>2 DEF Held
  <2> QED
    BY <2>1, <2>2
<1>4. AssembledWhole' /\ HonestNeverRefused'
  BY DEF AssembledWhole, HonestNeverRefused
<1> QED
  BY <1>1, <1>3, <1>4, ChunkAssumption

\* The last part makes the parts held a whole Transition.
LEMMA AssembleInv ==
  ASSUME IInv, NEW c \in Chunk, Assemble(c)
  PROVE  AssembledWhole' /\ HonestNeverRefused'
<1> c.part_number \in 0..MaxParts /\ c.total_parts \in 0..MaxParts
        /\ c.transition_id \in Transitions
  BY DEF Chunk
<1> USE DEF IInv, ChunkTypes, Assemble, Consistent, InOrder, buffering
<1>1. Len(assembled') = c.total_parts /\ DOMAIN assembled' = 1..c.total_parts
        /\ c.total_parts = Len(data) + 1
        /\ assembled'[c.total_parts] = c
        /\ \A i \in 1..Len(data) : assembled'[i] = data[i]
  OBVIOUS
<1>2. ASSUME NEW i \in DOMAIN assembled'
      PROVE  /\ assembled'[i].part_number = i - 1
             /\ assembled'[i].total_parts = c.total_parts
             /\ assembled'[i].transition_id = c.transition_id
  <2>1. CASE i = c.total_parts
    BY <2>1, <1>1
  <2>2. CASE i # c.total_parts
    <3>1. i \in 1..Len(data) /\ i \in DOMAIN data /\ assembled'[i] = data[i]
      BY <2>2, <1>1
    <3>2. buffering
      BY <3>1
    <3> QED
      BY <3>1, <3>2 DEF Held
  <2> QED
    BY <2>1, <2>2
<1>3. 1 \in DOMAIN assembled'
  BY <1>1
<1>4. AssembledWhole'
  BY <1>1, <1>2, <1>3 DEF AssembledWhole
<1>5. HonestNeverRefused'
  BY DEF HonestNeverRefused
<1> QED
  BY <1>4, <1>5

\* The server's next part.
LEMMA SendPartInv ==
  ASSUME IInv, NEW t \in Transitions, NEW n \in 1..MaxParts, SendPart(t, n)
  PROVE  IInv'
<1> DEFINE part == IF sending = None THEN 0 ELSE sending.next
           c == [transition_id |-> t, part_number |-> part, total_parts |-> n]
<1>1. honest /\ part \in 0..MaxParts /\ part < n /\ part = Len(data)
        /\ (buffering => total_parts = n /\ transition_id = t)
  BY ChunkAssumption DEF SendPart, IInv, ChunkTypes, InStep, Sending, buffering
<1>2. c \in Chunk /\ c.part_number = part /\ c.total_parts = n /\ c.transition_id = t
  BY <1>1, ChunkAssumption DEF Chunk
<1> HIDE DEF c
<1>3. Consistent(c) /\ InOrder(c)
  BY <1>1, <1>2 DEF Consistent, InOrder
<1>4. /\ Store(c) \/ Assemble(c)
      /\ sending' = IF part + 1 < n THEN [id |-> t, parts |-> n, next |-> part + 1] ELSE None
      /\ UNCHANGED honest
  BY <1>3 DEF SendPart, Refuse, c
<1>5. CASE Store(c)
  <2>1. part + 1 < n
    BY <1>2, <1>5 DEF Store
  <2>2. sending' = [id |-> t, parts |-> n, next |-> part + 1] /\ sending' \in Sending
          /\ sending'.id = t /\ sending'.parts = n /\ sending'.next = part + 1
          /\ sending' # None
    <3>1. sending' = [id |-> t, parts |-> n, next |-> part + 1]
      BY <2>1, <1>4
    <3>2. sending' \in Sending
      BY <3>1, <2>1, <1>1, ChunkAssumption DEF Sending
    <3> QED
      BY <3>1, <3>2, ChunkAssumption
  <2>3. ChunkTypes'
    <3>1. honest' \in BOOLEAN /\ refused' \in BOOLEAN
      BY <1>4, <1>5, Zenon DEF IInv, ChunkTypes, Store
    <3>2. (buffering' <=> data' # <<>>) /\ (buffering' => Len(data') < total_parts')
      BY <1>2, <1>5, StoreInv DEF buffering
    <3> QED
      BY <3>1, <3>2, <2>2, <1>2, <1>5, StoreInv DEF ChunkTypes
  <2>4. InStep'
    BY <1>2, <1>5, <2>1, <2>2, StoreInv DEF InStep
  <2> QED
    BY <1>2, <1>5, <2>3, <2>4, StoreInv DEF IInv
<1>6. CASE Assemble(c)
  <2>1. sending' = None
    BY <1>1, <1>2, <1>4, <1>6 DEF Assemble
  <2>2. Abandon
    BY <1>6 DEF Assemble
  <2>3. honest' \in BOOLEAN /\ refused' \in BOOLEAN
    BY <1>4, <1>6, Zenon DEF IInv, ChunkTypes, Assemble
  <2>4. ChunkTypes'
    BY <2>1, <2>2, <2>3, AbandonIdle DEF ChunkTypes
  <2>5. InStep'
    BY <2>1, <2>2, AbandonIdle DEF InStep
  <2> QED
    BY <1>2, <1>6, <2>2, <2>4, <2>5, AssembleInv, AbandonIdle DEF IInv
<1> QED
  BY <1>4, <1>5, <1>6

\* A chunk out of the blue.
LEMMA SendRogueInv ==
  ASSUME IInv, NEW c \in Chunk, SendRogue(c)
  PROVE  IInv'
<1>1. CASE Refuse(c, FALSE)
  BY <1>1, DisconnectInv DEF Refuse, IInv, ChunkTypes
<1>2. CASE Undecodable(c)
  <2>1. UNCHANGED assembled /\ refused' = refused
    BY <1>2 DEF Undecodable
  <2>2. CASE Disconnect
    BY <2>1, <2>2, DisconnectInv
  <2>3. CASE Abandon /\ sending' = None /\ honest' = FALSE
    <3>1. honest' \in BOOLEAN /\ refused' \in BOOLEAN
      BY <2>1, <2>3, Zenon DEF IInv, ChunkTypes
    <3>2. ChunkTypes'
      BY <2>3, <3>1, AbandonIdle DEF ChunkTypes
    <3>3. InStep'
      BY <2>3 DEF InStep
    <3> QED
      BY <2>1, <2>3, <3>2, <3>3, AbandonIdle DEF IInv, AssembledWhole, HonestNeverRefused
  <2> QED
    BY <1>2, <2>2, <2>3 DEF Undecodable
<1>3. CASE Store(c) /\ sending' = None /\ honest' = FALSE
  <2>1. ChunkTypes'
    <3>1. honest' \in BOOLEAN /\ refused' \in BOOLEAN
      BY <1>3, Zenon DEF IInv, ChunkTypes, Store
    <3>2. (buffering' <=> data' # <<>>) /\ (buffering' => Len(data') < total_parts')
      BY <1>3, StoreInv DEF buffering, Chunk
    <3> QED
      BY <3>1, <3>2, <1>3, StoreInv DEF ChunkTypes
  <2>2. InStep'
    BY <1>3 DEF InStep
  <2> QED
    BY <1>3, <2>1, <2>2, StoreInv DEF IInv
<1>4. CASE Assemble(c) /\ sending' = None /\ honest' = FALSE
  <2>1. Abandon
    BY <1>4 DEF Assemble
  <2>2. honest' \in BOOLEAN /\ refused' \in BOOLEAN
    BY <1>4, Zenon DEF IInv, ChunkTypes, Assemble
  <2>3. ChunkTypes'
    BY <1>4, <2>1, <2>2, AbandonIdle DEF ChunkTypes
  <2>4. InStep'
    BY <1>4 DEF InStep
  <2> QED
    BY <1>4, <2>1, <2>3, <2>4, AssembleInv, AbandonIdle DEF IInv
<1> QED
  BY <1>1, <1>2, <1>3, <1>4 DEF SendRogue

\* IInv is inductive.
LEMMA NextInv == IInv /\ [Next]_vars => IInv'
<1> SUFFICES ASSUME IInv, [Next]_vars PROVE IInv'
  OBVIOUS
<1>1. ASSUME NEW t \in Transitions, NEW n \in 1..MaxParts, SendPart(t, n) PROVE IInv'
  BY <1>1, SendPartInv
<1>2. ASSUME NEW c \in Chunk, SendRogue(c) PROVE IInv'
  BY <1>2, SendRogueInv
<1>3. ASSUME NEW kind, ReceiveWhole(kind) PROVE IInv'
  <2>1. honest' = honest /\ refused' = refused /\ assembled' = assembled
    BY <1>3 DEF ReceiveWhole
  <2>2. CASE kind = "ping"
    BY <1>3, <2>1, <2>2
    DEF ReceiveWhole, IInv, ChunkTypes, Held, InStep, AssembledWhole, HonestNeverRefused,
        buffering, assembler
  <2>3. CASE kind # "ping"
    <3>1. Abandon /\ sending' = None
      BY <1>3, <2>3 DEF ReceiveWhole
    <3>2. ChunkTypes'
      BY <2>1, <3>1, AbandonIdle DEF IInv, ChunkTypes
    <3>3. InStep'
      BY <3>1, AbandonIdle DEF InStep
    <3> QED
      BY <2>1, <3>1, <3>2, <3>3, AbandonIdle DEF IInv, AssembledWhole, HonestNeverRefused
  <2> QED
    BY <2>2, <2>3
<1>4. CASE Lose
  BY <1>4, DisconnectInv DEF Lose
<1>5. CASE UNCHANGED vars
  BY <1>5
  DEF vars, assembler, IInv, ChunkTypes, Held, InStep, AssembledWhole, HonestNeverRefused, buffering
<1> QED
  BY <1>1, <1>2, <1>3, <1>4, <1>5 DEF Next

\* The inductive invariant holds in every reachable state.
THEOREM Invariant == Spec => []IInv
<1>1. Init => IInv
  BY InitInv
<1>2. IInv /\ [Next]_vars => IInv'
  BY NextInv
<1> QED
  BY <1>1, <1>2, PTL DEF Spec

\* ChunkTypes: the assembler is idle and empty, or holds some but not all parts.
THEOREM TypeCorrect == Spec => []TypeOK
<1>1. IInv => TypeOK
  BY DEF IInv, ChunkTypes, TypeOK, Sending
<1> QED
  BY <1>1, Invariant, PTL

\* What feed() returns is one whole Transition, whatever was sent.
THEOREM OnlyWholeTransitions == Spec => []AssembledWhole
<1>1. IInv => AssembledWhole
  BY DEF IInv
<1> QED
  BY <1>1, Invariant, PTL

\* feed() refuses nothing that a correct server sends, after any history.
THEOREM CorrectServerAccepted == Spec => []HonestNeverRefused
<1>1. IInv => HonestNeverRefused
  BY DEF IInv
<1> QED
  BY <1>1, Invariant, PTL

-----------------------------------------------------------------------------
(* Base64.                                                                 *)

\* The alphabet has 64 characters, all different, and = is none of them.
LEMMA Alphabet ==
    /\ Len(k_alphabet) = 64 /\ DOMAIN k_alphabet = 1..64
    /\ \A i \in 1..64 : k_alphabet[i] # "="
    /\ \A i, j \in 1..64 : k_alphabet[i] = k_alphabet[j] => i = j
<1>1. Len(k_alphabet) = 64 /\ DOMAIN k_alphabet = 1..64
    BY SMTT(30) DEF k_alphabet
<1>2. \A i \in 1..64 : k_alphabet[i] # "="
    BY SMTT(60) DEF k_alphabet
<1>3. \A i, j \in 1..64 : k_alphabet[i] = k_alphabet[j] => i = j
    BY SMTT(100) DEF k_alphabet
<1> QED
    BY <1>1, <1>2, <1>3

\* The digit that a character is read as.
Digit(c) == IF c = "=" THEN 0 ELSE (CHOOSE i \in 1..64 : k_alphabet[i] = c) - 1

\* A character of the alphabet is read as its place there.
LEMMA DigitOf ==
    /\ Digit("=") = 0
    /\ \A d \in 0..63 : k_alphabet[d + 1] \in ToSet(k_alphabet)
                          /\ k_alphabet[d + 1] # "=" /\ Digit(k_alphabet[d + 1]) = d
<1>1. Digit("=") = 0
    BY DEF Digit
<1>2. ASSUME NEW d \in 0..63
      PROVE  /\ k_alphabet[d + 1] \in ToSet(k_alphabet)
             /\ k_alphabet[d + 1] # "=" /\ Digit(k_alphabet[d + 1]) = d
    <2>1. d + 1 \in 1..64
        OBVIOUS
    <2> DEFINE i == CHOOSE i \in 1..64 : k_alphabet[i] = k_alphabet[d + 1]
    <2>2. i \in 1..64 /\ k_alphabet[i] = k_alphabet[d + 1]
        BY <2>1
    <2>3. i = d + 1
        BY <2>1, <2>2, Alphabet
    <2>4. k_alphabet[d + 1] # "=" /\ d + 1 \in DOMAIN k_alphabet
        BY <2>1, Alphabet, SMTT(30)
    <2> HIDE DEF i
    <2>5. Digit(k_alphabet[d + 1]) = i - 1
        BY <2>4 DEF Digit, i
    <2> QED
        BY <2>3, <2>4, <2>5 DEF ToSet
<1> QED
    BY <1>1, <1>2

\* The k-th byte, of which the last group may lack some.
At(bytes, k) == IF k <= Len(bytes) THEN bytes[k] ELSE 0

\* The number that the bytes of a group make.
NumberOf(bytes, g) == (At(bytes, 3 * g + 1) * 256 + At(bytes, 3 * g + 2)) * 256 + At(bytes, 3 * g + 3)

\* Its four digits.
Digits(n) == <<n \div 262144, (n \div 4096) % 64, (n \div 64) % 64, n % 64>>

\* Its three bytes.
Group(n) == <<n \div 65536, (n \div 256) % 256, n % 256>>

\* The number that the four digits of a group make.
NumberIn(text, g) ==
    ((Digit(text[4 * g + 1]) * 64 + Digit(text[4 * g + 2])) * 64 + Digit(text[4 * g + 3])) * 64
        + Digit(text[4 * g + 4])

\* The numbers of three bytes, or of four digits.
Threes == {n \in Nat : n \div 65536 < 256}

\* Three bytes make a number of 24 bits, and the number gives them back.
LEMMA NumberRange ==
    ASSUME NEW a \in Bytes, NEW b \in Bytes, NEW c \in Bytes,
           NEW n, n = (a * 256 + b) * 256 + c
    PROVE  /\ n \in Threes
           /\ Group(n) = <<a, b, c>>
           /\ c = 0 => n % 64 = 0
           /\ b = 0 /\ c = 0 => (n \div 64) % 64 = 0
<1>1. n \in Nat /\ n = 65536 * a + 256 * b + c /\ a <= 255 /\ b <= 255 /\ c <= 255
        /\ a \in Nat /\ b \in Nat /\ c \in Nat
    BY SMT DEF Bytes
<1>2. n \div 65536 = a
    BY <1>1, SMT
<1>3. n \div 256 = 256 * a + b /\ n % 256 = c
    BY <1>1, SMT
<1>4. (n \div 256) % 256 = b
    BY <1>1, <1>3, SMT
<1>5. n \in Threes
    BY <1>1, <1>2, SMT DEF Threes
<1>6. c = 0 => n % 64 = 0
    BY <1>1, SMT
<1>7. b = 0 /\ c = 0 => (n \div 64) % 64 = 0
    <2> SUFFICES ASSUME b = 0, c = 0 PROVE (n \div 64) % 64 = 0
        OBVIOUS
    <2>1. n \div 64 = 1024 * a
        BY <1>1, SMT
    <2> QED
        BY <1>1, <2>1, SMT
<1> QED
    BY <1>2, <1>3, <1>4, <1>5, <1>6, <1>7, SMT DEF Group

\* A number of 24 bits is four digits, of which it can be made again.
LEMMA DigitsMake ==
    ASSUME NEW n \in Threes
    PROVE  /\ Digits(n) \in [1..4 -> 0..63]
           /\ ((Digits(n)[1] * 64 + Digits(n)[2]) * 64 + Digits(n)[3]) * 64 + Digits(n)[4] = n
<1> DEFINE p == n \div 64
           q == n \div 4096
           r == n \div 262144
           z == n % 64
           y == p % 64
           x == q % 64
<1>1. n \in Nat /\ n \div 65536 < 256
    BY SMT DEF Threes
<1>2. p \in Nat /\ q \in Nat /\ r \in Nat
    BY <1>1, SMT
<1>3. z \in 0..63 /\ y \in 0..63 /\ x \in 0..63
    BY <1>1, <1>2, SMT
<1>4. n = 64 * p + z
    BY <1>1, SMT
<1>5. p = 64 * q + y
    <2>1. 4096 * q <= n /\ n < 4096 * q + 4096
        BY <1>1, SMT
    <2>2. 64 * q <= p /\ p < 64 * q + 64
        BY <1>1, <1>2, <1>3, <1>4, <2>1, SMT
    <2> HIDE DEF p, q
    <2> QED
        BY <1>2, <2>2, SMT
<1>6. q = 64 * r + x
    <2>1. 4096 * q <= n /\ n < 4096 * q + 4096
        BY <1>1, SMT
    <2>2. 262144 * r <= n /\ n < 262144 * r + 262144
        BY <1>1, SMT
    <2> HIDE DEF q, r
    <2>3. 64 * r <= q /\ q < 64 * r + 64
        BY <1>1, <1>2, <2>1, <2>2, SMT
    <2> QED
        BY <1>2, <2>3, SMT
<1>7. r \in 0..63
    BY <1>1, SMT
<1>8. Digits(n) = <<r, x, y, z>>
    BY SMT DEF Digits
<1> HIDE DEF p, q, r, x, y, z
<1>9. ((r * 64 + x) * 64 + y) * 64 + z = n
    BY <1>1, <1>2, <1>3, <1>4, <1>5, <1>6, <1>7, SMT
<1> QED
    BY <1>3, <1>7, <1>8, <1>9, SMT

\* The groups of three bytes, the last of which may lack one or two.
Groups(bytes) == (Len(bytes) + 2) \div 3

\* How many groups of three there are, with the last one.
LEMMA GroupsOf ==
    ASSUME NEW bytes \in Seq(Bytes)
    PROVE  /\ Len(bytes) \in Nat /\ Groups(bytes) \in Nat
           /\ Len(bytes) <= 3 * Groups(bytes) /\ 3 * Groups(bytes) < Len(bytes) + 3
BY DEF Groups

\* The i-th character of the g-th group of a text.
CharAt(bytes, g, i) ==
    IF 3 * g + i > Len(bytes) + 1 THEN "=" ELSE k_alphabet[Digits(NumberOf(bytes, g))[i] + 1]

\* The characters of a text that base64_encode() writes.
LEMMA EncodedIs ==
    ASSUME NEW bytes \in Seq(Bytes)
    PROVE  /\ Len(base64_encode(bytes)) = 4 * Groups(bytes)
           /\ DOMAIN base64_encode(bytes) = 1..(4 * Groups(bytes))
           /\ \A g \in 0..(Groups(bytes) - 1), i \in 1..4 :
                 base64_encode(bytes)[4 * g + i] = CharAt(bytes, g, i)
<1> DEFINE G == Groups(bytes)
           text == base64_encode(bytes)
<1>1. G \in Nat /\ 4 * G \in Nat
    BY GroupsOf
<1>2. text = [k \in 1..(4 * G) |-> CharAt(bytes, (k - 1) \div 4, ((k - 1) % 4) + 1)]
    BY SMTT(30) DEF base64_encode, NumberOf, At, Digits, CharAt, Groups
<1> HIDE DEF G, text
<1>3. ASSUME NEW g \in 0..(G - 1), NEW i \in 1..4 PROVE text[4 * g + i] = CharAt(bytes, g, i)
    <2> DEFINE k == 4 * g + i
    <2>1. k \in 1..(4 * G) /\ (k - 1) \div 4 = g /\ ((k - 1) % 4) + 1 = i
        BY <1>1
    <2> HIDE DEF k
    <2>2. text[k] = CharAt(bytes, (k - 1) \div 4, ((k - 1) % 4) + 1)
        BY <1>2, <2>1
    <2>3. text[k] = CharAt(bytes, g, i)
        BY <2>1, <2>2
    <2> QED
        BY <2>3 DEF k
<1>4. Len(text) = 4 * G /\ DOMAIN text = 1..(4 * G)
    BY <1>1, <1>2
<1> QED
    BY <1>3, <1>4 DEF G, text

\* The bytes of the data that base64_decode() reads.
LEMMA DecodedIs ==
    ASSUME NEW text
    PROVE  base64_decode(text) =
             [k \in 1..(3 * (Len(text) \div 4) - Missing(text)) |->
                 Group(NumberIn(text, (k - 1) \div 3))[((k - 1) % 3) + 1]]
BY SMTT(30) DEF base64_decode, NumberIn, Group, Digit

\* A group of bytes is read back from its four characters, padded or not.
LEMMA GroupRead ==
    ASSUME NEW bytes \in Seq(Bytes), NEW text, text = base64_encode(bytes),
           NEW g \in 0..(Groups(bytes) - 1)
    PROVE  /\ Group(NumberIn(text, g)) =
                 <<At(bytes, 3 * g + 1), At(bytes, 3 * g + 2), At(bytes, 3 * g + 3)>>
           /\ \A i \in 1..4 :
                 IF 3 * g + i > Len(bytes) + 1 THEN text[4 * g + i] = "="
                 ELSE text[4 * g + i] # "=" /\ text[4 * g + i] \in ToSet(k_alphabet)
<1> DEFINE n == Len(bytes)
           a == At(bytes, 3 * g + 1)
           b == At(bytes, 3 * g + 2)
           c == At(bytes, 3 * g + 3)
           N == NumberOf(bytes, g)
           d == Digits(N)
<1>1. n \in Nat /\ g \in Nat /\ 3 * g + 1 <= n
    BY GroupsOf
<1> HIDE DEF n
<1>2. ASSUME NEW k \in Nat \ {0} PROVE At(bytes, k) \in Bytes /\ (k > n => At(bytes, k) = 0)
    <2>1. 0 \in Bytes
        BY DEF Bytes
    <2>2. k <= Len(bytes) => bytes[k] \in Bytes
        OBVIOUS
    <2> QED
        BY <1>1, <2>1, <2>2 DEF At, n
<1>a. 3 * g + 1 \in Nat \ {0} /\ 3 * g + 2 \in Nat \ {0} /\ 3 * g + 3 \in Nat \ {0}
    BY <1>1
<1>b. /\ a \in Bytes /\ b \in Bytes /\ c \in Bytes
      /\ 3 * g + 2 > n => b = 0
      /\ 3 * g + 3 > n => c = 0
    BY <1>2, <1>a
<1>3. N = (a * 256 + b) * 256 + c
    BY DEF NumberOf
<1> HIDE DEF a, b, c, N
<1>0. N \in Threes
    BY <1>b, <1>3, NumberRange
<1>4. /\ Group(N) = <<a, b, c>>
      /\ c = 0 => N % 64 = 0
      /\ b = 0 /\ c = 0 => (N \div 64) % 64 = 0
    BY <1>b, <1>3, NumberRange
<1>5. /\ d \in [1..4 -> 0..63]
      /\ ((d[1] * 64 + d[2]) * 64 + d[3]) * 64 + d[4] = N
    BY <1>0, DigitsMake
<1>6. d[3] = (N \div 64) % 64 /\ d[4] = N % 64
    BY SMTT(30) DEF Digits
<1>c. \A i \in 1..4 : text[4 * g + i] = CharAt(bytes, g, i)
    BY EncodedIs
<1>d. \A i \in 1..4 : CharAt(bytes, g, i) = IF 3 * g + i > n + 1 THEN "=" ELSE k_alphabet[d[i] + 1]
    BY DEF CharAt, n, N
<1> HIDE DEF d
<1>7. ASSUME NEW i \in 1..4
      PROVE  /\ Digit(text[4 * g + i]) = d[i]
             /\ IF 3 * g + i > n + 1 THEN text[4 * g + i] = "="
                ELSE text[4 * g + i] # "=" /\ text[4 * g + i] \in ToSet(k_alphabet)
    <2>1. text[4 * g + i] = IF 3 * g + i > n + 1 THEN "=" ELSE k_alphabet[d[i] + 1]
        BY <1>c, <1>d
    <2>2. CASE 3 * g + i > n + 1
        <3>1. (i = 3 \/ i = 4) /\ 3 * g + 3 > n /\ (i = 3 => 3 * g + 2 > n)
            BY <1>1, <2>2
        <3>2. d[i] = 0
            BY <1>b, <1>4, <1>6, <3>1
        <3> QED
            BY <2>1, <2>2, <3>2, DigitOf
    <2>3. CASE ~(3 * g + i > n + 1)
        <3>1. d[i] \in 0..63
            BY <1>5
        <3> QED
            BY <2>1, <2>3, <3>1, DigitOf
    <2> QED
        BY <2>2, <2>3
<1>8. NumberIn(text, g) = N
    <2>1. /\ Digit(text[4 * g + 1]) = d[1] /\ Digit(text[4 * g + 2]) = d[2]
          /\ Digit(text[4 * g + 3]) = d[3] /\ Digit(text[4 * g + 4]) = d[4]
        BY <1>7
    <2> QED
        BY <1>5, <2>1 DEF NumberIn
<1> QED
    BY <1>4, <1>7, <1>8 DEF a, b, c, n

\* Every sequence of bytes is read back from its text.
THEOREM Base64RoundTrip ==
    ASSUME NEW bytes \in Seq(Bytes)
    PROVE  /\ is_base64(base64_encode(bytes))
           /\ base64_decode(base64_encode(bytes)) = bytes
<1> DEFINE n == Len(bytes)
           G == Groups(bytes)
           text == base64_encode(bytes)
<1>1. n \in Nat /\ G \in Nat /\ n <= 3 * G /\ 3 * G < n + 3
    BY GroupsOf
<1>a. Len(text) = 4 * G /\ DOMAIN text = 1..(4 * G)
    BY EncodedIs
<1>2. ASSUME NEW g \in 0..(G - 1)
      PROVE  /\ Group(NumberIn(text, g)) =
                   <<At(bytes, 3 * g + 1), At(bytes, 3 * g + 2), At(bytes, 3 * g + 3)>>
             /\ \A i \in 1..4 :
                   IF 3 * g + i > n + 1 THEN text[4 * g + i] = "="
                   ELSE text[4 * g + i] # "=" /\ text[4 * g + i] \in ToSet(k_alphabet)
    BY GroupRead
<1> HIDE DEF n, G, text
<1>3. ASSUME NEW k \in 1..(4 * G)
      PROVE  IF text[k] = "=" THEN k > 4 * G - 4 /\ (k = 4 * G - 1 => text[k + 1] = "=")
             ELSE text[k] \in ToSet(k_alphabet)
    <2> DEFINE g == (k - 1) \div 4
               i == ((k - 1) % 4) + 1
    <2>1. g \in 0..(G - 1) /\ i \in 1..4 /\ k = 4 * g + i
        BY <1>1
    <2> HIDE DEF g, i
    <2>2. IF 3 * g + i > n + 1 THEN text[k] = "="
          ELSE text[k] # "=" /\ text[k] \in ToSet(k_alphabet)
        BY <1>2, <2>1
    <2>3. CASE 3 * g + i > n + 1
        <3>1. g = G - 1
            BY <1>1, <2>1, <2>3
        <3>2. k > 4 * G - 4
            BY <1>1, <2>1, <3>1
        <3>3. ASSUME k = 4 * G - 1 PROVE text[k + 1] = "="
            <4>1. i = 3 /\ k + 1 = 4 * g + 4 /\ 3 * g + 4 > n + 1
                BY <1>1, <2>1, <2>3, <3>1, <3>3
            <4>2. 4 \in 1..4
                OBVIOUS
            <4> QED
                BY <1>2, <2>1, <4>1, <4>2
        <3> QED
            BY <2>2, <2>3, <3>2, <3>3
    <2> QED
        BY <2>2, <2>3
<1>4. is_base64(text)
    <2>1. (4 * G) % 4 = 0
        BY <1>1
    <2> QED
        BY <1>a, <1>3, <2>1 DEF is_base64
<1>5. Missing(text) = 3 * G - n
    <2>1. CASE n = 0
        <3>1. G = 0 /\ text = <<>>
            BY <1>1, <1>a, <2>1
        <3> QED
            BY <2>1, <3>1 DEF Missing
    <2>2. CASE n # 0
        <3>1. G - 1 \in 0..(G - 1) /\ text # <<>> /\ 4 * (G - 1) + 4 = 4 * G
                /\ 4 * (G - 1) + 3 = 4 * G - 1
            BY <1>1, <1>a, <2>2
        <3>2. /\ IF 3 * G + 1 > n + 1 THEN text[4 * G] = "=" ELSE text[4 * G] # "="
              /\ IF 3 * G > n + 1 THEN text[4 * G - 1] = "=" ELSE text[4 * G - 1] # "="
            <4>1. 3 * (G - 1) + 4 = 3 * G + 1 /\ 3 * (G - 1) + 3 = 3 * G /\ 3 \in 1..4 /\ 4 \in 1..4
                BY <1>1
            <4> QED
                BY <1>2, <3>1, <4>1
        <3> QED
            BY <1>1, <1>a, <3>1, <3>2 DEF Missing
    <2> QED
        BY <2>1, <2>2
<1>6. base64_decode(text) =
         [k \in 1..n |-> Group(NumberIn(text, (k - 1) \div 3))[((k - 1) % 3) + 1]]
    <2>1. 3 * (Len(text) \div 4) - Missing(text) = n
        <3>1. (4 * G) \div 4 = G
            BY <1>1
        <3> QED
            BY <1>1, <1>a, <1>5, <3>1
    <2> QED
        BY <2>1, DecodedIs
<1>7. ASSUME NEW k \in 1..n
      PROVE  Group(NumberIn(text, (k - 1) \div 3))[((k - 1) % 3) + 1] = bytes[k]
    <2> DEFINE g == (k - 1) \div 3
               i == ((k - 1) % 3) + 1
    <2>1. g \in 0..(G - 1) /\ (i = 1 \/ i = 2 \/ i = 3) /\ k = 3 * g + i
        BY <1>1
    <2> HIDE DEF g, i
    <2>2. Group(NumberIn(text, g)) =
                   <<At(bytes, 3 * g + 1), At(bytes, 3 * g + 2), At(bytes, 3 * g + 3)>>
        BY <1>2, <2>1
    <2>3. Group(NumberIn(text, g))[i] = At(bytes, k)
        BY <2>1, <2>2
    <2>4. At(bytes, k) = bytes[k]
        BY DEF At, n
    <2> QED
        BY <2>3, <2>4 DEF g, i
<1>8. base64_decode(text) = bytes
    <2>1. bytes = [k \in 1..n |-> bytes[k]]
        BY DEF n
    <2> QED
        BY <1>6, <1>7, <2>1
<1> QED
    BY <1>4, <1>8 DEF text

\* Every word is read back from its text.
LEMMA WordRoundTrip ==
    ASSUME NEW n \in Words
    PROVE  is_le_base64(le_base64(n)) /\ le_base64_to_word(le_base64(n)) = n
<1> DEFINE a == n % 256
           b == n \div 256
<1>0. n \in Nat /\ n < 65536
    <2>1. n \in Nat
        BY SMTT(30) DEF Words
    <2>2. n <= 65535
        BY SMTT(30) DEF Words
    <2> QED
        BY <2>1, <2>2, SMT
<1>1. a \in Bytes /\ b \in Bytes /\ a + 256 * b = n /\ n % (2 * Half) = n
    <2>1. a \in Bytes /\ b \in Bytes
        BY <1>0, SMT DEF Bytes
    <2>2. a + 256 * b = n
        BY <1>0, SMT
    <2>3. n % (2 * Half) = n
        BY <1>0, SMT DEF Half
    <2> QED
        BY <2>1, <2>2, <2>3
<1>2. le_base64(n) = base64_encode(<<a, b>>)
    BY <1>1 DEF le_base64, to_le_bytes
<1> HIDE DEF a, b
<1>3. <<a, b>> \in Seq(Bytes) /\ Len(<<a, b>>) = 2
    BY <1>1
<1>4. is_base64(le_base64(n)) /\ base64_decode(le_base64(n)) = <<a, b>>
    BY <1>2, <1>3, Base64RoundTrip
<1> QED
    BY <1>1, <1>3, <1>4 DEF is_le_base64, le_base64_to_word

\* A number of 16 bits is a word.
LEMMA WordOf ==
    ASSUME NEW w \in Nat, w <= 65535
    PROVE  w \in Words
<1>1. PICK k \in Nat : k = 65535
    BY SMT
<1>2. Words = 0..k
    BY <1>1, SMT DEF Words
<1>3. w <= k
    BY <1>1, SMT
<1>4. w \in 0..k
    BY <1>3, SMT
<1> QED
    BY <1>2, <1>4

\* Every integer that has 16 bits with its sign, of which the code has 64, is
\* read back with its sign (int64_to_le_base64, le_base64_to_int64).
THEOREM IntegerRoundTrip ==
    ASSUME NEW n \in Int, -Half <= n, n < Half
    PROVE  is_le_base64(le_base64(n)) /\ le_base64_to_int(le_base64(n)) = n
<1>1. 0 - 32768 <= n /\ n <= 32767
    BY SMTT(30) DEF Half
<1>2. PICK w : w = IF n < 0 THEN n + 65536 ELSE n
    OBVIOUS
<1>3. w \in Nat /\ w <= 65535
    BY <1>1, <1>2, SMT
<1>4. n % (2 * Half) = w
    <2>1. CASE n < 0
        BY <1>1, <1>2, <2>1, SMTT(30) DEF Half
    <2>2. CASE ~(n < 0)
        BY <1>1, <1>2, <2>2, SMTT(30) DEF Half
    <2> QED
        BY <2>1, <2>2
<1>5. w % (2 * Half) = w
    BY <1>3, SMTT(30) DEF Half
<1>6. le_base64(n) = le_base64(w)
    BY <1>4, <1>5 DEF le_base64
<1>7. is_le_base64(le_base64(w)) /\ le_base64_to_word(le_base64(w)) = w
    BY <1>3, WordOf, WordRoundTrip
<1>8. le_base64_to_int(le_base64(w)) = IF w >= Half THEN w - 2 * Half ELSE w
    BY <1>7 DEF le_base64_to_int
<1>9. (IF w >= Half THEN w - 2 * Half ELSE w) = n
    BY <1>1, <1>2, SMTT(30) DEF Half
<1> QED
    BY <1>6, <1>7, <1>8, <1>9

-----------------------------------------------------------------------------
(* Outcomes of decoding.                                                   *)

\* The outcomes that ws_message() handles.
Handled == {"ok", "protocol_error"}
\* The checks all pass.
Passes(checks) == ToSet(checks) \subseteq {"ok"}

\* The members of a list made of two.
LEMMA Joined ==
    ASSUME NEW S, NEW s \in Seq(S), NEW t \in Seq(S)
    PROVE  s \o t \in Seq(S) /\ ToSet(s \o t) = ToSet(s) \cup ToSet(t)
<1>1. s \o t \in Seq(S)
    OBVIOUS
<1>2. ASSUME NEW x \in ToSet(s \o t) PROVE x \in ToSet(s) \cup ToSet(t)
    <2>1. PICK i \in DOMAIN (s \o t) : x = (s \o t)[i]
        BY DEF ToSet
    <2>2. CASE i <= Len(s)
        BY <2>1, <2>2 DEF ToSet
    <2>3. CASE ~(i <= Len(s))
        <3>1. i - Len(s) \in DOMAIN t /\ x = t[i - Len(s)]
            BY <2>1, <2>3
        <3> QED
            BY <3>1 DEF ToSet
    <2> QED
        BY <2>2, <2>3
<1>3. ASSUME NEW x \in ToSet(s) PROVE x \in ToSet(s \o t)
    <2>1. PICK i \in DOMAIN s : x = s[i]
        BY DEF ToSet
    <2>2. i \in DOMAIN (s \o t) /\ (s \o t)[i] = x
        BY <2>1
    <2> QED
        BY <2>2 DEF ToSet
<1>4. ASSUME NEW x \in ToSet(t) PROVE x \in ToSet(s \o t)
    <2>1. PICK i \in DOMAIN t : x = t[i]
        BY DEF ToSet
    <2>2. i + Len(s) \in DOMAIN (s \o t) /\ (s \o t)[i + Len(s)] = x
        BY <2>1
    <2> QED
        BY <2>2 DEF ToSet
<1> QED
    BY <1>1, <1>2, <1>3, <1>4

\* A set of natural numbers has a smallest one.
LEMMA SmallestOf ==
    ASSUME NEW S \in SUBSET Nat, S # {}
    PROVE  \E i \in S : \A k \in S : i <= k
<1>1. PICK i \in S : \A k \in S : ~(<<k, i>> \in OpToRel(<, Nat))
    BY NatLessThanWellFounded, WFMin
<1>2. \A k \in S : ~(k < i)
    BY <1>1 DEF OpToRel
<1> QED
    BY <1>2

\* Checks that all pass throw nothing.
LEMMA OutcomeOk ==
    ASSUME NEW checks, Passes(checks)
    PROVE  Outcome(checks) = "ok"
BY DEF Passes, ToSet, Outcome

\* Where only protocol_error can be thrown, a check that fails throws it.
LEMMA OutcomeFails ==
    ASSUME NEW checks \in Seq(Handled), ~Passes(checks)
    PROVE  Outcome(checks) = "protocol_error"
<1> DEFINE failed == {i \in DOMAIN checks : checks[i] # "ok"}
<1>1. failed # {} /\ failed \in SUBSET Nat
    BY DEF Passes, ToSet
<1>2. PICK i \in failed : i = CHOOSE n \in failed : \A k \in failed : n <= k
    BY <1>1, SmallestOf
<1>3. checks[i] = "protocol_error"
    BY <1>1, <1>2 DEF Handled
<1> QED
    BY <1>1, <1>2, <1>3 DEF Outcome

\* What is thrown by checks of which none throws codec_error.
LEMMA OutcomePasses ==
    ASSUME NEW checks \in Seq(Handled)
    PROVE  Outcome(checks) \in Handled /\ (Outcome(checks) = "ok" <=> Passes(checks))
BY OutcomeOk, OutcomeFails DEF Handled

-----------------------------------------------------------------------------
(* Fields of documents.                                                    *)

\* A field that is not absent is there.
LEMMA FieldThere ==
    ASSUME NEW j, NEW f, Field(j, f) # Absent
    PROVE  Has(j, f) /\ j[2][f] = Field(j, f)
BY DEF Field

\* An optional field that is given is there.
LEMMA GivenThere ==
    ASSUME NEW j, NEW f, Given(j, f)
    PROVE  Has(j, f) /\ j[2][f] = Field(j, f)
BY FieldThere DEF Given

\* The fields of an object are those it was made of.
LEMMA FieldOf ==
    ASSUME NEW fields
    PROVE  /\ Object(fields)[1] = "object"
           /\ \A f : Field(Object(fields), f) =
                        IF f \in DOMAIN fields THEN fields[f] ELSE Absent
BY DEF Object, Field, Has

\* The fields of an object with one removed.
LEMMA FieldWithout ==
    ASSUME NEW j, j[1] = "object", NEW f
    PROVE  /\ Without(j, f)[1] = "object"
           /\ \A g : Field(Without(j, f), g) = IF g = f THEN Absent ELSE Field(j, g)
BY DEF Without, Field, Has

\* The fields of an object with one replaced.
LEMMA FieldWith ==
    ASSUME NEW j, j[1] = "object", NEW f, NEW node
    PROVE  /\ With(j, f, node)[1] = "object"
           /\ \A g : Field(With(j, f, node), g) = IF g = f THEN node ELSE Field(j, g)
BY DEF With, Field, Has

\* Different words are different strings, and a word is there.
LEMMA WordsApart ==
    /\ \A v, w : Word(v) = Word(w) => v = w
    /\ \A w : IsString(Word(w)) /\ Word(w) # Absent
BY DEF Word, IsString, Absent

\* Garbage is nothing that a field can hold.
LEMMA GarbageIs ==
    /\ Garbage[1] = "object" /\ Garbage \notin {Absent, Null}
    /\ ~IsString(Garbage)
BY DEF Garbage, Wrapper, Absent, Null, IsString

\* A document that names a type has it.
LEMMA TypeIs ==
    ASSUME NEW j, NEW t \in Types, Field(j, "type") = Word(t)
    PROVE  TypeOf(j) = t
BY WordsApart DEF TypeOf

\* When all of a few checks pass.
LEMMA Tuples ==
  /\ \A a : Passes(<<a>>) <=> a = "ok"
  /\ \A a, b : Passes(<<a, b>>) <=> a = "ok" /\ b = "ok"
  /\ \A a, b, c : Passes(<<a, b, c>>) <=> a = "ok" /\ b = "ok" /\ c = "ok"
  /\ \A a, b, c, d : Passes(<<a, b, c, d>>) <=> a = "ok" /\ b = "ok" /\ c = "ok" /\ d = "ok"
  /\ \A a, b, c, d, e : Passes(<<a, b, c, d, e>>) <=> a = "ok" /\ b = "ok" /\ c = "ok" /\ d = "ok" /\ e = "ok"
<1>1. \A a : Passes(<<a>>) <=> a = "ok"
 BY DEF Passes, ToSet
<1>2. \A a, b : Passes(<<a, b>>) <=> a = "ok" /\ b = "ok"
 BY DEF Passes, ToSet
<1>3. \A a, b, c : Passes(<<a, b, c>>) <=> a = "ok" /\ b = "ok" /\ c = "ok"
 BY DEF Passes, ToSet
<1>4. \A a, b, c, d : Passes(<<a, b, c, d>>) <=> a = "ok" /\ b = "ok" /\ c = "ok" /\ d = "ok"
 BY DEF Passes, ToSet
<1>5. \A a, b, c, d, e : Passes(<<a, b, c, d, e>>) <=> a = "ok" /\ b = "ok" /\ c = "ok" /\ d = "ok" /\ e = "ok"
 BY DEF Passes, ToSet
<1> QED BY <1>1, <1>2, <1>3, <1>4, <1>5

-----------------------------------------------------------------------------
(* What decoding asks of a document.                                       *)

\* No check of a field throws codec_error but the one of errorData.
LEMMA Checked ==
    /\ \A j, f : RequireU32(j, f) \in Handled /\ RequireString(j, f) \in Handled
    /\ \A j : /\ RequireTimestamp(j) \in Handled /\ RequireValue(j) \in Handled
              /\ CheckLogLines(j) \in Handled /\ CheckJournal(j) \in Handled
              /\ CheckErrorData(j) \in {"ok", "codec_error"}
BY DEF RequireU32, RequireString, RequireTimestamp, RequireValue, CheckLogLines, CheckJournal,
       CheckErrorData, Protocol, Check, Handled

\* A modification is refused for the kinds of its fields, which its type says.
LEMMA ModificationVerdict ==
    ASSUME NEW mod, Field(mod, "type") = Word("QueryFailed") => CheckErrorData(mod) = "ok"
    PROVE  /\ Outcome(ModificationChecks(mod)) \in Handled
           /\ Outcome(ModificationChecks(mod)) = "ok" <=>
                \/ /\ Field(mod, "type") = Word("QueryUpdated")
                   /\ RequireU32(mod, "queryId") = "ok"
                   /\ RequireValue(Field(mod, "value")) = "ok"
                   /\ CheckLogLines(mod) = "ok" /\ CheckJournal(mod) = "ok"
                \/ /\ Field(mod, "type") = Word("QueryFailed")
                   /\ RequireU32(mod, "queryId") = "ok"
                   /\ RequireString(mod, "errorMessage") = "ok"
                   /\ CheckLogLines(mod) = "ok" /\ CheckJournal(mod) = "ok"
                \/ /\ Field(mod, "type") = Word("QueryRemoved")
                   /\ RequireU32(mod, "queryId") = "ok"
<1> DEFINE type == Field(mod, "type")
           first == <<RequireString(mod, "type")>>
<1>0. first \in Seq(Handled) /\ (Passes(first) <=> IsString(type))
    <2>1. first \in Seq(Handled)
        BY Checked
    <2>2. Passes(first) <=> RequireString(mod, "type") = "ok"
        BY Tuples
    <2> QED
        BY <2>1, <2>2 DEF RequireString, Protocol, Check
<1> HIDE DEF first
<1>1. ASSUME NEW rest \in Seq(Handled), ModificationChecks(mod) = first \o rest
      PROVE  /\ Outcome(ModificationChecks(mod)) \in Handled
             /\ Outcome(ModificationChecks(mod)) = "ok" <=> IsString(type) /\ Passes(rest)
    <2>0. first \o rest \in Seq(Handled) /\ ToSet(first \o rest) = ToSet(first) \cup ToSet(rest)
        BY <1>0, <1>1, Joined
    <2>1. first \o rest \in Seq(Handled) /\ (Passes(first \o rest) <=> Passes(first) /\ Passes(rest))
        BY <2>0 DEF Passes
    <2> QED
        BY <1>0, <1>1, <2>1, OutcomePasses
<1>w. \A w : IsString(Word(w))
    BY WordsApart
<1>d. "QueryUpdated" # "QueryFailed" /\ "QueryUpdated" # "QueryRemoved" /\ "QueryFailed" # "QueryRemoved"
    OBVIOUS
<1>e. Word("QueryUpdated") # Word("QueryFailed") /\ Word("QueryUpdated") # Word("QueryRemoved")
      /\ Word("QueryFailed") # Word("QueryRemoved")
    BY <1>d, WordsApart
<1>2. CASE type = Word("QueryUpdated")
    <2> DEFINE rest == <<RequireU32(mod, "queryId"), RequireValue(Field(mod, "value")),
                         CheckLogLines(mod), CheckJournal(mod)>>
    <2>1. ModificationChecks(mod) = first \o rest
        BY <1>2, <1>e DEF ModificationChecks, first
    <2>2. rest \in Seq(Handled)
        BY Checked
    <2>3. Passes(rest) <=> /\ RequireU32(mod, "queryId") = "ok"
                           /\ RequireValue(Field(mod, "value")) = "ok"
                           /\ CheckLogLines(mod) = "ok" /\ CheckJournal(mod) = "ok"
        BY Tuples, SMTT(30)
    <2> HIDE DEF rest
    <2> QED
        BY <1>1, <1>2, <1>e, <1>w, <2>1, <2>2, <2>3
<1>3. CASE type = Word("QueryFailed")
    <2> DEFINE rest == <<RequireU32(mod, "queryId"), RequireString(mod, "errorMessage"),
                         CheckErrorData(mod), CheckLogLines(mod), CheckJournal(mod)>>
    <2>1. ModificationChecks(mod) = first \o rest
        BY <1>3, <1>e DEF ModificationChecks, first
    <2>0. CheckErrorData(mod) = "ok"
        BY <1>3
    <2>2. rest \in Seq(Handled)
        BY Checked, <2>0 DEF Handled
    <2>3. Passes(rest) <=> /\ RequireU32(mod, "queryId") = "ok"
                           /\ RequireString(mod, "errorMessage") = "ok"
                           /\ CheckErrorData(mod) = "ok"
                           /\ CheckLogLines(mod) = "ok" /\ CheckJournal(mod) = "ok"
        BY Tuples, SMTT(30)
    <2> HIDE DEF rest
    <2> QED
        BY <1>1, <1>3, <1>e, <1>w, <2>1, <2>2, <2>3, <2>0
<1>4. CASE type = Word("QueryRemoved")
    <2> DEFINE rest == <<RequireU32(mod, "queryId")>>
    <2>1. ModificationChecks(mod) = first \o rest
        BY <1>4, <1>e DEF ModificationChecks, first
    <2>2. rest \in Seq(Handled)
        BY Checked
    <2>3. Passes(rest) <=> RequireU32(mod, "queryId") = "ok"
        BY Tuples
    <2> HIDE DEF rest
    <2> QED
        BY <1>1, <1>4, <1>e, <1>w, <2>1, <2>2, <2>3
<1>5. CASE type \notin {Word("QueryUpdated"), Word("QueryFailed"), Word("QueryRemoved")}
    <2> DEFINE rest == <<"protocol_error">>
    <2>1. ModificationChecks(mod) = first \o rest
        BY <1>5 DEF ModificationChecks, first
    <2>2. rest \in Seq(Handled)
        BY DEF Handled
    <2>3. ~Passes(rest)
        BY Tuples
    <2> HIDE DEF rest
    <2> QED
        BY <1>1, <1>5, <2>1, <2>2, <2>3
<1> QED
    BY <1>2, <1>3, <1>4, <1>5

\* What decode_function_result() asks of a response.
ResultReadable(j) ==
    /\ Field(j, "success")[1] = "boolean"
    /\ Field(j, "success") = <<"boolean", TRUE>> => RequireValue(Field(j, "result")) = "ok"
    /\ Field(j, "success") # <<"boolean", TRUE>> => IsString(Field(j, "result"))

\* Two lists of checks pass when each does.
LEMMA JoinedTwo ==
    ASSUME NEW s \in Seq(Handled), NEW t \in Seq(Handled)
    PROVE  s \o t \in Seq(Handled) /\ (Passes(s \o t) <=> Passes(s) /\ Passes(t))
<1>1. s \o t \in Seq(Handled) /\ ToSet(s \o t) = ToSet(s) \cup ToSet(t)
    BY Joined
<1> QED
    BY <1>1 DEF Passes

\* The checks of a result pass when it can be read.
LEMMA ResultVerdict ==
    ASSUME NEW j, Field(j, "success") # <<"boolean", TRUE>> => CheckErrorData(j) = "ok"
    PROVE  ResultChecks(j) \in Seq(Handled) /\ (Passes(ResultChecks(j)) <=> ResultReadable(j))
<1> DEFINE success == Field(j, "success")
           result == Field(j, "result")
           first == <<Protocol(success[1] = "boolean"), Protocol(result # Absent)>>
           read == <<RequireValue(result)>>
           error == <<Protocol(IsString(result)), CheckErrorData(j)>>
<1>1. first \in Seq(Handled) /\ (Passes(first) <=> success[1] = "boolean" /\ result # Absent)
    <2>1. Protocol(success[1] = "boolean") \in Handled /\ Protocol(result # Absent) \in Handled
        BY DEF Protocol, Check, Handled
    <2>2. Passes(first) <=> Protocol(success[1] = "boolean") = "ok" /\ Protocol(result # Absent) = "ok"
        BY Tuples, SMTT(30)
    <2> QED
        BY <2>1, <2>2 DEF Protocol, Check
<1>2. read \in Seq(Handled) /\ (Passes(read) <=> RequireValue(result) = "ok")
    BY Checked, Tuples
<1>3. RequireValue(result) = "ok" => result # Absent
    BY DEF RequireValue, Protocol, Check
<1>4. IsString(result) => result # Absent
    BY DEF IsString, Absent
<1>5. ASSUME CheckErrorData(j) = "ok"
      PROVE  error \in Seq(Handled) /\ (Passes(error) <=> IsString(result))
    <2>1. Protocol(IsString(result)) \in Handled /\ CheckErrorData(j) \in Handled
        BY <1>5 DEF Protocol, Check, Handled
    <2>2. Passes(error) <=> Protocol(IsString(result)) = "ok" /\ CheckErrorData(j) = "ok"
        BY Tuples, SMTT(30)
    <2> QED
        BY <2>1, <2>2, <1>5 DEF Protocol, Check
<1>6. ResultChecks(j) = first \o (IF success = <<"boolean", TRUE>> THEN read ELSE error)
    BY DEF ResultChecks
<1> HIDE DEF first, read, error
<1>7. CASE success = <<"boolean", TRUE>>
    BY <1>1, <1>2, <1>3, <1>6, <1>7, JoinedTwo DEF ResultReadable
<1>8. CASE success # <<"boolean", TRUE>>
    BY <1>1, <1>4, <1>5, <1>6, <1>8, JoinedTwo DEF ResultReadable
<1> QED
    BY <1>7, <1>8

\* What decode_state_version() asks of a document.
VersionReadable(j) ==
    /\ RequireU32(j, "querySet") = "ok" /\ RequireU32(j, "identity") = "ok"
    /\ RequireTimestamp(Field(j, "ts")) = "ok"

\* The checks of a version pass when it can be read.
LEMMA VersionVerdict ==
    ASSUME NEW j
    PROVE  CheckVersion(j) \in Seq(Handled) /\ (Passes(CheckVersion(j)) <=> VersionReadable(j))
<1>1. CheckVersion(j) \in Seq(Handled)
    BY Checked DEF CheckVersion
<1>2. Passes(CheckVersion(j)) <=> VersionReadable(j)
    BY Tuples, SMTT(30) DEF CheckVersion, VersionReadable
<1> QED
    BY <1>1, <1>2

\* The nodes of the array j are modifications, or refused with protocol_error.
ModificationsTame(j) ==
    /\ \E n \in Nat : DOMAIN j[2] = 1..n
    /\ \A i \in DOMAIN j[2] : Outcome(ModificationChecks(j[2][i])) \in Handled

\* What decode_server_message() asks of a document.
Readable(j) ==
    CASE TypeOf(j) = "Transition" ->
           /\ VersionReadable(Field(j, "startVersion")) /\ VersionReadable(Field(j, "endVersion"))
           /\ Field(j, "modifications")[1] = "array"
           /\ \A i \in DOMAIN Field(j, "modifications")[2] :
                 Outcome(ModificationChecks(Field(j, "modifications")[2][i])) = "ok"
      [] TypeOf(j) = "MutationResponse" ->
           /\ RequireU32(j, "requestId") = "ok" /\ ResultReadable(j)
           /\ Given(j, "ts") => RequireTimestamp(Field(j, "ts")) = "ok"
           /\ CheckLogLines(j) = "ok"
      [] TypeOf(j) = "ActionResponse" ->
           RequireU32(j, "requestId") = "ok" /\ ResultReadable(j) /\ CheckLogLines(j) = "ok"
      [] TypeOf(j) \in {"AuthError", "FatalError"} -> IsString(Field(j, "error"))
      [] TypeOf(j) = "Ping" -> TRUE
      [] TypeOf(j) = "TransitionChunk" ->
           /\ RequireString(j, "chunk") = "ok" /\ RequireU32(j, "partNumber") = "ok"
           /\ RequireU32(j, "totalParts") = "ok" /\ RequireString(j, "transitionId") = "ok"
      [] OTHER -> FALSE

\* The documents whose errorData, if they have any, is a value.
Tame(j) ==
    /\ TypeOf(j) = "Transition" /\ Field(j, "modifications")[1] = "array" =>
          ModificationsTame(Field(j, "modifications"))
    /\ TypeOf(j) \in {"MutationResponse", "ActionResponse"}
          /\ Field(j, "success") # <<"boolean", TRUE>> => CheckErrorData(j) = "ok"

\* Only an object with a string for a type has a type that is known.
LEMMA TypeKnown ==
    ASSUME NEW j
    PROVE  /\ TypeOf(j) \in Types \cup {"unsupported"}
           /\ TypeOf(j) # "unsupported" => j[1] = "object" /\ RequireString(j, "type") = "ok"
<1>1. CASE \E t \in Types : Field(j, "type") = Word(t)
    <2>1. PICK t \in Types : Field(j, "type") = Word(t)
        BY <1>1
    <2>2. TypeOf(j) = t
        BY <2>1, TypeIs
    <2>3. IsString(Field(j, "type")) /\ Field(j, "type") # Absent
        BY <2>1, WordsApart
    <2> QED
        BY <2>1, <2>2, <2>3 DEF RequireString, Protocol, Check, Field, Has
<1>2. CASE ~(\E t \in Types : Field(j, "type") = Word(t))
    BY <1>2 DEF TypeOf
<1> QED
    BY <1>1, <1>2

\* A document is refused with protocol_error, or can be read: what is wrong
\* with errorData aside, decode_server_message() throws nothing else.
LEMMA MessageVerdict ==
    ASSUME NEW j, Tame(j)
    PROVE  Verdict(j) \in Handled /\ (Verdict(j) = "ok" <=> Readable(j))
<1> DEFINE first == <<Protocol(j[1] = "object"), RequireString(j, "type")>>
           type == TypeOf(j)
           mods == Field(j, "modifications")
<1>1. first \in Seq(Handled)
    BY Checked DEF Protocol, Check, Handled
<1>2. type # "unsupported" => Passes(first)
    <2>1. type # "unsupported" => Protocol(j[1] = "object") = "ok" /\ RequireString(j, "type") = "ok"
        BY TypeKnown DEF Protocol, Check
    <2> QED
        BY <2>1, Tuples
<1> HIDE DEF first
<1>3. ASSUME NEW rest \in Seq(Handled), MessageChecks(j) = first \o rest, Passes(rest) <=> Readable(j),
             type # "unsupported"
      PROVE  Verdict(j) \in Handled /\ (Verdict(j) = "ok" <=> Readable(j))
    <2>1. first \o rest \in Seq(Handled) /\ (Passes(first \o rest) <=> Passes(rest))
        BY <1>1, <1>2, <1>3, JoinedTwo
    <2> QED
        BY <1>3, <2>1, OutcomePasses DEF Verdict
<1>4. CASE type = "Transition"
    <2> DEFINE start == CheckVersion(Field(j, "startVersion"))
               end == CheckVersion(Field(j, "endVersion"))
               array == <<Protocol(mods[1] = "array")>>
               each == IF mods[1] = "array"
                       THEN [i \in DOMAIN mods[2] |-> Outcome(ModificationChecks(mods[2][i]))]
                       ELSE <<>>
    <2>1. start \in Seq(Handled) /\ (Passes(start) <=> VersionReadable(Field(j, "startVersion")))
        BY VersionVerdict
    <2>2. end \in Seq(Handled) /\ (Passes(end) <=> VersionReadable(Field(j, "endVersion")))
        BY VersionVerdict
    <2>3. array \in Seq(Handled) /\ (Passes(array) <=> mods[1] = "array")
        <3>1. Protocol(mods[1] = "array") \in Handled
            BY DEF Protocol, Check, Handled
        <3>2. Passes(array) <=> Protocol(mods[1] = "array") = "ok"
            BY Tuples
        <3> QED
            BY <3>1, <3>2 DEF Protocol, Check
    <2>4. each \in Seq(Handled)
          /\ (mods[1] = "array" =>
                (Passes(each) <=> \A i \in DOMAIN mods[2] : Outcome(ModificationChecks(mods[2][i])) = "ok"))
        <3>1. CASE mods[1] = "array"
            <4>1. PICK n \in Nat : DOMAIN mods[2] = 1..n
                BY <1>4, <3>1 DEF Tame, ModificationsTame
            <4>2. \A i \in 1..n : Outcome(ModificationChecks(mods[2][i])) \in Handled
                BY <1>4, <3>1, <4>1 DEF Tame, ModificationsTame
            <4>3. each = [i \in 1..n |-> Outcome(ModificationChecks(mods[2][i]))]
                BY <3>1, <4>1
            <4> HIDE DEF each
            <4>4. each \in Seq(Handled)
                BY <4>2, <4>3
            <4>5. Passes(each) <=> \A i \in 1..n : Outcome(ModificationChecks(mods[2][i])) = "ok"
                BY <4>3 DEF Passes, ToSet
            <4> QED
                BY <4>1, <4>4, <4>5
        <3>2. CASE mods[1] # "array"
            BY <3>2
        <3> QED
            BY <3>1, <3>2
    <2>5. MessageChecks(j) = first \o (start \o end \o array \o each)
        BY <1>4 DEF MessageChecks, first
    <2> HIDE DEF start, end, array, each
    <2>6. start \o end \o array \o each \in Seq(Handled)
          /\ (Passes(start \o end \o array \o each)
                <=> Passes(start) /\ Passes(end) /\ Passes(array) /\ Passes(each))
        <3>1. start \o end \in Seq(Handled) /\ (Passes(start \o end) <=> Passes(start) /\ Passes(end))
            BY <2>1, <2>2, JoinedTwo
        <3>2. start \o end \o array \in Seq(Handled)
              /\ (Passes(start \o end \o array) <=> Passes(start) /\ Passes(end) /\ Passes(array))
            BY <2>3, <3>1, JoinedTwo
        <3> QED
            BY <2>4, <3>2, JoinedTwo
    <2>7. Readable(j) <=>
            /\ VersionReadable(Field(j, "startVersion")) /\ VersionReadable(Field(j, "endVersion"))
            /\ mods[1] = "array"
            /\ \A i \in DOMAIN mods[2] : Outcome(ModificationChecks(mods[2][i])) = "ok"
        BY <1>4 DEF Readable
    <2>8. Passes(start \o end \o array \o each) <=> Readable(j)
        BY <2>1, <2>2, <2>3, <2>4, <2>6, <2>7
    <2> QED
        BY <1>3, <1>4, <2>5, <2>6, <2>8
<1>r. ASSUME type \in {"MutationResponse", "ActionResponse"}
      PROVE  /\ <<RequireU32(j, "requestId")>> \o ResultChecks(j) \in Seq(Handled)
             /\ Passes(<<RequireU32(j, "requestId")>> \o ResultChecks(j))
                  <=> RequireU32(j, "requestId") = "ok" /\ ResultReadable(j)
    <2>1. <<RequireU32(j, "requestId")>> \in Seq(Handled)
          /\ (Passes(<<RequireU32(j, "requestId")>>) <=> RequireU32(j, "requestId") = "ok")
        BY Checked, Tuples
    <2>2. ResultChecks(j) \in Seq(Handled) /\ (Passes(ResultChecks(j)) <=> ResultReadable(j))
        BY <1>r, ResultVerdict DEF Tame
    <2> DEFINE id == <<RequireU32(j, "requestId")>>
    <2> HIDE DEF id
    <2>3. id \o ResultChecks(j) \in Seq(Handled)
          /\ (Passes(id \o ResultChecks(j)) <=> Passes(id) /\ Passes(ResultChecks(j)))
        BY <2>1, <2>2, JoinedTwo DEF id
    <2> QED
        BY <2>1, <2>2, <2>3 DEF id
<1>5. CASE type = "MutationResponse"
    <2> DEFINE result == <<RequireU32(j, "requestId")>> \o ResultChecks(j)
               ts == IF Given(j, "ts") THEN RequireTimestamp(j[2]["ts"]) ELSE "ok"
               last2 == <<ts, CheckLogLines(j)>>
    <2>1. result \in Seq(Handled)
          /\ (Passes(result) <=> RequireU32(j, "requestId") = "ok" /\ ResultReadable(j))
        BY <1>5, <1>r
    <2>2. ts \in Handled /\ (ts = "ok" <=> (Given(j, "ts") => RequireTimestamp(Field(j, "ts")) = "ok"))
        BY Checked, GivenThere DEF Handled
    <2>3. last2 \in Seq(Handled) /\ (Passes(last2) <=> ts = "ok" /\ CheckLogLines(j) = "ok")
        <3> HIDE DEF ts
        <3>1. last2 \in Seq(Handled)
            BY <2>2, Checked
        <3>2. Passes(last2) <=> ts = "ok" /\ CheckLogLines(j) = "ok"
            BY Tuples, SMTT(30)
        <3> QED
            BY <3>1, <3>2
    <2>4. MessageChecks(j) = first \o (result \o last2)
        BY <1>5 DEF MessageChecks, first
    <2> HIDE DEF result, ts, last2
    <2>5. result \o last2 \in Seq(Handled) /\ (Passes(result \o last2) <=> Passes(result) /\ Passes(last2))
        BY <2>1, <2>3, JoinedTwo
    <2>6. Readable(j) <=> /\ RequireU32(j, "requestId") = "ok" /\ ResultReadable(j)
                          /\ Given(j, "ts") => RequireTimestamp(Field(j, "ts")) = "ok"
                          /\ CheckLogLines(j) = "ok"
        BY <1>5 DEF Readable
    <2>7. Passes(result \o last2) <=> Readable(j)
        BY <2>1, <2>2, <2>3, <2>5, <2>6
    <2> QED
        BY <1>3, <1>5, <2>4, <2>5, <2>7
<1>6. CASE type = "ActionResponse"
    <2> DEFINE result == <<RequireU32(j, "requestId")>> \o ResultChecks(j)
               last2 == <<CheckLogLines(j)>>
    <2>1. result \in Seq(Handled)
          /\ (Passes(result) <=> RequireU32(j, "requestId") = "ok" /\ ResultReadable(j))
        BY <1>6, <1>r
    <2>3. last2 \in Seq(Handled) /\ (Passes(last2) <=> CheckLogLines(j) = "ok")
        BY Checked, Tuples
    <2>4. MessageChecks(j) = first \o (result \o last2)
        BY <1>6 DEF MessageChecks, first
    <2> HIDE DEF result, last2
    <2>5. result \o last2 \in Seq(Handled) /\ (Passes(result \o last2) <=> Passes(result) /\ Passes(last2))
        BY <2>1, <2>3, JoinedTwo
    <2>6. Readable(j) <=> /\ RequireU32(j, "requestId") = "ok" /\ ResultReadable(j)
                          /\ CheckLogLines(j) = "ok"
        BY <1>6 DEF Readable
    <2>7. Passes(result \o last2) <=> Readable(j)
        BY <2>1, <2>3, <2>5, <2>6
    <2> QED
        BY <1>3, <1>6, <2>4, <2>5, <2>7
<1>7. CASE type \in {"AuthError", "FatalError"}
    <2> DEFINE rest == <<RequireString(j, "error")>>
    <2>1. rest \in Seq(Handled) /\ (Passes(rest) <=> RequireString(j, "error") = "ok")
        BY Checked, Tuples
    <2>2. MessageChecks(j) = first \o rest
        BY <1>7 DEF MessageChecks, first
    <2> HIDE DEF rest
    <2>3. Readable(j) <=> RequireString(j, "error") = "ok"
        BY <1>7 DEF Readable, RequireString, Protocol, Check
    <2>4. Passes(rest) <=> Readable(j)
        BY <2>1, <2>3
    <2> QED
        BY <1>3, <1>7, <2>1, <2>2, <2>4
<1>8. CASE type = "Ping"
    <2>1. <<>> \in Seq(Handled) /\ Passes(<<>>)
        BY DEF Passes, ToSet
    <2>2. MessageChecks(j) = first \o <<>>
        BY <1>8 DEF MessageChecks, first
    <2>3. Readable(j)
        BY <1>8 DEF Readable
    <2> QED
        BY <1>3, <1>8, <2>1, <2>2, <2>3
<1>9. CASE type = "TransitionChunk"
    <2> DEFINE rest == <<RequireString(j, "chunk"), RequireU32(j, "partNumber"),
                         RequireU32(j, "totalParts"), RequireString(j, "transitionId")>>
    <2>1. rest \in Seq(Handled)
        BY Checked
    <2>2. MessageChecks(j) = first \o rest
        BY <1>9 DEF MessageChecks, first
    <2>3. Passes(rest) <=>
            /\ RequireString(j, "chunk") = "ok" /\ RequireU32(j, "partNumber") = "ok"
            /\ RequireU32(j, "totalParts") = "ok" /\ RequireString(j, "transitionId") = "ok"
        BY Tuples, SMTT(30)
    <2> HIDE DEF rest
    <2>4. Passes(rest) <=> Readable(j)
        BY <1>9, <2>3 DEF Readable
    <2> QED
        BY <1>3, <1>9, <2>1, <2>2, <2>4
<1>10. CASE type = "unsupported"
    <2> DEFINE rest == <<"protocol_error">>
    <2>1. rest \in Seq(Handled)
        BY DEF Handled
    <2>2. ~Passes(rest)
        BY Tuples
    <2>3. MessageChecks(j) = first \o rest
        BY <1>10 DEF MessageChecks, first
    <2> HIDE DEF rest
    <2>4. first \o rest \in Seq(Handled) /\ ~Passes(first \o rest)
        BY <1>1, <2>1, <2>2, JoinedTwo
    <2>5. ~Readable(j)
        BY <1>10 DEF Readable
    <2> QED
        BY <2>3, <2>4, <2>5, OutcomePasses DEF Verdict
<1> QED
    BY <1>4, <1>5, <1>6, <1>7, <1>8, <1>9, <1>10, TypeKnown DEF Types

-----------------------------------------------------------------------------
(* Reading what was written.                                               *)

\* A list grows by one node at a time, and holds what is a string.
Grows(w, nodes) ==
    w = [n \in 0..Len(nodes) |->
            IF n = 0 THEN <<>>
            ELSE IF IsString(nodes[n]) THEN Append(w[n - 1], nodes[n][2])
            ELSE w[n - 1]]

\* Log lines are read as they were written.
LEMMA LinesRead ==
    ASSUME NEW j, NEW lines \in Seq(Strings), Field(j, "logLines") = Lines(lines)
    PROVE  GetLogLines(j) = lines
<1> DEFINE nodes == [i \in DOMAIN lines |-> <<"string", lines[i]>>]
           First == CHOOSE g : g = [n \in 0..Len(nodes) |->
                        IF n = 0 THEN <<>>
                        ELSE IF IsString(nodes[n]) THEN Append(g[n - 1], nodes[n][2])
                        ELSE g[n - 1]]
           w == [n \in 0..Len(lines) |-> [i \in 1..n |-> lines[i]]]
<1>1. Field(j, "logLines") # Absent /\ Lines(lines) = <<"array", nodes>>
    BY DEF Lines, Absent
<1>2. Has(j, "logLines") /\ j[2]["logLines"][2] = nodes
    <2>1. Has(j, "logLines") /\ j[2]["logLines"] = Lines(lines)
        BY <1>1, FieldThere, ZenonT(30)
    <2> QED
        BY <1>1, <2>1
<1>3. GetLogLines(j) = First[Len(nodes)]
    <2>1. GetLogLines(j) =
            LET l == j[2]["logLines"][2]
                F[n \in 0..Len(l)] ==
                    IF n = 0 THEN <<>>
                    ELSE IF IsString(l[n]) THEN Append(F[n - 1], l[n][2])
                    ELSE F[n - 1]
            IN F[Len(l)]
        BY <1>2 DEF GetLogLines
    <2> HIDE DEF nodes
    <2> QED
        BY <1>2, <2>1
<1>4. Len(nodes) = Len(lines) /\ Len(lines) \in Nat
    OBVIOUS
<1>5. \A n \in 1..Len(lines) : IsString(nodes[n]) /\ nodes[n][2] = lines[n]
    BY DEF IsString
<1> HIDE DEF nodes
<1>6. Grows(w, nodes)
    <2>1. ASSUME NEW n \in 0..Len(nodes)
          PROVE  w[n] = IF n = 0 THEN <<>>
                        ELSE IF IsString(nodes[n]) THEN Append(w[n - 1], nodes[n][2])
                        ELSE w[n - 1]
        <3>1. CASE n = 0
            BY <1>4, <3>1
        <3>2. CASE n # 0
            <4>1. n \in 1..Len(lines) /\ n - 1 \in 0..Len(lines)
                BY <1>4, <3>2
            <4>2. w[n] = [i \in 1..n |-> lines[i]] /\ w[n - 1] = [i \in 1..(n - 1) |-> lines[i]]
                BY <4>1
            <4>3. Append([i \in 1..(n - 1) |-> lines[i]], lines[n]) = [i \in 1..n |-> lines[i]]
                BY <4>1
            <4> QED
                BY <1>5, <3>2, <4>1, <4>2, <4>3
        <3> QED
            BY <3>1, <3>2
    <2>2. w = [n \in 0..Len(nodes) |-> w[n]]
        BY <1>4
    <2> HIDE DEF w
    <2> QED
        BY <2>1, <2>2 DEF Grows
<1> HIDE DEF w
<1>7. Grows(First, nodes)
    <2> DEFINE f == CHOOSE g : Grows(g, nodes)
    <2>1. Grows(f, nodes)
        BY <1>6
    <2>2. f = First
        BY DEF Grows
    <2> QED
        BY <2>1, <2>2
<1> HIDE DEF First
<1> DEFINE Differ == {n \in 0..Len(nodes) : First[n] # w[n]}
<1>8. Differ = {}
    <2> SUFFICES ASSUME Differ # {} PROVE FALSE
        OBVIOUS
    <2>0. Differ \in SUBSET Nat
        BY <1>4
    <2>1. PICK x \in Differ : \A y \in Differ : x <= y
        BY <2>0, SmallestOf
    <2>2. x \in 0..Len(nodes) /\ First[x] # w[x]
        BY <2>1
    <2>3. /\ First[x] = IF x = 0 THEN <<>>
                        ELSE IF IsString(nodes[x]) THEN Append(First[x - 1], nodes[x][2])
                        ELSE First[x - 1]
          /\ w[x] = IF x = 0 THEN <<>>
                    ELSE IF IsString(nodes[x]) THEN Append(w[x - 1], nodes[x][2])
                    ELSE w[x - 1]
        BY <1>6, <1>7, <2>2 DEF Grows
    <2>4. x # 0
        BY <2>2, <2>3
    <2>5. x - 1 \in 0..Len(nodes) /\ ~(x <= x - 1)
        BY <1>4, <2>2, <2>4
    <2>6. First[x - 1] = w[x - 1]
        BY <2>1, <2>5
    <2> QED
        BY <2>2, <2>3, <2>4, <2>6
<1>9. First[Len(nodes)] = w[Len(lines)]
    BY <1>4, <1>8
<1>10. w[Len(lines)] = lines
    BY <1>4 DEF w
<1> QED
    BY <1>3, <1>9, <1>10

\* The kinds of the nodes that are written.
LEMMA Nodes ==
    /\ \A n : Integer(n)[1] = "integer" /\ Integer(n)[2] = n /\ Integer(n) \notin {Absent, Null}
    /\ \A s : Text(s)[1] = "string" /\ Text(s)[2] = s /\ Text(s) \notin {Absent, Null}
    /\ \A lines : Lines(lines)[1] = "array" /\ Lines(lines) # Absent
BY DEF Integer, Text, Lines, Absent, Null

\* An optional member is none or some of what it may be.
LEMMA OptionalIs ==
    ASSUME NEW S, NEW s \in Optional(S), s # Nil
    PROVE  s[1] \in S /\ s = Some(s[1])
<1>1. s \in Seq(S) /\ Len(s) <= 1
    BY DEF Optional
<1>2. Len(s) # 0
    BY <1>1 DEF Nil
<1>3. Len(s) = 1
    <2>1. PICK n \in Nat : n = Len(s)
        BY <1>1
    <2>2. n <= 1 /\ n # 0
        BY <1>1, <1>2, <2>1
    <2> QED
        BY <2>1, <2>2
<1> QED
    BY <1>1, <1>3 DEF Some

\* An optional string is there or is not.
LEMMA OptionalText ==
    ASSUME NEW s \in Optional(Strings), NEW j, NEW f, Field(j, f) = IfGiven(s, Text)
    PROVE  /\ Given(j, f) => IsString(j[2][f])
           /\ GetOptional(j, f) = s
<1>1. CASE s = Nil
    BY <1>1 DEF IfGiven, GetOptional, Given
<1>2. CASE s # Nil
    <2>1. s = <<s[1]>> /\ Field(j, f) = Text(s[1])
        BY <1>2, OptionalIs DEF IfGiven, Some
    <2>2. Given(j, f)
        BY <2>1, Nodes DEF Given
    <2>3. j[2][f] = Text(s[1])
        BY <2>1, <2>2, GivenThere
    <2> QED
        BY <2>1, <2>2, <2>3, Nodes DEF GetOptional, Some, IsString
<1> QED
    BY <1>1, <1>2

\* What the data of an error is read as.
LEMMA DataRead ==
    ASSUME NEW d \in ErrorData, NEW j, Field(j, "errorData") = ValueDoc(d)
    PROVE  CheckErrorData(j) = "ok" /\ GetErrorData(j) = DataMeaning(d)
<1>1. CASE d = NoData
    BY <1>1 DEF ValueDoc, CheckErrorData, GetErrorData, DataMeaning, Given, Check
<1>2. CASE d # NoData
    <2>1. d \in Values /\ d # Null /\ Field(j, "errorData") = WriteValue(d)
        BY <1>2 DEF ErrorData, ValueDoc
    <2>2. WriteValue(d) \notin {Absent, Null} /\ CanRead(WriteValue(d))
          /\ ReadValue(WriteValue(d)) = SameValue(d)
        BY <2>1, CodecAssumption
    <2>3. Given(j, "errorData")
        BY <2>1, <2>2 DEF Given
    <2>4. j[2]["errorData"] = WriteValue(d)
        BY <2>1, <2>3, GivenThere
    <2> QED
        BY <1>2, <2>2, <2>3, <2>4 DEF CheckErrorData, GetErrorData, DataMeaning, Check
<1> QED
    BY <1>1, <1>2

\* A value is there, and is read as what it stands for.
LEMMA ValueRead ==
    ASSUME NEW v \in Values, NEW j, NEW f, Field(j, f) = ValueDoc(v)
    PROVE  /\ RequireValue(Field(j, f)) = "ok" /\ Has(j, f)
           /\ ReadValue(j[2][f]) = SameValue(v)
<1>1. Field(j, f) = WriteValue(v)
    BY WireAssumption DEF ValueDoc
<1>2. WriteValue(v) # Absent /\ CanRead(WriteValue(v)) /\ ReadValue(WriteValue(v)) = SameValue(v)
    BY CodecAssumption
<1>3. Has(j, f) /\ j[2][f] = WriteValue(v)
    BY <1>1, <1>2, FieldThere
<1> QED
    BY <1>1, <1>2, <1>3 DEF RequireValue, Protocol, Check

\* Numbers and strings are read as they were written.
LEMMA NumberRead ==
    ASSUME NEW n \in Numbers, NEW j, NEW f, Field(j, f) = Integer(n)
    PROVE  RequireU32(j, f) = "ok" /\ GetU32(j, f) = n
<1>1. j[2][f] = Integer(n)
    BY Nodes, FieldThere
<1>2. n % U32 = n
    BY DEF Numbers, U32
<1> QED
    BY <1>1, <1>2, Nodes DEF RequireU32, GetU32, Protocol, Check

\* A string is read as it was written.
LEMMA StringRead ==
    ASSUME NEW s, NEW j, NEW f, Field(j, f) = Text(s)
    PROVE  RequireString(j, f) = "ok" /\ IsString(Field(j, f)) /\ GetString(j, f) = s
<1>1. j[2][f] = Text(s)
    BY Nodes, FieldThere
<1> QED
    BY <1>1, Nodes DEF RequireString, GetString, IsString, Protocol, Check

\* A timestamp is taken, and read as it was written.
LEMMA TimestampRead ==
    ASSUME NEW ts \in Words
    PROVE  RequireTimestamp(Timestamp64(ts)) = "ok"
           /\ le_base64_to_word(Timestamp64(ts)[2]) = ts /\ Timestamp64(ts) \notin {Absent, Null}
<1>1. Timestamp64(ts)[1] = "string" /\ Timestamp64(ts)[2] = le_base64(ts)
    BY DEF Timestamp64
<1>2. is_le_base64(le_base64(ts)) /\ le_base64_to_word(le_base64(ts)) = ts
    BY WordRoundTrip
<1>3. Timestamp64(ts) \notin {Absent, Null}
    BY <1>1 DEF Absent, Null
<1> QED
    BY <1>1, <1>2, <1>3 DEF RequireTimestamp, IsString, Protocol, Check

\* A version is read as it was written.
LEMMA VersionRead ==
    ASSUME NEW v \in StateVersion
    PROVE  VersionReadable(VersionDoc(v)) /\ GetVersion(VersionDoc(v)) = v
<1> DEFINE j == VersionDoc(v)
<1>1. /\ v.query_set \in Numbers /\ v.identity \in Numbers /\ v.ts \in Words
      /\ v = [query_set |-> v.query_set, identity |-> v.identity, ts |-> v.ts]
    BY DEF StateVersion
<1>2. /\ Field(j, "querySet") = Integer(v.query_set) /\ Field(j, "identity") = Integer(v.identity)
      /\ Field(j, "ts") = Timestamp64(v.ts)
    BY FieldOf DEF VersionDoc
<1>3. j[2]["ts"] = Timestamp64(v.ts)
    BY <1>1, <1>2, FieldThere, TimestampRead
<1> HIDE DEF j
<1>4. /\ RequireU32(j, "querySet") = "ok" /\ GetU32(j, "querySet") = v.query_set
      /\ RequireU32(j, "identity") = "ok" /\ GetU32(j, "identity") = v.identity
    BY <1>1, <1>2, NumberRead
<1>5. RequireTimestamp(Field(j, "ts")) = "ok" /\ le_base64_to_word(j[2]["ts"][2]) = v.ts
    BY <1>1, <1>2, <1>3, TimestampRead
<1>6. GetVersion(j) = [query_set |-> v.query_set, identity |-> v.identity, ts |-> v.ts]
    BY <1>4, <1>5 DEF GetVersion
<1> QED
    BY <1>1, <1>4, <1>5, <1>6 DEF VersionReadable, j

-----------------------------------------------------------------------------
(* Modifications.                                                          *)

\* A field that is not there is refused where it is required.
LEMMA FieldUnread ==
    ASSUME NEW j, NEW f, Field(j, f) \in {Absent, Garbage}
    PROVE  /\ RequireU32(j, f) # "ok" /\ RequireString(j, f) # "ok" /\ ~IsString(Field(j, f))
           /\ RequireValue(Field(j, f)) # "ok" /\ RequireTimestamp(Field(j, f)) # "ok"
           /\ Field(j, f)[1] \notin {"integer", "string", "boolean", "array"}
           /\ \A w : Field(j, f) # Word(w)
<1>1. Field(j, f)[1] \in {"absent", "object"}
    BY GarbageIs DEF Absent
<1>2. ~IsString(Field(j, f)) /\ \A w : Field(j, f) # Word(w)
    BY <1>1, WordsApart DEF IsString
<1>3. Field(j, f) = Absent \/ ~CanRead(Field(j, f))
    BY CodecAssumption
<1> QED
    BY <1>1, <1>2, <1>3
    DEF RequireU32, RequireString, RequireValue, RequireTimestamp, Protocol, Check

\* Garbage is refused wherever something is required, or has a type.
LEMMA FieldGarbage ==
    ASSUME NEW j
    PROVE  /\ Field(j, "logLines") = Garbage => CheckLogLines(j) # "ok"
           /\ Field(j, "journal") = Garbage => CheckJournal(j) # "ok"
           /\ Field(j, "ts") = Garbage => Given(j, "ts")
<1>1. ASSUME NEW f, Field(j, f) = Garbage PROVE Given(j, f) /\ j[2][f] = Garbage
    <2>1. Given(j, f)
        BY <1>1, GarbageIs DEF Given
    <2> QED
        BY <1>1, <2>1, GivenThere
<1>2. Field(j, "logLines") = Garbage => CheckLogLines(j) # "ok"
    BY GarbageIs DEF CheckLogLines, Protocol, Check
<1>3. Field(j, "journal") = Garbage => CheckJournal(j) # "ok"
    BY <1>1, GarbageIs DEF CheckJournal, Protocol, Check
<1> QED
    BY <1>1, <1>2, <1>3

\* The fields of a QueryUpdated.
LEMMA UpdatedFields ==
    ASSUME NEW mod \in QueryUpdated, NEW j, j = ModificationDoc(mod)
    PROVE  /\ j[1] = "object" /\ Field(j, "type") = Word("QueryUpdated")
           /\ Field(j, "queryId") = Integer(mod.id) /\ Field(j, "value") = ValueDoc(mod.result)
           /\ Field(j, "logLines") = Lines(mod.log_lines)
           /\ Field(j, "journal") = IfGiven(mod.journal, Text)
<1>1. mod.type = "QueryUpdated"
    BY DEF QueryUpdated
<1> DEFINE fields == [type |-> Word(mod.type), queryId |-> Integer(mod.id),
                      value |-> ValueDoc(mod.result), logLines |-> Lines(mod.log_lines),
                      journal |-> IfGiven(mod.journal, Text)]
<1>2. j = Object(fields)
    BY <1>1 DEF ModificationDoc
<1> QED
    BY <1>1, <1>2, FieldOf

\* The fields of a QueryFailed.
LEMMA FailedFields ==
    ASSUME NEW mod \in QueryFailed, NEW j, j = ModificationDoc(mod)
    PROVE  /\ j[1] = "object" /\ Field(j, "type") = Word("QueryFailed")
           /\ Field(j, "queryId") = Integer(mod.id) /\ Field(j, "errorMessage") = Text(mod.error)
           /\ Field(j, "errorData") = ValueDoc(mod.error_data)
           /\ Field(j, "logLines") = Lines(mod.log_lines)
           /\ Field(j, "journal") = IfGiven(mod.journal, Text)
<1>1. mod.type = "QueryFailed"
    BY DEF QueryFailed
<1> DEFINE fields == [type |-> Word(mod.type), queryId |-> Integer(mod.id),
                   errorMessage |-> Text(mod.error), errorData |-> ValueDoc(mod.error_data),
                   logLines |-> Lines(mod.log_lines), journal |-> IfGiven(mod.journal, Text)]
<1>2. j = Object(fields)
    BY <1>1 DEF ModificationDoc
<1>3. /\ {"type", "queryId", "errorMessage", "errorData", "logLines", "journal"} \subseteq DOMAIN fields
      /\ fields["type"] = Word("QueryFailed") /\ fields["queryId"] = Integer(mod.id)
      /\ fields["errorMessage"] = Text(mod.error)
      /\ fields["errorData"] = ValueDoc(mod.error_data)
      /\ fields["logLines"] = Lines(mod.log_lines)
      /\ fields["journal"] = IfGiven(mod.journal, Text)
    BY <1>1
<1> HIDE DEF fields
<1> QED
    BY <1>2, <1>3, FieldOf

\* The fields of a QueryRemoved.
LEMMA RemovedFields ==
    ASSUME NEW mod \in QueryRemoved, NEW j, j = ModificationDoc(mod)
    PROVE  /\ j[1] = "object" /\ Field(j, "type") = Word("QueryRemoved")
           /\ Field(j, "queryId") = Integer(mod.id)
<1>1. mod.type = "QueryRemoved"
    BY DEF QueryRemoved
<1> DEFINE fields == [type |-> Word(mod.type), queryId |-> Integer(mod.id)]
<1>2. j = Object(fields)
    BY <1>1 DEF ModificationDoc
<1> QED
    BY <1>1, <1>2, FieldOf

\* The types of modifications are different words.
LEMMA ModificationWords ==
    /\ Word("QueryUpdated") # Word("QueryFailed") /\ Word("QueryUpdated") # Word("QueryRemoved")
    /\ Word("QueryFailed") # Word("QueryRemoved")
<1>1. "QueryUpdated" # "QueryFailed" /\ "QueryUpdated" # "QueryRemoved" /\ "QueryFailed" # "QueryRemoved"
    OBVIOUS
<1> QED
    BY <1>1, WordsApart

\* Log lines as they are written are taken.
LEMMA LogLinesFine ==
    ASSUME NEW j, NEW lines, Field(j, "logLines") = Lines(lines)
    PROVE  CheckLogLines(j) = "ok"
BY Nodes DEF CheckLogLines, Protocol, Check

\* A journal as it is written is taken, and read as it was.
LEMMA JournalFine ==
    ASSUME NEW s \in Optional(Strings), NEW j, Field(j, "journal") = IfGiven(s, Text)
    PROVE  CheckJournal(j) = "ok" /\ GetOptional(j, "journal") = s
<1>1. Given(j, "journal") => IsString(j[2]["journal"])
    BY OptionalText
<1>2. GetOptional(j, "journal") = s
    BY OptionalText
<1> QED
    BY <1>1, <1>2 DEF CheckJournal, Protocol, Check

\* A modification is taken, and read as what it means.
LEMMA ModificationRead ==
    ASSUME NEW mod \in QueryUpdated \cup QueryFailed \cup QueryRemoved,
           NEW j, j = ModificationDoc(mod)
    PROVE  Outcome(ModificationChecks(j)) = "ok" /\ GetModification(j) = ModificationMeaning(mod)
<1>t. ASSUME NEW w, Field(j, "type") = Word(w) PROVE j[2].type = Word(w)
    BY <1>t, WordsApart, FieldThere
<1>1. CASE mod \in QueryUpdated
    <2>1. /\ j[1] = "object" /\ Field(j, "type") = Word("QueryUpdated")
          /\ Field(j, "queryId") = Integer(mod.id) /\ Field(j, "value") = ValueDoc(mod.result)
          /\ Field(j, "logLines") = Lines(mod.log_lines)
          /\ Field(j, "journal") = IfGiven(mod.journal, Text)
        BY <1>1, UpdatedFields
    <2>2. /\ mod.type = "QueryUpdated" /\ mod.id \in Numbers /\ mod.result \in Values
          /\ mod.log_lines \in Seq(Strings) /\ mod.journal \in Optional(Strings)
          /\ mod = [type |-> mod.type, id |-> mod.id, result |-> mod.result,
                    log_lines |-> mod.log_lines, journal |-> mod.journal]
        BY <1>1 DEF QueryUpdated
    <2>3. RequireU32(j, "queryId") = "ok" /\ GetU32(j, "queryId") = mod.id
        BY <2>1, <2>2, NumberRead
    <2>4. RequireValue(Field(j, "value")) = "ok" /\ ReadValue(j[2].value) = SameValue(mod.result)
        BY <2>1, <2>2, ValueRead
    <2>5. CheckLogLines(j) = "ok" /\ GetLogLines(j) = mod.log_lines
        BY <2>1, <2>2, LogLinesFine, LinesRead
    <2>6. CheckJournal(j) = "ok" /\ GetOptional(j, "journal") = mod.journal
        BY <2>1, <2>2, JournalFine
    <2>7. Outcome(ModificationChecks(j)) = "ok"
        BY <2>1, <2>3, <2>4, <2>5, <2>6, ModificationVerdict, ModificationWords
    <2>t. j[2].type = Word("QueryUpdated")
        BY <1>t, <2>1
    <2>8. GetModification(j) = [type |-> "QueryUpdated", id |-> mod.id,
                                result |-> SameValue(mod.result),
                                log_lines |-> mod.log_lines, journal |-> mod.journal]
        BY <2>t, <2>3, <2>4, <2>5, <2>6, ModificationWords DEF GetModification
    <2>9. ModificationMeaning(mod) = [type |-> "QueryUpdated", id |-> mod.id,
                                result |-> SameValue(mod.result),
                                log_lines |-> mod.log_lines, journal |-> mod.journal]
        BY <2>2 DEF ModificationMeaning
    <2> QED
        BY <2>7, <2>8, <2>9
<1>2. CASE mod \in QueryFailed
    <2>1. /\ j[1] = "object" /\ Field(j, "type") = Word("QueryFailed")
          /\ Field(j, "queryId") = Integer(mod.id) /\ Field(j, "errorMessage") = Text(mod.error)
          /\ Field(j, "errorData") = ValueDoc(mod.error_data)
          /\ Field(j, "logLines") = Lines(mod.log_lines)
          /\ Field(j, "journal") = IfGiven(mod.journal, Text)
        BY <1>2, FailedFields
    <2>2. /\ mod.type = "QueryFailed" /\ mod.id \in Numbers /\ mod.error_data \in ErrorData
          /\ mod.log_lines \in Seq(Strings) /\ mod.journal \in Optional(Strings)
          /\ mod = [type |-> mod.type, id |-> mod.id, error |-> mod.error,
                    error_data |-> mod.error_data,
                    log_lines |-> mod.log_lines, journal |-> mod.journal]
        BY <1>2 DEF QueryFailed
    <2>3. RequireU32(j, "queryId") = "ok" /\ GetU32(j, "queryId") = mod.id
        BY <2>1, <2>2, NumberRead
    <2>4. RequireString(j, "errorMessage") = "ok" /\ GetString(j, "errorMessage") = mod.error
        BY <2>1, <2>2, StringRead
    <2>10. CheckErrorData(j) = "ok" /\ GetErrorData(j) = DataMeaning(mod.error_data)
        BY <2>1, <2>2, DataRead
    <2>5. CheckLogLines(j) = "ok" /\ GetLogLines(j) = mod.log_lines
        BY <2>1, <2>2, LogLinesFine, LinesRead
    <2>6. CheckJournal(j) = "ok" /\ GetOptional(j, "journal") = mod.journal
        BY <2>1, <2>2, JournalFine
    <2>7. Outcome(ModificationChecks(j)) = "ok"
        BY <2>1, <2>3, <2>4, <2>5, <2>6, <2>10, ModificationVerdict, ModificationWords
    <2>t. j[2].type = Word("QueryFailed")
        BY <1>t, <2>1
    <2>8. GetModification(j) = [type |-> "QueryFailed", id |-> mod.id, error |-> mod.error,
                                error_data |-> DataMeaning(mod.error_data),
                                log_lines |-> mod.log_lines, journal |-> mod.journal]
        BY <2>t, <2>3, <2>4, <2>5, <2>6, <2>10, ModificationWords DEF GetModification
    <2>9. ModificationMeaning(mod) = [type |-> "QueryFailed", id |-> mod.id, error |-> mod.error,
                                error_data |-> DataMeaning(mod.error_data),
                                log_lines |-> mod.log_lines, journal |-> mod.journal]
        BY <2>2 DEF ModificationMeaning
    <2> QED
        BY <2>7, <2>8, <2>9
<1>3. CASE mod \in QueryRemoved
    <2>1. /\ j[1] = "object" /\ Field(j, "type") = Word("QueryRemoved")
          /\ Field(j, "queryId") = Integer(mod.id)
        BY <1>3, RemovedFields
    <2>2. /\ mod.type = "QueryRemoved" /\ mod.id \in Numbers
          /\ mod = [type |-> mod.type, id |-> mod.id]
        BY <1>3 DEF QueryRemoved
    <2>3. RequireU32(j, "queryId") = "ok" /\ GetU32(j, "queryId") = mod.id
        BY <2>1, <2>2, NumberRead
    <2>7. Outcome(ModificationChecks(j)) = "ok"
        BY <2>1, <2>3, ModificationVerdict, ModificationWords
    <2>t. j[2].type = Word("QueryRemoved")
        BY <1>t, <2>1
    <2>8. GetModification(j) = [type |-> "QueryRemoved", id |-> mod.id]
        BY <2>t, <2>3, ModificationWords DEF GetModification
    <2>9. ModificationMeaning(mod) = [type |-> "QueryRemoved", id |-> mod.id]
        BY <2>2 DEF ModificationMeaning
    <2> QED
        BY <2>7, <2>8, <2>9
<1> QED
    BY <1>1, <1>2, <1>3

\* A document with a member broken.
BrokenAt(bad, j, f) ==
    /\ bad[1] = "object" /\ Field(bad, f) \in {Absent, Garbage}
    /\ \A g : g # f => Field(bad, g) = Field(j, g)

\* A broken document is one with a member broken.
LEMMA BrokenIs ==
    ASSUME NEW j, j[1] = "object", NEW type, NEW bad \in Broken(j, type)
    PROVE  \E f : /\ BrokenAt(bad, j, f)
                  /\ f \in Required[type] \/ (f \in Typed(type) /\ Field(bad, f) = Garbage)
<1>1. CASE bad \in {Without(j, f) : f \in Required[type]}
    <2>1. PICK f \in Required[type] : bad = Without(j, f)
        BY <1>1
    <2>2. BrokenAt(bad, j, f)
        BY <2>1, FieldWithout DEF BrokenAt
    <2> QED
        BY <2>1, <2>2
<1>2. CASE bad \in {With(j, f, Garbage) : f \in Required[type] \cup Typed(type)}
    <2>1. PICK f \in Required[type] \cup Typed(type) : bad = With(j, f, Garbage)
        BY <1>2
    <2>2. bad[1] = "object" /\ \A g : Field(bad, g) = IF g = f THEN Garbage ELSE Field(j, g)
        BY <2>1, FieldWith
    <2>3. Field(bad, f) = Garbage /\ BrokenAt(bad, j, f)
        BY <2>2 DEF BrokenAt
    <2> QED
        BY <2>1, <2>3
<1> QED
    BY <1>1, <1>2 DEF Broken

\* A broken modification is refused with protocol_error.
LEMMA ModificationBroken ==
    ASSUME NEW mod \in QueryUpdated \cup QueryFailed \cup QueryRemoved,
           NEW bad \in Broken(ModificationDoc(mod), mod.type)
    PROVE  Outcome(ModificationChecks(bad)) = "protocol_error"
<1> DEFINE j == ModificationDoc(mod)
<1>1. j[1] = "object"
    BY UpdatedFields, FailedFields, RemovedFields
<1>2. PICK f : /\ BrokenAt(bad, j, f)
               /\ f \in Required[mod.type] \/ (f \in Typed(mod.type) /\ Field(bad, f) = Garbage)
    BY <1>1, BrokenIs
<1> HIDE DEF j
<1>3. /\ RequireU32(bad, f) # "ok" /\ RequireString(bad, f) # "ok"
      /\ RequireValue(Field(bad, f)) # "ok" /\ \A w : Field(bad, f) # Word(w)
    BY <1>2, FieldUnread DEF BrokenAt
<1>4. /\ f = "logLines" /\ Field(bad, f) = Garbage => CheckLogLines(bad) # "ok"
      /\ f = "journal" /\ Field(bad, f) = Garbage => CheckJournal(bad) # "ok"
    BY FieldGarbage
<1>5. \A g : g # f => Field(bad, g) = Field(j, g)
    BY <1>2 DEF BrokenAt
<1>6. CASE f = "type"
    <2>1. \A w : Field(bad, "type") # Word(w)
        BY <1>3, <1>6
    <2>2. Outcome(ModificationChecks(bad)) \in Handled /\ Outcome(ModificationChecks(bad)) # "ok"
        BY <2>1, ModificationVerdict
    <2> QED
        BY <2>2 DEF Handled
<1>7. CASE f # "type"
    <2>1. Field(bad, "type") = Field(j, "type")
        BY <1>5, <1>7
    <2>2. CASE mod \in QueryUpdated
        <3>1. mod.type = "QueryUpdated" /\ Field(bad, "type") = Word("QueryUpdated")
            BY <2>1, <2>2, UpdatedFields DEF QueryUpdated, j
        <3>2. f \in {"queryId", "value"} \/ (f \in {"logLines", "journal"} /\ Field(bad, f) = Garbage)
            BY <1>2, <1>7, <3>1 DEF Required, Typed
        <3>3. Outcome(ModificationChecks(bad)) \in Handled /\ Outcome(ModificationChecks(bad)) # "ok"
            BY <1>3, <1>4, <3>1, <3>2, ModificationVerdict, ModificationWords
        <3> QED
            BY <3>3 DEF Handled
    <2>3. CASE mod \in QueryFailed
        <3>1. mod.type = "QueryFailed" /\ Field(bad, "type") = Word("QueryFailed")
              /\ Field(j, "errorData") = ValueDoc(mod.error_data) /\ mod.error_data \in ErrorData
            BY <2>1, <2>3, FailedFields DEF QueryFailed, j
        <3>2. f \in {"queryId", "errorMessage"}
              \/ (f \in {"logLines", "journal"} /\ Field(bad, f) = Garbage)
            BY <1>2, <1>7, <3>1 DEF Required, Typed
        <3>3. Field(bad, "errorData") = ValueDoc(mod.error_data)
            BY <1>5, <3>1, <3>2
        <3>4. CheckErrorData(bad) = "ok"
            BY <3>1, <3>3, DataRead
        <3>5. Outcome(ModificationChecks(bad)) \in Handled /\ Outcome(ModificationChecks(bad)) # "ok"
            BY <1>3, <1>4, <3>1, <3>2, <3>4, ModificationVerdict, ModificationWords
        <3> QED
            BY <3>5 DEF Handled
    <2>4. CASE mod \in QueryRemoved
        <3>1. mod.type = "QueryRemoved" /\ Field(bad, "type") = Word("QueryRemoved")
            BY <2>1, <2>4, RemovedFields DEF QueryRemoved, j
        <3>2. f = "queryId"
            BY <1>2, <1>7, <3>1 DEF Required, Typed
        <3>3. Outcome(ModificationChecks(bad)) \in Handled /\ Outcome(ModificationChecks(bad)) # "ok"
            BY <1>3, <3>1, <3>2, ModificationVerdict, ModificationWords
        <3> QED
            BY <3>3 DEF Handled
    <2> QED
        BY <2>2, <2>3, <2>4
<1> QED
    BY <1>6, <1>7

-----------------------------------------------------------------------------
(* Messages of the server.                                                 *)

\* The fields of a Transition.
LEMMA TransitionFields ==
    ASSUME NEW m \in Transition, NEW j, j = ServerDoc(m)
    PROVE  /\ j[1] = "object" /\ Field(j, "type") = Word("Transition")
           /\ Field(j, "startVersion") = VersionDoc(m.start_version)
           /\ Field(j, "endVersion") = VersionDoc(m.end_version)
           /\ Field(j, "modifications") = <<"array", [i \in DOMAIN m.modifications |->
                                                        ModificationDoc(m.modifications[i])]>>
<1>1. m.type = "Transition"
    BY DEF Transition
<1> DEFINE fields == [type |-> Word(m.type), startVersion |-> VersionDoc(m.start_version),
                   endVersion |-> VersionDoc(m.end_version),
                   modifications |-> <<"array", [i \in DOMAIN m.modifications |->
                                                    ModificationDoc(m.modifications[i])]>>]
<1>2. j = Object(fields)
    BY <1>1 DEF ServerDoc
<1>3. /\ {"type", "startVersion", "endVersion", "modifications"} \subseteq DOMAIN fields
      /\ fields["type"] = Word("Transition") /\ fields["startVersion"] = VersionDoc(m.start_version)
      /\ fields["endVersion"] = VersionDoc(m.end_version)
      /\ fields["modifications"] = <<"array", [i \in DOMAIN m.modifications |->
                                                    ModificationDoc(m.modifications[i])]>>
    BY <1>1
<1> HIDE DEF fields
<1> QED
    BY <1>2, <1>3, FieldOf

\* The fields of a response.
LEMMA ResponseFields ==
    ASSUME NEW m \in Response, NEW j, j = ServerDoc(m)
    PROVE  /\ m.type \in {"MutationResponse", "ActionResponse"}
           /\ j[1] = "object" /\ Field(j, "type") = Word(m.type)
           /\ Field(j, "requestId") = Integer(m.id)
           /\ Field(j, "success") = <<"boolean", m.result.ok>>
           /\ Field(j, "result") = IF m.result.ok THEN ValueDoc(m.result.value)
                                   ELSE Text(m.result.error)
           /\ Field(j, "errorData") = IF m.result.ok THEN Absent ELSE ValueDoc(m.result.error_data)
           /\ Field(j, "ts") = IfGiven(m.ts, Timestamp64)
           /\ Field(j, "logLines") = Lines(m.log_lines)
<1>1. m.type \in {"MutationResponse", "ActionResponse"}
    BY DEF Response
<1> DEFINE fields == [type |-> Word(m.type), requestId |-> Integer(m.id),
                   success |-> <<"boolean", m.result.ok>>,
                   result |-> IF m.result.ok THEN ValueDoc(m.result.value)
                              ELSE Text(m.result.error),
                   errorData |-> IF m.result.ok THEN Absent ELSE ValueDoc(m.result.error_data),
                   ts |-> IfGiven(m.ts, Timestamp64), logLines |-> Lines(m.log_lines)]
<1>2. j = Object(fields)
    BY <1>1 DEF ServerDoc
<1>3. /\ {"type", "requestId", "success", "result", "errorData", "ts", "logLines"} \subseteq DOMAIN fields
      /\ fields["type"] = Word(m.type) /\ fields["requestId"] = Integer(m.id)
      /\ fields["success"] = <<"boolean", m.result.ok>>
      /\ fields["result"] = IF m.result.ok THEN ValueDoc(m.result.value)
                                   ELSE Text(m.result.error)
      /\ fields["errorData"] = IF m.result.ok THEN Absent ELSE ValueDoc(m.result.error_data)
      /\ fields["ts"] = IfGiven(m.ts, Timestamp64)
      /\ fields["logLines"] = Lines(m.log_lines)
    OBVIOUS
<1> HIDE DEF fields
<1> QED
    BY <1>1, <1>2, <1>3, FieldOf

\* The fields of an AuthError.
LEMMA AuthErrorFields ==
    ASSUME NEW m \in AuthError, NEW j, j = ServerDoc(m)
    PROVE  /\ j[1] = "object" /\ Field(j, "type") = Word("AuthError")
           /\ Field(j, "error") = Text(m.error)
           /\ Field(j, "baseVersion") = IfGiven(m.base_version, Integer)
           /\ Field(j, "authUpdateAttempted") = <<"boolean", m.auth_update_attempted>>
<1>1. m.type = "AuthError"
    BY DEF AuthError
<1> DEFINE fields == [type |-> Word(m.type), error |-> Text(m.error),
                   baseVersion |-> IfGiven(m.base_version, Integer),
                   authUpdateAttempted |-> <<"boolean", m.auth_update_attempted>>]
<1>2. j = Object(fields)
    BY <1>1 DEF ServerDoc
<1>3. /\ {"type", "error", "baseVersion", "authUpdateAttempted"} \subseteq DOMAIN fields
      /\ fields["type"] = Word("AuthError") /\ fields["error"] = Text(m.error)
      /\ fields["baseVersion"] = IfGiven(m.base_version, Integer)
      /\ fields["authUpdateAttempted"] = <<"boolean", m.auth_update_attempted>>
    BY <1>1
<1> HIDE DEF fields
<1>4. <<"boolean", m.auth_update_attempted>> # Absent
    BY DEF Absent
<1> QED
    BY <1>2, <1>3, <1>4, FieldOf

\* The fields of a FatalError.
LEMMA FatalErrorFields ==
    ASSUME NEW m \in FatalError, NEW j, j = ServerDoc(m)
    PROVE  /\ j[1] = "object" /\ Field(j, "type") = Word("FatalError")
           /\ Field(j, "error") = Text(m.error)
<1>1. m.type = "FatalError"
    BY DEF FatalError
<1> DEFINE fields == [type |-> Word(m.type), error |-> Text(m.error)]
<1>2. j = Object(fields)
    BY <1>1 DEF ServerDoc
<1> QED
    BY <1>1, <1>2, FieldOf

\* The field of a Ping.
LEMMA PingFields ==
    ASSUME NEW m \in Ping, NEW j, j = ServerDoc(m)
    PROVE  j[1] = "object" /\ Field(j, "type") = Word("Ping")
<1>1. m.type = "Ping"
    BY DEF Ping
<1> DEFINE fields == [type |-> Word(m.type)]
<1>2. j = Object(fields)
    BY <1>1 DEF ServerDoc
<1> QED
    BY <1>1, <1>2, FieldOf

\* The fields of a TransitionChunk.
LEMMA ChunkFields ==
    ASSUME NEW m \in TransitionChunk, NEW j, j = ServerDoc(m)
    PROVE  /\ j[1] = "object" /\ Field(j, "type") = Word("TransitionChunk")
           /\ Field(j, "chunk") = Text(m.chunk) /\ Field(j, "partNumber") = Integer(m.part_number)
           /\ Field(j, "totalParts") = Integer(m.total_parts)
           /\ Field(j, "transitionId") = Text(m.transition_id)
<1>1. m.type = "TransitionChunk"
    BY DEF TransitionChunk
<1> DEFINE fields == [type |-> Word(m.type), chunk |-> Text(m.chunk),
                   partNumber |-> Integer(m.part_number), totalParts |-> Integer(m.total_parts),
                   transitionId |-> Text(m.transition_id)]
<1>2. j = Object(fields)
    BY <1>1 DEF ServerDoc
<1>3. /\ {"type", "chunk", "partNumber", "totalParts", "transitionId"} \subseteq DOMAIN fields
      /\ fields["type"] = Word("TransitionChunk") /\ fields["chunk"] = Text(m.chunk)
      /\ fields["partNumber"] = Integer(m.part_number)
      /\ fields["totalParts"] = Integer(m.total_parts)
      /\ fields["transitionId"] = Text(m.transition_id)
    BY <1>1
<1> HIDE DEF fields
<1> QED
    BY <1>2, <1>3, FieldOf

\* The documents are objects that name their type.
LEMMA ServerDocIs ==
    ASSUME NEW m \in ServerMessage
    PROVE  /\ ServerDoc(m)[1] = "object" /\ Field(ServerDoc(m), "type") = Word(m.type)
           /\ m.type \in Types /\ TypeOf(ServerDoc(m)) = m.type
<1>1. m.type \in Types
    BY DEF ServerMessage, Transition, Response, AuthError, FatalError, Ping, TransitionChunk, Types
<1>2. ServerDoc(m)[1] = "object" /\ Field(ServerDoc(m), "type") = Word(m.type)
    <2>1. CASE m \in Transition
        BY <2>1, TransitionFields DEF Transition
    <2>2. CASE m \in Response
        BY <2>2, ResponseFields
    <2>3. CASE m \in AuthError
        BY <2>3, AuthErrorFields DEF AuthError
    <2>4. CASE m \in FatalError
        BY <2>4, FatalErrorFields DEF FatalError
    <2>5. CASE m \in Ping
        BY <2>5, PingFields DEF Ping
    <2>6. CASE m \in TransitionChunk
        BY <2>6, ChunkFields DEF TransitionChunk
    <2> QED
        BY <2>1, <2>2, <2>3, <2>4, <2>5, <2>6 DEF ServerMessage
<1> QED
    BY <1>1, <1>2, TypeIs

\* A version is written as an object.
LEMMA VersionDocIs == \A v : VersionDoc(v)[1] = "object" /\ VersionDoc(v) # Absent
<1>1. \A v : VersionDoc(v)[1] = "object"
    BY FieldOf DEF VersionDoc
<1>2. Absent[1] # "object"
    BY DEF Absent
<1> QED
    BY <1>1, <1>2

\* The modifications that are in the list of a document.
LEMMA ModificationAt ==
    ASSUME NEW m \in Transition, NEW i \in DOMAIN m.modifications
    PROVE  m.modifications[i] \in QueryUpdated \cup QueryFailed \cup QueryRemoved
<1>1. m.modifications \in Seq(QueryUpdated \cup QueryFailed \cup QueryRemoved)
    BY DEF Transition
<1> QED
    BY <1>1

\* A Transition is taken, and read as what it means.
LEMMA TransitionRead ==
    ASSUME NEW m \in Transition, NEW j, j = ServerDoc(m)
    PROVE  Verdict(j) = "ok" /\ GetMessage(j) = Meaning(m)
<1> DEFINE docs == [i \in DOMAIN m.modifications |-> ModificationDoc(m.modifications[i])]
<1>1. /\ j[1] = "object" /\ Field(j, "type") = Word("Transition")
      /\ Field(j, "startVersion") = VersionDoc(m.start_version)
      /\ Field(j, "endVersion") = VersionDoc(m.end_version)
      /\ Field(j, "modifications") = <<"array", docs>>
    BY TransitionFields
<1>2. TypeOf(j) = "Transition"
    BY <1>1, TypeIs DEF Types
<1>3. /\ m.type = "Transition" /\ m.start_version \in StateVersion /\ m.end_version \in StateVersion
      /\ m.modifications \in Seq(QueryUpdated \cup QueryFailed \cup QueryRemoved)
      /\ m = [type |-> m.type, start_version |-> m.start_version, end_version |-> m.end_version,
              modifications |-> m.modifications]
    BY DEF Transition
<1>4. \E n \in Nat : DOMAIN m.modifications = 1..n
    <2>1. DOMAIN m.modifications = 1..Len(m.modifications) /\ Len(m.modifications) \in Nat
        BY <1>3
    <2> QED
        BY <2>1
<1>5. \A i \in DOMAIN m.modifications :
        /\ Outcome(ModificationChecks(docs[i])) = "ok"
        /\ GetModification(docs[i]) = ModificationMeaning(m.modifications[i])
    BY ModificationAt, ModificationRead
<1>6. DOMAIN docs = DOMAIN m.modifications
    OBVIOUS
<1> HIDE DEF docs
<1>7. Field(j, "modifications")[1] = "array" /\ Field(j, "modifications")[2] = docs
      /\ Field(j, "modifications") # Absent
    BY <1>1 DEF Absent
<1>8. Tame(j)
    <2>1. ModificationsTame(Field(j, "modifications"))
        BY <1>4, <1>5, <1>6, <1>7 DEF ModificationsTame, Handled
    <2> QED
        BY <1>2, <2>1 DEF Tame
<1>9. Readable(j)
    <2>1. VersionReadable(Field(j, "startVersion")) /\ VersionReadable(Field(j, "endVersion"))
        BY <1>1, <1>3, VersionRead
    <2>2. \A i \in DOMAIN Field(j, "modifications")[2] :
             Outcome(ModificationChecks(Field(j, "modifications")[2][i])) = "ok"
        BY <1>5, <1>6, <1>7
    <2> QED
        BY <1>2, <1>7, <2>1, <2>2 DEF Readable
<1>10. Verdict(j) = "ok"
    BY <1>8, <1>9, MessageVerdict
<1>11. /\ j[2].startVersion = VersionDoc(m.start_version) /\ j[2].endVersion = VersionDoc(m.end_version)
       /\ j[2].modifications[2] = docs
    <2>1. j[2]["startVersion"] = VersionDoc(m.start_version)
        BY <1>1, VersionDocIs, FieldThere
    <2>2. j[2]["endVersion"] = VersionDoc(m.end_version)
        BY <1>1, VersionDocIs, FieldThere
    <2>3. j[2]["modifications"] = Field(j, "modifications")
        BY <1>7, FieldThere
    <2> QED
        BY <1>7, <2>1, <2>2, <2>3
<1>12. GetVersion(j[2].startVersion) = m.start_version /\ GetVersion(j[2].endVersion) = m.end_version
    BY <1>3, <1>11, VersionRead
<1>13. [i \in DOMAIN j[2].modifications[2] |-> GetModification(j[2].modifications[2][i])]
         = [i \in DOMAIN m.modifications |-> ModificationMeaning(m.modifications[i])]
    BY <1>5, <1>6, <1>11
<1>14. GetMessage(j) = [type |-> "Transition", start_version |-> m.start_version,
                        end_version |-> m.end_version,
                        modifications |-> [i \in DOMAIN m.modifications |->
                                              ModificationMeaning(m.modifications[i])]]
    <2>1. GetMessage(j) = [type |-> "Transition", start_version |-> GetVersion(j[2].startVersion),
            end_version |-> GetVersion(j[2].endVersion),
            modifications |-> [i \in DOMAIN j[2].modifications[2] |->
                                  GetModification(j[2].modifications[2][i])]]
        BY <1>2 DEF GetMessage
    <2> QED
        BY <1>12, <1>13, <2>1
<1>15. Meaning(m) = [type |-> "Transition", start_version |-> m.start_version,
                        end_version |-> m.end_version,
                        modifications |-> [i \in DOMAIN m.modifications |->
                                              ModificationMeaning(m.modifications[i])]]
    BY <1>3 DEF Meaning
<1> QED
    BY <1>10, <1>14, <1>15

\* A function's result is read as it was written.
LEMMA ResultRead ==
    ASSUME NEW r \in FunctionResult, NEW j,
           Field(j, "success") = <<"boolean", r.ok>>,
           Field(j, "result") = IF r.ok THEN ValueDoc(r.value) ELSE Text(r.error),
           Field(j, "errorData") = IF r.ok THEN Absent ELSE ValueDoc(r.error_data)
    PROVE  /\ ResultReadable(j) /\ CheckErrorData(j) = "ok"
           /\ GetResult(j) = ResultMeaning(r)
<1>0. Field(j, "success")[1] = "boolean" /\ Field(j, "success")[2] = r.ok
      /\ Field(j, "success") # Absent
    BY DEF Absent
<1>1. j[2]["success"][2] = r.ok
    BY <1>0, FieldThere
<1>2. CASE r \in [ok : {TRUE}, value : Values]
    <2>1. r.ok = TRUE /\ r.value \in Values
        BY <1>2
    <2>2. RequireValue(Field(j, "result")) = "ok" /\ ReadValue(j[2]["result"]) = SameValue(r.value)
        BY <2>1, ValueRead
    <2>3. CheckErrorData(j) = "ok"
        BY <2>1 DEF CheckErrorData, Given, Check
    <2>4. ResultReadable(j)
        BY <1>0, <2>1, <2>2 DEF ResultReadable
    <2>5. GetResult(j) = ResultMeaning(r)
        BY <1>1, <2>1, <2>2 DEF GetResult, ResultMeaning, Success
    <2> QED
        BY <2>3, <2>4, <2>5
<1>3. CASE r \in [ok : {FALSE}, error : Strings, error_data : ErrorData]
    <2>1. r.ok = FALSE /\ r.error_data \in ErrorData
        BY <1>3
    <2>2. IsString(Field(j, "result")) /\ GetString(j, "result") = r.error
        BY <2>1, StringRead
    <2>3. CheckErrorData(j) = "ok" /\ GetErrorData(j) = DataMeaning(r.error_data)
        BY <2>1, DataRead
    <2>4. Field(j, "success") # <<"boolean", TRUE>>
        <3>1. Field(j, "success")[2] = FALSE
            BY <1>0, <2>1
        <3>2. <<"boolean", TRUE>>[2] = TRUE
            OBVIOUS
        <3> QED
            BY <3>1, <3>2
    <2>5. ResultReadable(j)
        BY <1>0, <2>2, <2>4 DEF ResultReadable
    <2>6. GetResult(j) = ResultMeaning(r)
        BY <1>1, <2>1, <2>2, <2>3 DEF GetResult, ResultMeaning, Failure
    <2> QED
        BY <2>3, <2>5, <2>6
<1> QED
    BY <1>2, <1>3 DEF FunctionResult

\* A response is taken, and read as what it means.
LEMMA ResponseRead ==
    ASSUME NEW m \in Response, NEW j, j = ServerDoc(m)
    PROVE  Verdict(j) = "ok" /\ GetMessage(j) = Meaning(m)
<1>1. /\ m.type \in {"MutationResponse", "ActionResponse"}
      /\ j[1] = "object" /\ Field(j, "type") = Word(m.type)
      /\ Field(j, "requestId") = Integer(m.id)
      /\ Field(j, "success") = <<"boolean", m.result.ok>>
      /\ Field(j, "result") = IF m.result.ok THEN ValueDoc(m.result.value)
                              ELSE Text(m.result.error)
      /\ Field(j, "errorData") = IF m.result.ok THEN Absent ELSE ValueDoc(m.result.error_data)
      /\ Field(j, "ts") = IfGiven(m.ts, Timestamp64)
      /\ Field(j, "logLines") = Lines(m.log_lines)
    BY ResponseFields
<1>2. TypeOf(j) = m.type
    BY <1>1, TypeIs DEF Types
<1>3. /\ m.id \in Numbers /\ m.result \in FunctionResult /\ m.ts \in Optional(Words)
      /\ m.type = "ActionResponse" => m.ts = Nil
      /\ m.log_lines \in Seq(Strings)
      /\ m = [type |-> m.type, id |-> m.id, result |-> m.result, ts |-> m.ts,
              log_lines |-> m.log_lines]
    <2>1. Nil \in Optional(Words)
        BY DEF Optional, Nil
    <2>2. CASE m \in [type : {"MutationResponse"}, id : Numbers, result : FunctionResult,
                     ts : Optional(Words), log_lines : Seq(Strings)]
        BY <2>2
    <2>3. CASE m \in [type : {"ActionResponse"}, id : Numbers, result : FunctionResult,
                     ts : {Nil}, log_lines : Seq(Strings)]
        BY <2>1, <2>3
    <2> QED
        BY <2>2, <2>3 DEF Response
<1>4. ResultReadable(j) /\ CheckErrorData(j) = "ok" /\ GetResult(j) = ResultMeaning(m.result)
    BY <1>1, <1>3, ResultRead
<1>5. RequireU32(j, "requestId") = "ok" /\ GetU32(j, "requestId") = m.id
    BY <1>1, <1>3, NumberRead
<1>6. CheckLogLines(j) = "ok" /\ GetLogLines(j) = m.log_lines
    BY <1>1, <1>3, LogLinesFine, LinesRead
<1>7. /\ Given(j, "ts") => RequireTimestamp(Field(j, "ts")) = "ok"
      /\ (IF Given(j, "ts") THEN Some(le_base64_to_word(j[2]["ts"][2])) ELSE Nil) = m.ts
    <2>1. CASE m.ts = Nil
        BY <1>1, <2>1 DEF IfGiven, Given
    <2>2. CASE m.ts # Nil
        <3>1. m.ts[1] \in Words /\ m.ts = Some(m.ts[1])
            BY <1>3, <2>2, OptionalIs
        <3>2. Field(j, "ts") = Timestamp64(m.ts[1])
            BY <1>1, <2>2 DEF IfGiven
        <3>3. /\ RequireTimestamp(Timestamp64(m.ts[1])) = "ok"
              /\ le_base64_to_word(Timestamp64(m.ts[1])[2]) = m.ts[1]
              /\ Timestamp64(m.ts[1]) \notin {Absent, Null}
            BY <3>1, TimestampRead
        <3>4. Given(j, "ts") /\ j[2]["ts"] = Timestamp64(m.ts[1])
            BY <3>2, <3>3, GivenThere DEF Given
        <3> QED
            BY <3>1, <3>2, <3>3, <3>4
    <2> QED
        BY <2>1, <2>2
<1>8. Tame(j)
    BY <1>1, <1>2, <1>4 DEF Tame
<1>9. Readable(j)
    BY <1>1, <1>2, <1>4, <1>5, <1>6, <1>7 DEF Readable
<1>10. Verdict(j) = "ok"
    BY <1>8, <1>9, MessageVerdict
<1>11. (IF m.type = "MutationResponse" /\ Given(j, "ts")
        THEN Some(le_base64_to_word(j[2]["ts"][2])) ELSE Nil) = m.ts
    BY <1>1, <1>3, <1>7
<1>12. GetMessage(j) = [type |-> m.type, id |-> m.id, result |-> ResultMeaning(m.result),
                        ts |-> m.ts, log_lines |-> m.log_lines]
    <2>1. GetMessage(j) =
            [type |-> m.type, id |-> GetU32(j, "requestId"), result |-> GetResult(j),
             ts |-> IF m.type = "MutationResponse" /\ Given(j, "ts")
                    THEN Some(le_base64_to_word(j[2]["ts"][2])) ELSE Nil,
             log_lines |-> GetLogLines(j)]
        BY <1>1, <1>2 DEF GetMessage
    <2> QED
        BY <1>4, <1>5, <1>6, <1>11, <2>1
<1>13. Meaning(m) = [type |-> m.type, id |-> m.id, result |-> ResultMeaning(m.result),
                        ts |-> m.ts, log_lines |-> m.log_lines]
    BY <1>1, <1>3 DEF Meaning
<1> QED
    BY <1>10, <1>12, <1>13

\* An AuthError is taken, and read as its fields say.
LEMMA AuthErrorReadAs ==
    ASSUME NEW m \in AuthError, NEW j, NEW base \in Optional(Numbers),
           Field(j, "type") = Word("AuthError"), Field(j, "error") = Text(m.error),
           GetBaseVersion(j) = base,
           Field(j, "authUpdateAttempted") = <<"boolean", m.auth_update_attempted>>
    PROVE  Verdict(j) = "ok" /\ GetMessage(j) = [m EXCEPT !.base_version = base]
<1>1. TypeOf(j) = "AuthError"
    BY TypeIs DEF Types
<1>2. IsString(Field(j, "error")) /\ GetString(j, "error") = m.error
    BY StringRead
<1>3. Tame(j) /\ Readable(j)
    BY <1>1, <1>2 DEF Tame, Readable
<1>4. GetAttempted(j) = m.auth_update_attempted
    <2>1. m.auth_update_attempted \in BOOLEAN
        BY DEF AuthError
    <2>2. <<"boolean", TRUE>>[2] = TRUE /\ <<"boolean", FALSE>>[2] = FALSE
        OBVIOUS
    <2>3. <<"boolean", TRUE>> # <<"boolean", FALSE>>
        BY <2>2
    <2>4. CASE m.auth_update_attempted = TRUE
        BY <2>4 DEF GetAttempted
    <2>5. CASE m.auth_update_attempted = FALSE
        BY <2>3, <2>5 DEF GetAttempted
    <2> QED
        BY <2>1, <2>4, <2>5
<1>5. GetMessage(j) = [type |-> "AuthError", error |-> m.error, base_version |-> base,
                       auth_update_attempted |-> m.auth_update_attempted]
    <2>1. GetMessage(j) = [type |-> "AuthError", error |-> GetString(j, "error"),
                           base_version |-> GetBaseVersion(j),
                           auth_update_attempted |-> GetAttempted(j)]
        BY <1>1 DEF GetMessage
    <2> QED
        BY <1>2, <1>4, <2>1
<1>6. [m EXCEPT !.base_version = base]
        = [type |-> "AuthError", error |-> m.error, base_version |-> base,
           auth_update_attempted |-> m.auth_update_attempted]
    BY DEF AuthError
<1> QED
    BY <1>3, <1>5, <1>6, MessageVerdict

\* An AuthError is read as what it means, and without its baseVersion when
\* that is no number.
LEMMA AuthErrorRead ==
    ASSUME NEW m \in AuthError
    PROVE  /\ Verdict(ServerDoc(m)) = "ok" /\ GetMessage(ServerDoc(m)) = m
           /\ LET j == With(ServerDoc(m), "baseVersion", Garbage)
              IN Verdict(j) = "ok" /\ GetMessage(j) = [m EXCEPT !.base_version = Nil]
<1> DEFINE doc == ServerDoc(m)
<1>1. /\ doc[1] = "object" /\ Field(doc, "type") = Word("AuthError")
      /\ Field(doc, "error") = Text(m.error)
      /\ Field(doc, "baseVersion") = IfGiven(m.base_version, Integer)
      /\ Field(doc, "authUpdateAttempted") = <<"boolean", m.auth_update_attempted>>
    BY AuthErrorFields
<1>2. m.base_version \in Optional(Numbers) /\ m = [m EXCEPT !.base_version = m.base_version]
    BY DEF AuthError
<1>3. Nil \in Optional(Numbers)
    BY DEF Optional, Nil
<1> HIDE DEF doc
<1>4. GetBaseVersion(doc) = m.base_version
    <2>1. CASE m.base_version = Nil
        <3>1. Field(doc, "baseVersion") = Absent
            BY <1>1, <2>1 DEF IfGiven
        <3> QED
            BY <2>1, <3>1 DEF GetBaseVersion, Absent
    <2>2. CASE m.base_version # Nil
        <3>1. m.base_version[1] \in Numbers /\ m.base_version = Some(m.base_version[1])
            BY <1>2, <2>2, OptionalIs
        <3>2. Field(doc, "baseVersion") = Integer(m.base_version[1])
            BY <1>1, <2>2 DEF IfGiven
        <3>3. GetU32(doc, "baseVersion") = m.base_version[1]
            BY <3>1, <3>2, NumberRead
        <3> QED
            BY <3>1, <3>2, <3>3, Nodes DEF GetBaseVersion
    <2> QED
        BY <2>1, <2>2
<1>5. Verdict(doc) = "ok" /\ GetMessage(doc) = m
    BY <1>1, <1>2, <1>4, AuthErrorReadAs
<1> DEFINE odd == With(doc, "baseVersion", Garbage)
<1>6. \A g : Field(odd, g) = IF g = "baseVersion" THEN Garbage ELSE Field(doc, g)
    BY <1>1, FieldWith
<1> HIDE DEF odd
<1>7. GetBaseVersion(odd) = Nil
    BY <1>6, GarbageIs DEF GetBaseVersion
<1>8. /\ Field(odd, "type") = Word("AuthError") /\ Field(odd, "error") = Text(m.error)
      /\ Field(odd, "authUpdateAttempted") = <<"boolean", m.auth_update_attempted>>
    BY <1>1, <1>6
<1>9. Verdict(odd) = "ok" /\ GetMessage(odd) = [m EXCEPT !.base_version = Nil]
    BY <1>3, <1>7, <1>8, AuthErrorReadAs
<1> QED
    BY <1>5, <1>9 DEF doc, odd

\* A FatalError is read as it was written.
LEMMA FatalErrorRead ==
    ASSUME NEW m \in FatalError, NEW j, j = ServerDoc(m)
    PROVE  Verdict(j) = "ok" /\ GetMessage(j) = m
<1>1. Field(j, "type") = Word("FatalError") /\ Field(j, "error") = Text(m.error)
    BY FatalErrorFields
<1>2. TypeOf(j) = "FatalError"
    BY <1>1, TypeIs DEF Types
<1>3. IsString(Field(j, "error")) /\ GetString(j, "error") = m.error
    BY <1>1, StringRead
<1>4. Tame(j) /\ Readable(j)
    BY <1>2, <1>3 DEF Tame, Readable
<1>5. GetMessage(j) = [type |-> "FatalError", error |-> m.error]
    BY <1>2, <1>3 DEF GetMessage
<1>6. m = [type |-> "FatalError", error |-> m.error]
    BY DEF FatalError
<1> QED
    BY <1>4, <1>5, <1>6, MessageVerdict

\* A Ping is read as a Ping.
LEMMA PingRead ==
    ASSUME NEW m \in Ping, NEW j, j = ServerDoc(m)
    PROVE  Verdict(j) = "ok" /\ GetMessage(j) = m
<1>1. Field(j, "type") = Word("Ping")
    BY PingFields
<1>2. TypeOf(j) = "Ping"
    BY <1>1, TypeIs DEF Types
<1>3. Tame(j) /\ Readable(j)
    BY <1>2 DEF Tame, Readable
<1>4. GetMessage(j) = [type |-> "Ping"]
    BY <1>2 DEF GetMessage
<1>5. m = [type |-> "Ping"]
    BY DEF Ping
<1> QED
    BY <1>3, <1>4, <1>5, MessageVerdict

\* A chunk is read as it was written.
LEMMA ChunkRead ==
    ASSUME NEW m \in TransitionChunk, NEW j, j = ServerDoc(m)
    PROVE  Verdict(j) = "ok" /\ GetMessage(j) = m
<1>1. /\ Field(j, "type") = Word("TransitionChunk")
      /\ Field(j, "chunk") = Text(m.chunk) /\ Field(j, "partNumber") = Integer(m.part_number)
      /\ Field(j, "totalParts") = Integer(m.total_parts)
      /\ Field(j, "transitionId") = Text(m.transition_id)
    BY ChunkFields
<1>2. TypeOf(j) = "TransitionChunk"
    BY <1>1, TypeIs DEF Types
<1>3. /\ m.part_number \in Numbers /\ m.total_parts \in Numbers
      /\ m = [type |-> "TransitionChunk", chunk |-> m.chunk, part_number |-> m.part_number,
              total_parts |-> m.total_parts, transition_id |-> m.transition_id]
    BY DEF TransitionChunk
<1>4. /\ RequireString(j, "chunk") = "ok" /\ GetString(j, "chunk") = m.chunk
      /\ RequireString(j, "transitionId") = "ok" /\ GetString(j, "transitionId") = m.transition_id
    BY <1>1, StringRead
<1>5. /\ RequireU32(j, "partNumber") = "ok" /\ GetU32(j, "partNumber") = m.part_number
      /\ RequireU32(j, "totalParts") = "ok" /\ GetU32(j, "totalParts") = m.total_parts
    BY <1>1, <1>3, NumberRead
<1>6. Tame(j) /\ Readable(j)
    BY <1>2, <1>4, <1>5 DEF Tame, Readable
<1>7. GetMessage(j) = [type |-> "TransitionChunk", chunk |-> m.chunk, part_number |-> m.part_number,
              total_parts |-> m.total_parts, transition_id |-> m.transition_id]
    BY <1>2, <1>4, <1>5 DEF GetMessage
<1> QED
    BY <1>3, <1>6, <1>7, MessageVerdict

\* Every message of the server is read as what it means.
LEMMA MessageRead ==
    ASSUME NEW m \in ServerMessage
    PROVE  Verdict(ServerDoc(m)) = "ok" /\ GetMessage(ServerDoc(m)) = Meaning(m)
<1>1. m.type \notin {"Transition", "MutationResponse", "ActionResponse"} => Meaning(m) = m
    BY DEF Meaning
<1>2. CASE m \in Transition
    BY <1>2, TransitionRead
<1>3. CASE m \in Response
    BY <1>3, ResponseRead
<1>4. CASE m \in AuthError
    BY <1>1, <1>4, AuthErrorRead DEF AuthError
<1>5. CASE m \in FatalError
    BY <1>1, <1>5, FatalErrorRead DEF FatalError
<1>6. CASE m \in Ping
    BY <1>1, <1>6, PingRead DEF Ping
<1>7. CASE m \in TransitionChunk
    BY <1>1, <1>7, ChunkRead DEF TransitionChunk
<1> QED
    BY <1>2, <1>3, <1>4, <1>5, <1>6, <1>7 DEF ServerMessage

-----------------------------------------------------------------------------
(* Damaged messages.                                                       *)

\* A document that cannot be read is refused with protocol_error.
LEMMA Refused ==
    ASSUME NEW j, Tame(j), ~Readable(j)
    PROVE  Verdict(j) = "protocol_error"
BY MessageVerdict DEF Handled

\* What names no type is refused.
LEMMA TypelessRefused ==
    ASSUME NEW j, \A t \in Types : Field(j, "type") # Word(t)
    PROVE  Verdict(j) = "protocol_error"
<1>1. TypeOf(j) = "unsupported"
    BY DEF TypeOf
<1>2. Tame(j) /\ ~Readable(j)
    BY <1>1 DEF Tame, Readable
<1> QED
    BY <1>2, Refused

\* What is no message at all is refused with protocol_error.
LEMMA NoMessagesRefused ==
    ASSUME NEW j \in NoMessages
    PROVE  Verdict(j) = "protocol_error"
<1>1. CASE j \in {NotJson, Null, <<"array", <<>>>>}
    <2>1. j[1] # "object"
        <3>1. NotJson[1] = "not JSON" /\ Null[1] = "null" /\ <<"array", <<>>>>[1] = "array"
            BY DEF NotJson, Null
        <3> QED
            BY <1>1, <3>1
    <2>2. Field(j, "type") = Absent
        BY <2>1 DEF Field, Has
    <2> QED
        BY <2>2, TypelessRefused, WordsApart
<1>2. CASE j = Object([type |-> Word("Nonsense")])
    <2>1. Field(j, "type") = Word("Nonsense")
        BY <1>2, FieldOf
    <2>2. "Nonsense" \notin Types
        BY DEF Types
    <2> QED
        BY <2>1, <2>2, TypelessRefused, WordsApart
<1> QED
    BY <1>1, <1>2 DEF NoMessages

\* A broken version cannot be read.
LEMMA VersionBroken ==
    ASSUME NEW j, NEW f \in {"querySet", "identity", "ts"},
           Field(j, f) \in {Absent, Garbage}
    PROVE  ~VersionReadable(j)
<1>1. RequireU32(j, f) # "ok" /\ RequireTimestamp(Field(j, f)) # "ok"
    BY FieldUnread
<1> QED
    BY <1>1 DEF VersionReadable

\* What is no object is no version.
LEMMA NoVersion ==
    ASSUME NEW j \in {Absent, Garbage}
    PROVE  ~VersionReadable(j)
<1>1. Field(j, "querySet") = Absent
    <2>1. CASE j = Absent
        BY <2>1 DEF Field, Has, Absent
    <2>2. CASE j = Garbage
        BY <2>2 DEF Garbage, Wrapper, Field, Has
    <2> QED
        BY <2>1, <2>2
<1> QED
    BY <1>1, VersionBroken

\* The list of modifications of a document, all of them fine.
LEMMA ListTame ==
    ASSUME NEW m \in Transition
    PROVE  LET list == Field(ServerDoc(m), "modifications")
           IN /\ ModificationsTame(list) /\ list[1] = "array" /\ list # Absent
              /\ DOMAIN list[2] = DOMAIN m.modifications
              /\ \A i \in DOMAIN m.modifications : list[2][i] = ModificationDoc(m.modifications[i])
<1> DEFINE docs == [i \in DOMAIN m.modifications |-> ModificationDoc(m.modifications[i])]
           list == Field(ServerDoc(m), "modifications")
<1>1. list = <<"array", docs>>
    BY TransitionFields
<1>2. list[1] = "array" /\ list[2] = docs /\ list # Absent
    BY <1>1 DEF Absent
<1>3. \E n \in Nat : DOMAIN m.modifications = 1..n
    <2>1. m.modifications \in Seq(QueryUpdated \cup QueryFailed \cup QueryRemoved)
        BY DEF Transition
    <2>2. DOMAIN m.modifications = 1..Len(m.modifications) /\ Len(m.modifications) \in Nat
        BY <2>1
    <2> QED
        BY <2>2
<1>4. \A i \in DOMAIN m.modifications : Outcome(ModificationChecks(docs[i])) = "ok"
    BY ModificationAt, ModificationRead
<1>5. DOMAIN docs = DOMAIN m.modifications
      /\ \A i \in DOMAIN m.modifications : docs[i] = ModificationDoc(m.modifications[i])
    OBVIOUS
<1> HIDE DEF docs, list
<1>6. ModificationsTame(list)
    BY <1>2, <1>3, <1>4, <1>5 DEF ModificationsTame, Handled
<1> QED
    BY <1>2, <1>5, <1>6 DEF list

\* A broken Transition is refused with protocol_error, whether it is broken
\* itself, in a version or in a modification.
LEMMA TransitionBroken ==
    ASSUME NEW m \in Transition, NEW bad \in MalformedDocs(m)
    PROVE  Verdict(bad) = "protocol_error"
<1> DEFINE j == ServerDoc(m)
           list == Field(j, "modifications")
<1>1. /\ j[1] = "object" /\ Field(j, "type") = Word("Transition")
      /\ Field(j, "startVersion") = VersionDoc(m.start_version)
      /\ Field(j, "endVersion") = VersionDoc(m.end_version)
    BY TransitionFields
<1>2. /\ ModificationsTame(list) /\ list[1] = "array" /\ list # Absent
      /\ DOMAIN list[2] = DOMAIN m.modifications
      /\ \A i \in DOMAIN m.modifications : list[2][i] = ModificationDoc(m.modifications[i])
    BY ListTame
<1>3. j[2].startVersion = VersionDoc(m.start_version) /\ j[2].endVersion = VersionDoc(m.end_version)
      /\ j[2].modifications = list
    <2>1. j[2]["startVersion"] = VersionDoc(m.start_version)
        BY <1>1, VersionDocIs, FieldThere
    <2>2. j[2]["endVersion"] = VersionDoc(m.end_version)
        BY <1>1, VersionDocIs, FieldThere
    <2>3. j[2]["modifications"] = list
        BY <1>2, FieldThere
    <2> QED
        BY <2>1, <2>2, <2>3
<1>4. m.type = "Transition"
    BY DEF Transition
<1>5. \/ bad \in Broken(j, "Transition")
      \/ \E v \in {"startVersion", "endVersion"} :
            \E b \in Broken(j[2][v], "version") : bad = With(j, v, b)
      \/ \E i \in DOMAIN m.modifications :
            \E b \in Broken(j[2].modifications[2][i], m.modifications[i].type) :
               bad = WithModification(j, i, b)
    BY <1>4, ZenonT(30) DEF MalformedDocs
<1> HIDE DEF j, list
<1>6. ASSUME Field(bad, "type") = Word("Transition"),
             Field(bad, "modifications")[1] = "array" => ModificationsTame(Field(bad, "modifications")),
             \/ ~VersionReadable(Field(bad, "startVersion"))
             \/ ~VersionReadable(Field(bad, "endVersion"))
             \/ Field(bad, "modifications")[1] # "array"
             \/ \E i \in DOMAIN Field(bad, "modifications")[2] :
                   Outcome(ModificationChecks(Field(bad, "modifications")[2][i])) # "ok"
      PROVE  Verdict(bad) = "protocol_error"
    <2>1. TypeOf(bad) = "Transition"
        BY <1>6, TypeIs DEF Types
    <2>2. Tame(bad)
        BY <1>6, <2>1 DEF Tame
    <2>3. ~Readable(bad)
        BY <1>6, <2>1 DEF Readable
    <2> QED
        BY <2>2, <2>3, Refused
<1>7. CASE bad \in Broken(j, "Transition")
    <2>1. PICK f : /\ BrokenAt(bad, j, f)
                   /\ f \in Required["Transition"]
                      \/ (f \in Typed("Transition") /\ Field(bad, f) = Garbage)
        BY <1>1, <1>7, BrokenIs
    <2>2. f \in {"startVersion", "endVersion", "modifications"}
        BY <2>1 DEF Required, Typed
    <2>3. Field(bad, f) \in {Absent, Garbage} /\ \A g : g # f => Field(bad, g) = Field(j, g)
        BY <2>1 DEF BrokenAt
    <2>4. Field(bad, "type") = Word("Transition")
        BY <1>1, <2>2, <2>3
    <2>5. CASE f = "modifications"
        <3>1. Field(bad, "modifications")[1] # "array"
            BY <2>3, <2>5, FieldUnread
        <3> QED
            BY <1>6, <2>4, <3>1
    <2>6. CASE f # "modifications"
        <3>1. Field(bad, "modifications") = list
            BY <2>3, <2>6 DEF list
        <3>2. ~VersionReadable(Field(bad, f))
            BY <2>3, NoVersion
        <3> QED
            BY <1>2, <1>6, <2>2, <2>4, <2>6, <3>1, <3>2
    <2> QED
        BY <2>5, <2>6
<1>8. ASSUME NEW v \in {"startVersion", "endVersion"},
             NEW b \in Broken(j[2][v], "version"), bad = With(j, v, b)
      PROVE  Verdict(bad) = "protocol_error"
    <2>1. j[2][v][1] = "object"
        BY <1>3, VersionDocIs
    <2>2. PICK f : /\ BrokenAt(b, j[2][v], f)
                   /\ f \in Required["version"] \/ (f \in Typed("version") /\ Field(b, f) = Garbage)
        BY <1>8, <2>1, BrokenIs
    <2>3. f \in {"querySet", "identity", "ts"}
        BY <2>2 DEF Required, Typed
    <2>4. ~VersionReadable(b)
        BY <2>2, <2>3, VersionBroken DEF BrokenAt
    <2>5. \A g : Field(bad, g) = IF g = v THEN b ELSE Field(j, g)
        BY <1>1, <1>8, FieldWith
    <2>6. Field(bad, "type") = Word("Transition") /\ Field(bad, "modifications") = list
        BY <1>1, <2>5 DEF list
    <2>7. Field(bad, v) = b
        BY <2>5
    <2> QED
        BY <1>2, <1>6, <2>4, <2>6, <2>7
<1>9. ASSUME NEW i \in DOMAIN m.modifications,
             NEW b \in Broken(j[2].modifications[2][i], m.modifications[i].type),
             bad = WithModification(j, i, b)
      PROVE  Verdict(bad) = "protocol_error"
    <2>1. j[2].modifications[2][i] = ModificationDoc(m.modifications[i])
        BY <1>2, <1>3
    <2>2. Outcome(ModificationChecks(b)) = "protocol_error"
        BY <1>9, <2>1, ModificationAt, ModificationBroken
    <2> DEFINE new == [list[2] EXCEPT ![i] = b]
    <2>3. bad = With(j, "modifications", <<"array", new>>)
        BY <1>3, <1>9 DEF WithModification
    <2>4. DOMAIN new = DOMAIN list[2] /\ \A k \in DOMAIN list[2] : new[k] = IF k = i THEN b ELSE list[2][k]
        OBVIOUS
    <2> HIDE DEF new
    <2>5. \A g : Field(bad, g) = IF g = "modifications" THEN <<"array", new>> ELSE Field(j, g)
        BY <1>1, <2>3, FieldWith
    <2>6. Field(bad, "type") = Word("Transition")
        BY <1>1, <2>5
    <2>7. Field(bad, "modifications") = <<"array", new>>
        BY <2>5
    <2>8. Field(bad, "modifications")[2] = new
        BY <2>7
    <2>9. ModificationsTame(Field(bad, "modifications"))
        BY <1>2, <2>2, <2>4, <2>8 DEF ModificationsTame, Handled
    <2>10. i \in DOMAIN new /\ Outcome(ModificationChecks(new[i])) # "ok"
        BY <1>2, <2>2, <2>4
    <2> QED
        BY <1>6, <2>6, <2>8, <2>9, <2>10
<1> QED
    BY <1>5, <1>7, <1>8, <1>9

\* A broken document of a message without modifications.
LEMMA BrokenMessage ==
    ASSUME NEW m \in ServerMessage, m.type # "Transition", NEW bad \in MalformedDocs(m)
    PROVE  \E f : /\ Field(bad, f) \in {Absent, Garbage}
                  /\ \A g : g # f => Field(bad, g) = Field(ServerDoc(m), g)
                  /\ f \in Required[m.type] \/ (f \in Typed(m.type) /\ Field(bad, f) = Garbage)
<1>1. bad \in Broken(ServerDoc(m), m.type)
    BY ZenonT(30) DEF MalformedDocs
<1>2. PICK f : /\ BrokenAt(bad, ServerDoc(m), f)
               /\ f \in Required[m.type] \/ (f \in Typed(m.type) /\ Field(bad, f) = Garbage)
    BY <1>1, ServerDocIs, BrokenIs
<1> QED
    BY <1>2 DEF BrokenAt

\* A broken response is refused with protocol_error.
LEMMA ResponseBroken ==
    ASSUME NEW m \in Response, NEW bad \in MalformedDocs(m)
    PROVE  Verdict(bad) = "protocol_error"
<1> DEFINE j == ServerDoc(m)
<1>1. /\ m.type \in {"MutationResponse", "ActionResponse"}
      /\ j[1] = "object" /\ Field(j, "type") = Word(m.type)
      /\ Field(j, "requestId") = Integer(m.id)
      /\ Field(j, "success") = <<"boolean", m.result.ok>>
      /\ Field(j, "result") = IF m.result.ok THEN ValueDoc(m.result.value)
                              ELSE Text(m.result.error)
      /\ Field(j, "errorData") = IF m.result.ok THEN Absent ELSE ValueDoc(m.result.error_data)
    BY ResponseFields
<1>2. m \in ServerMessage /\ m.type # "Transition"
    BY <1>1 DEF ServerMessage
<1>3. PICK f : /\ Field(bad, f) \in {Absent, Garbage}
               /\ \A g : g # f => Field(bad, g) = Field(j, g)
               /\ f \in Required[m.type] \/ (f \in Typed(m.type) /\ Field(bad, f) = Garbage)
    BY <1>2, BrokenMessage
<1>4. m.result \in FunctionResult
    BY DEF Response
<1> HIDE DEF j
<1>5. f \in {"type", "requestId", "success", "result"}
      \/ (f = "logLines" /\ Field(bad, f) = Garbage)
      \/ (f = "ts" /\ m.type = "MutationResponse" /\ Field(bad, f) = Garbage)
    BY <1>1, <1>3 DEF Required, Typed
<1>6. CASE f = "type"
    BY <1>3, <1>6, FieldUnread, TypelessRefused
<1>7. CASE f # "type"
    <2>1. TypeOf(bad) = m.type
        BY <1>1, <1>3, <1>7, TypeIs DEF Types
    <2>2. CheckErrorData(bad) = "ok"
        <3>1. Field(bad, "errorData") = Field(j, "errorData")
            BY <1>3, <1>5
        <3>2. CASE m.result \in [ok : {TRUE}, value : Values]
            BY <1>1, <3>1, <3>2 DEF CheckErrorData, Given, Check
        <3>3. CASE m.result \in [ok : {FALSE}, error : Strings, error_data : ErrorData]
            <4>1. Field(bad, "errorData") = ValueDoc(m.result.error_data)
                  /\ m.result.error_data \in ErrorData
                BY <1>1, <3>1, <3>3
            <4> QED
                BY <4>1, DataRead
        <3> QED
            BY <1>4, <3>2, <3>3 DEF FunctionResult
    <2>3. Tame(bad)
        BY <1>1, <2>1, <2>2 DEF Tame
    <2>4. /\ RequireU32(bad, f) # "ok" /\ ~IsString(Field(bad, f))
          /\ RequireValue(Field(bad, f)) # "ok" /\ RequireTimestamp(Field(bad, f)) # "ok"
          /\ Field(bad, f)[1] # "boolean"
        BY <1>3, FieldUnread
    <2>5. /\ f = "logLines" /\ Field(bad, f) = Garbage => CheckLogLines(bad) # "ok"
          /\ f = "ts" /\ Field(bad, f) = Garbage => Given(bad, "ts")
        BY FieldGarbage
    <2>6. f \in {"success", "result"} => ~ResultReadable(bad)
        BY <2>4 DEF ResultReadable
    <2>7. ~Readable(bad)
        BY <1>1, <1>5, <1>7, <2>1, <2>4, <2>5, <2>6 DEF Readable
    <2> QED
        BY <2>3, <2>7, Refused
<1> QED
    BY <1>6, <1>7

\* Any other broken message is refused with protocol_error.
LEMMA PlainBroken ==
    ASSUME NEW m \in AuthError \cup FatalError \cup Ping \cup TransitionChunk,
           NEW bad \in MalformedDocs(m)
    PROVE  Verdict(bad) = "protocol_error"
<1> DEFINE j == ServerDoc(m)
<1>1. m \in ServerMessage /\ m.type \in {"AuthError", "FatalError", "Ping", "TransitionChunk"}
    BY DEF ServerMessage, AuthError, FatalError, Ping, TransitionChunk
<1>2. Field(j, "type") = Word(m.type)
    BY <1>1, ServerDocIs
<1>3. PICK f : /\ Field(bad, f) \in {Absent, Garbage}
               /\ \A g : g # f => Field(bad, g) = Field(j, g)
               /\ f \in Required[m.type] \/ (f \in Typed(m.type) /\ Field(bad, f) = Garbage)
    BY <1>1, BrokenMessage
<1> HIDE DEF j
<1>4. CASE f = "type"
    BY <1>3, <1>4, FieldUnread, TypelessRefused
<1>5. CASE f # "type"
    <2>1. TypeOf(bad) = m.type
        BY <1>1, <1>2, <1>3, <1>5, TypeIs DEF Types
    <2>2. Tame(bad)
        BY <1>1, <2>1 DEF Tame
    <2>3. RequireU32(bad, f) # "ok" /\ ~IsString(Field(bad, f)) /\ RequireString(bad, f) # "ok"
        BY <1>3, FieldUnread
    <2>4. \/ m.type \in {"AuthError", "FatalError"} /\ f = "error"
          \/ m.type = "TransitionChunk" /\ f \in {"chunk", "partNumber", "totalParts", "transitionId"}
        BY <1>1, <1>3, <1>5 DEF Required, Typed
    <2>5. ~Readable(bad)
        BY <1>1, <2>1, <2>3, <2>4 DEF Readable
    <2> QED
        BY <2>2, <2>5, Refused
<1> QED
    BY <1>4, <1>5

\* No damaged message is read.
LEMMA DamagedRefused ==
    ASSUME NEW m \in ServerMessage, NEW bad \in MalformedDocs(m)
    PROVE  Verdict(bad) = "protocol_error"
BY TransitionBroken, ResponseBroken, PlainBroken DEF ServerMessage

\* Where only errorData is wrong, the document still says what it is.
LEMMA BadErrorTyped ==
    ASSUME NEW m \in ServerMessage, NEW bad \in BadErrorDocs(m)
    PROVE  TypeOf(bad) \in {"Transition", "MutationResponse", "ActionResponse"}
<1>1. ServerDoc(m)[1] = "object" /\ Field(ServerDoc(m), "type") = Word(m.type)
    BY ServerDocIs
<1>2. ASSUME NEW f, NEW node, f # "type", bad = With(ServerDoc(m), f, node),
             m.type \in {"Transition", "MutationResponse", "ActionResponse"}
      PROVE  TypeOf(bad) \in {"Transition", "MutationResponse", "ActionResponse"}
    <2>1. Field(bad, "type") = Word(m.type)
        BY <1>1, <1>2, FieldWith
    <2> QED
        BY <1>2, <2>1, TypeIs DEF Types
<1>3. CASE m.type = "Transition"
    <2>1. \E node : bad = With(ServerDoc(m), "modifications", node)
        BY <1>3 DEF BadErrorDocs, WithModification
    <2> QED
        BY <1>2, <1>3, <2>1
<1>4. CASE m.type \in {"MutationResponse", "ActionResponse"}
    <2>1. bad = With(ServerDoc(m), "errorData", Garbage)
        BY <1>4 DEF BadErrorDocs
    <2> QED
        BY <1>2, <1>4, <2>1
<1>5. CASE m.type \notin {"Transition", "MutationResponse", "ActionResponse"}
    BY <1>5 DEF BadErrorDocs
<1> QED
    BY <1>3, <1>4, <1>5

-----------------------------------------------------------------------------
(* Messages of the client.                                                 *)

\* What a node was made of can be told from it.
LEMMA Written ==
    /\ \A n, k : Integer(n) = Integer(k) => n = k
    /\ \A s, t : Text(s) = Text(t) => s = t
    /\ \A n, k \in Words : Timestamp64(n) = Timestamp64(k) => n = k
    /\ \A n \in Words : Timestamp64(n) # Absent
<1>1. \A n, k : Integer(n) = Integer(k) => n = k
    BY Nodes
<1>2. \A s, t : Text(s) = Text(t) => s = t
    BY Nodes
<1>3. \A n, k \in Words : Timestamp64(n) = Timestamp64(k) => n = k
    BY TimestampRead
<1>4. \A n \in Words : Timestamp64(n) # Absent
    BY TimestampRead
<1> QED
    BY <1>1, <1>2, <1>3, <1>4

\* Arguments are told apart by what they are written as.
LEMMA ArgsWritten ==
    /\ \A v, w \in Args : WriteValue(v) = WriteValue(w) => v = w
    /\ \A v \in Args : WriteValue(v) # Absent
    /\ \A v, w \in Args : args_dom(v) = args_dom(w) => v = w
    /\ \A v : args_dom(v) # Absent
<1>1. \A v \in Args : v \in Values /\ SameValue(v) = v
    BY DEF Args
<1>2. \A v \in Args : ReadValue(WriteValue(v)) = v /\ WriteValue(v) # Absent
    BY <1>1, CodecAssumption
<1>3. \A v : args_dom(v)[2][1] = WriteValue(v) /\ args_dom(v)[1] = "array"
    BY DEF args_dom
<1>4. \A v : args_dom(v) # Absent
    BY <1>3 DEF Absent
<1> QED
    BY <1>2, <1>3, <1>4

\* An optional member is told from every other.
LEMMA OptionalStrings ==
    ASSUME NEW s \in Optional(Strings), NEW t \in Optional(Strings),
           IfGiven(s, Text) = IfGiven(t, Text)
    PROVE  s = t
<1>1. CASE s # Nil /\ t # Nil
    <2>1. s = Some(s[1]) /\ t = Some(t[1])
        BY <1>1, OptionalIs
    <2>2. Text(s[1]) = Text(t[1])
        BY <1>1 DEF IfGiven
    <2> QED
        BY <2>1, <2>2, Written
<1>2. CASE s = Nil \/ t = Nil
    <2>1. \A x : Text(x) # Absent
        BY Nodes
    <2> QED
        BY <1>2, <2>1 DEF IfGiven
<1> QED
    BY <1>1, <1>2

\* An optional timestamp is told from every other.
LEMMA OptionalWords ==
    ASSUME NEW s \in Optional(Words), NEW t \in Optional(Words),
           IfGiven(s, Timestamp64) = IfGiven(t, Timestamp64)
    PROVE  s = t
<1>0. s # Nil => s[1] \in Words /\ s = Some(s[1])
    BY OptionalIs
<1>00. t # Nil => t[1] \in Words /\ t = Some(t[1])
    BY OptionalIs
<1>1. CASE s # Nil /\ t # Nil
    <2>2. Timestamp64(s[1]) = Timestamp64(t[1])
        BY <1>1 DEF IfGiven
    <2> QED
        BY <1>0, <1>00, <1>1, <2>2, Written
<1>2. CASE s = Nil \/ t = Nil
    <2>1. \A x \in Words : Timestamp64(x) # Absent
        BY Written
    <2> QED
        BY <1>0, <1>00, <1>2, <2>1 DEF IfGiven
<1> QED
    BY <1>1, <1>2

\* An optional number is told from every other.
LEMMA OptionalNumbers ==
    ASSUME NEW s \in Optional(Nat), NEW t \in Optional(Nat),
           IfGiven(s, Integer) = IfGiven(t, Integer)
    PROVE  s = t
<1>1. CASE s # Nil /\ t # Nil
    <2>1. s = Some(s[1]) /\ t = Some(t[1])
        BY <1>1, OptionalIs
    <2>2. Integer(s[1]) = Integer(t[1])
        BY <1>1 DEF IfGiven
    <2> QED
        BY <2>1, <2>2, Written
<1>2. CASE s = Nil \/ t = Nil
    <2>1. \A x : Integer(x) # Absent
        BY Nodes
    <2> QED
        BY <1>2, <2>1 DEF IfGiven
<1> QED
    BY <1>1, <1>2

\* Optional arguments are told from every other.
LEMMA OptionalArgs ==
    ASSUME NEW s \in Optional(Args), NEW t \in Optional(Args),
           IfGiven(s, WriteValue) = IfGiven(t, WriteValue)
    PROVE  s = t
<1>0. s # Nil => s[1] \in Args /\ s = Some(s[1])
    BY OptionalIs
<1>00. t # Nil => t[1] \in Args /\ t = Some(t[1])
    BY OptionalIs
<1>1. CASE s # Nil /\ t # Nil
    <2>2. WriteValue(s[1]) = WriteValue(t[1])
        BY <1>1 DEF IfGiven
    <2> QED
        BY <1>0, <1>00, <1>1, <2>2, ArgsWritten
<1>2. CASE s = Nil \/ t = Nil
    <2>1. \A x \in Args : WriteValue(x) # Absent
        BY ArgsWritten
    <2> QED
        BY <1>0, <1>00, <1>2, <2>1 DEF IfGiven
<1> QED
    BY <1>1, <1>2

\* The fields of a Connect.
LEMMA ConnectFields ==
    ASSUME NEW m \in Connect, NEW j, j = encode_client_message(m)
    PROVE  /\ Field(j, "type") = Word("Connect") /\ Field(j, "sessionId") = Word(m.session_id)
           /\ Field(j, "connectionCount") = Integer(m.connection_count)
           /\ Field(j, "lastCloseReason") = Word(m.last_close_reason)
           /\ Field(j, "maxObservedTimestamp") = IfGiven(m.max_observed_timestamp, Timestamp64)
           /\ Field(j, "clientTs") = IfGiven(m.client_ts, Integer)
<1>1. m.type = "Connect"
    BY DEF Connect
<1> DEFINE fields == [type |-> Word("Connect"), sessionId |-> Word(m.session_id),
                   connectionCount |-> Integer(m.connection_count),
                   lastCloseReason |-> Word(m.last_close_reason),
                   maxObservedTimestamp |-> IfGiven(m.max_observed_timestamp, Timestamp64),
                   clientTs |-> IfGiven(m.client_ts, Integer)]
<1>2. j = Object(fields)
    BY <1>1 DEF encode_client_message
<1>3. /\ {"type", "sessionId", "connectionCount", "lastCloseReason", "maxObservedTimestamp",
          "clientTs"} \subseteq DOMAIN fields
      /\ fields["type"] = Word("Connect") /\ fields["sessionId"] = Word(m.session_id)
      /\ fields["connectionCount"] = Integer(m.connection_count)
      /\ fields["lastCloseReason"] = Word(m.last_close_reason)
      /\ fields["maxObservedTimestamp"] = IfGiven(m.max_observed_timestamp, Timestamp64)
      /\ fields["clientTs"] = IfGiven(m.client_ts, Integer)
    OBVIOUS
<1> HIDE DEF fields
<1> QED
    BY <1>2, <1>3, FieldOf

\* The fields of an Authenticate.
LEMMA AuthenticateFields ==
    ASSUME NEW m \in Authenticate, NEW j, j = encode_client_message(m)
    PROVE  /\ Field(j, "type") = Word("Authenticate")
           /\ Field(j, "baseVersion") = Integer(m.base_version)
           /\ Field(j, "tokenType") = Word(m.token.kind)
           /\ Field(j, "value") = IF m.token.kind = "None" THEN Absent ELSE Word(m.token.value)
           /\ Field(j, "impersonating") = IF m.token.kind # "Admin" THEN Absent
                                          ELSE IfGiven(m.token.acting_as, WriteValue)
<1>1. m.type = "Authenticate"
    BY DEF Authenticate
<1> DEFINE fields == [type |-> Word("Authenticate"), baseVersion |-> Integer(m.base_version),
            tokenType |-> Word(m.token.kind),
            value |-> IF m.token.kind = "None" THEN Absent ELSE Word(m.token.value),
            impersonating |-> IF m.token.kind # "Admin" THEN Absent
                              ELSE IfGiven(m.token.acting_as, WriteValue)]
<1>2. j = Object(fields)
    BY <1>1 DEF encode_client_message, EncodeAuthenticate
<1>3. /\ {"type", "baseVersion", "tokenType", "value", "impersonating"} \subseteq DOMAIN fields
      /\ fields["type"] = Word("Authenticate") /\ fields["baseVersion"] = Integer(m.base_version)
      /\ fields["tokenType"] = Word(m.token.kind)
      /\ fields["value"] = IF m.token.kind = "None" THEN Absent ELSE Word(m.token.value)
      /\ fields["impersonating"] = IF m.token.kind # "Admin" THEN Absent
                                   ELSE IfGiven(m.token.acting_as, WriteValue)
    OBVIOUS
<1> HIDE DEF fields
<1> QED
    BY <1>2, <1>3, FieldOf

\* The fields of a ModifyQuerySet.
LEMMA ModifyFields ==
    ASSUME NEW m \in ModifyQuerySet, NEW j, j = encode_client_message(m)
    PROVE  /\ Field(j, "type") = Word("ModifyQuerySet")
           /\ Field(j, "baseVersion") = Integer(m.base_version)
           /\ Field(j, "newVersion") = Integer(m.new_version)
           /\ Field(j, "modifications") = <<"array", [i \in DOMAIN m.modifications |->
                                                        EncodeModification(m.modifications[i])]>>
<1>1. m.type = "ModifyQuerySet"
    BY DEF ModifyQuerySet
<1> DEFINE fields == [type |-> Word("ModifyQuerySet"), baseVersion |-> Integer(m.base_version),
                   newVersion |-> Integer(m.new_version),
                   modifications |-> <<"array", [i \in DOMAIN m.modifications |->
                                          EncodeModification(m.modifications[i])]>>]
<1>2. j = Object(fields)
    BY <1>1 DEF encode_client_message
<1>3. /\ {"type", "baseVersion", "newVersion", "modifications"} \subseteq DOMAIN fields
      /\ fields["type"] = Word("ModifyQuerySet") /\ fields["baseVersion"] = Integer(m.base_version)
      /\ fields["newVersion"] = Integer(m.new_version)
      /\ fields["modifications"] = <<"array", [i \in DOMAIN m.modifications |->
                                                  EncodeModification(m.modifications[i])]>>
    OBVIOUS
<1> HIDE DEF fields
<1> QED
    BY <1>2, <1>3, FieldOf

\* The fields of a Mutation or an Action.
LEMMA RequestFields ==
    ASSUME NEW m \in Request, NEW j, j = encode_client_message(m)
    PROVE  /\ Field(j, "type") = Word(m.type) /\ Field(j, "requestId") = Integer(m.id)
           /\ Field(j, "udfPath") = Word(m.udf_path) /\ Field(j, "args") = args_dom(m.args)
           /\ Field(j, "componentPath") = IfGiven(m.component_path, Text)
<1>1. m.type \in {"Mutation", "Action"}
    BY DEF Request
<1> DEFINE fields == [type |-> Word(m.type), requestId |-> Integer(m.id), udfPath |-> Word(m.udf_path),
            args |-> args_dom(m.args), componentPath |-> IfGiven(m.component_path, Text)]
<1>2. j = Object(fields)
    BY <1>1 DEF encode_client_message, EncodeRequest
<1>3. /\ {"type", "requestId", "udfPath", "args", "componentPath"} \subseteq DOMAIN fields
      /\ fields["type"] = Word(m.type) /\ fields["requestId"] = Integer(m.id)
      /\ fields["udfPath"] = Word(m.udf_path) /\ fields["args"] = args_dom(m.args)
      /\ fields["componentPath"] = IfGiven(m.component_path, Text)
    OBVIOUS
<1> HIDE DEF fields
<1> QED
    BY <1>2, <1>3, FieldOf

\* The modifications that add a query.
AddOf == [type : {"Add"}, id : Numbers, udf_path : STRING, args : Args,
          journal : Optional(Strings), component_path : Optional(Strings)]

\* The fields of an Add.
LEMMA AddFields ==
    ASSUME NEW mod \in AddOf, NEW j, j = EncodeModification(mod)
    PROVE  /\ Field(j, "type") = Word("Add") /\ Field(j, "queryId") = Integer(mod.id)
           /\ Field(j, "udfPath") = Word(mod.udf_path) /\ Field(j, "args") = args_dom(mod.args)
           /\ Field(j, "journal") = IfGiven(mod.journal, Text)
           /\ Field(j, "componentPath") = IfGiven(mod.component_path, Text)
<1>1. mod.type = "Add"
    BY DEF AddOf
<1> DEFINE fields == [type |-> Word("Add"), queryId |-> Integer(mod.id),
                 udfPath |-> Word(mod.udf_path), args |-> args_dom(mod.args),
                 journal |-> IfGiven(mod.journal, Text),
                 componentPath |-> IfGiven(mod.component_path, Text)]
<1>2. j = Object(fields)
    BY <1>1 DEF EncodeModification
<1>3. /\ {"type", "queryId", "udfPath", "args", "journal", "componentPath"} \subseteq DOMAIN fields
      /\ fields["type"] = Word("Add") /\ fields["queryId"] = Integer(mod.id)
      /\ fields["udfPath"] = Word(mod.udf_path) /\ fields["args"] = args_dom(mod.args)
      /\ fields["journal"] = IfGiven(mod.journal, Text)
      /\ fields["componentPath"] = IfGiven(mod.component_path, Text)
    OBVIOUS
<1> HIDE DEF fields
<1> QED
    BY <1>2, <1>3, FieldOf

\* The fields of a Remove.
LEMMA RemoveFields ==
    ASSUME NEW mod \in [type : {"Remove"}, id : Numbers], NEW j, j = EncodeModification(mod)
    PROVE  Field(j, "type") = Word("Remove") /\ Field(j, "queryId") = Integer(mod.id)
<1>1. mod.type = "Remove"
    OBVIOUS
<1> DEFINE fields == [type |-> Word("Remove"), queryId |-> Integer(mod.id)]
<1>2. j = Object(fields)
    BY <1>1 DEF EncodeModification
<1> QED
    BY <1>2, FieldOf

\* No two modifications of the query set are written the same.
LEMMA ModificationsApart ==
    ASSUME NEW a \in QuerySetModification, NEW b \in QuerySetModification,
           EncodeModification(a) = EncodeModification(b)
    PROVE  a = b
<1>1. CASE a \in AddOf /\ b \in AddOf
    <2>1. /\ a = [type |-> "Add", id |-> a.id, udf_path |-> a.udf_path, args |-> a.args,
                  journal |-> a.journal, component_path |-> a.component_path]
          /\ a.args \in Args /\ a.journal \in Optional(Strings)
          /\ a.component_path \in Optional(Strings)
        BY <1>1 DEF AddOf
    <2>2. /\ b = [type |-> "Add", id |-> b.id, udf_path |-> b.udf_path, args |-> b.args,
                  journal |-> b.journal, component_path |-> b.component_path]
          /\ b.args \in Args /\ b.journal \in Optional(Strings)
          /\ b.component_path \in Optional(Strings)
        BY <1>1 DEF AddOf
    <2>3. /\ Integer(a.id) = Integer(b.id) /\ Word(a.udf_path) = Word(b.udf_path)
          /\ args_dom(a.args) = args_dom(b.args)
          /\ IfGiven(a.journal, Text) = IfGiven(b.journal, Text)
          /\ IfGiven(a.component_path, Text) = IfGiven(b.component_path, Text)
        <3> DEFINE j == EncodeModification(a)
        <3>1. /\ Field(j, "queryId") = Integer(a.id)
              /\ Field(j, "udfPath") = Word(a.udf_path) /\ Field(j, "args") = args_dom(a.args)
              /\ Field(j, "journal") = IfGiven(a.journal, Text)
              /\ Field(j, "componentPath") = IfGiven(a.component_path, Text)
            BY <1>1, AddFields
        <3>2. /\ Field(j, "queryId") = Integer(b.id)
              /\ Field(j, "udfPath") = Word(b.udf_path) /\ Field(j, "args") = args_dom(b.args)
              /\ Field(j, "journal") = IfGiven(b.journal, Text)
              /\ Field(j, "componentPath") = IfGiven(b.component_path, Text)
            BY <1>1, AddFields
        <3> HIDE DEF j
        <3> QED
            BY <3>1, <3>2
    <2>4. a.id = b.id /\ a.udf_path = b.udf_path
        BY <2>3, Written, WordsApart
    <2>5. a.args = b.args
        BY <2>1, <2>2, <2>3, ArgsWritten
    <2>6. a.journal = b.journal /\ a.component_path = b.component_path
        BY <2>1, <2>2, <2>3, OptionalStrings
    <2> QED
        BY <2>1, <2>2, <2>4, <2>5, <2>6
<1>2. CASE a \notin AddOf /\ b \notin AddOf
    <2>1. a \in [type : {"Remove"}, id : Numbers] /\ b \in [type : {"Remove"}, id : Numbers]
        BY <1>2 DEF QuerySetModification, AddOf
    <2>2. Integer(a.id) = Integer(b.id)
        BY <2>1, RemoveFields
    <2>3. a.id = b.id
        BY <2>2, Written
    <2> QED
        BY <2>1, <2>3
<1>3. Word("Add") # Word("Remove")
    <2>1. "Add" # "Remove"
        OBVIOUS
    <2> QED
        BY <2>1, WordsApart
<1>4. \A c \in QuerySetModification :
        Field(EncodeModification(c), "type") = IF c \in AddOf THEN Word("Add") ELSE Word("Remove")
    <2>1. ASSUME NEW c \in QuerySetModification
          PROVE  Field(EncodeModification(c), "type") = IF c \in AddOf THEN Word("Add") ELSE Word("Remove")
        <3>1. c \in AddOf \/ c \in [type : {"Remove"}, id : Numbers]
            BY DEF QuerySetModification, AddOf
        <3> QED
            BY <3>1, AddFields, RemoveFields
    <2> QED
        BY <2>1
<1>5. (a \in AddOf) = (b \in AddOf)
    BY <1>3, <1>4
<1> QED
    BY <1>1, <1>2, <1>5

\* No two Connects are written the same.
LEMMA ConnectsApart ==
    ASSUME NEW a \in Connect, NEW b \in Connect,
           encode_client_message(a) = encode_client_message(b)
    PROVE  a = b
<1> DEFINE j == encode_client_message(a)
<1>1. /\ Field(j, "sessionId") = Word(a.session_id)
      /\ Field(j, "connectionCount") = Integer(a.connection_count)
      /\ Field(j, "lastCloseReason") = Word(a.last_close_reason)
      /\ Field(j, "maxObservedTimestamp") = IfGiven(a.max_observed_timestamp, Timestamp64)
      /\ Field(j, "clientTs") = IfGiven(a.client_ts, Integer)
    BY ConnectFields
<1>2. /\ Field(j, "sessionId") = Word(b.session_id)
      /\ Field(j, "connectionCount") = Integer(b.connection_count)
      /\ Field(j, "lastCloseReason") = Word(b.last_close_reason)
      /\ Field(j, "maxObservedTimestamp") = IfGiven(b.max_observed_timestamp, Timestamp64)
      /\ Field(j, "clientTs") = IfGiven(b.client_ts, Integer)
    BY ConnectFields
<1> HIDE DEF j
<1>3. /\ a = [type |-> "Connect", session_id |-> a.session_id,
              connection_count |-> a.connection_count, last_close_reason |-> a.last_close_reason,
              max_observed_timestamp |-> a.max_observed_timestamp, client_ts |-> a.client_ts]
      /\ a.max_observed_timestamp \in Optional(Words) /\ a.client_ts \in Optional(Nat)
    BY DEF Connect
<1>4. /\ b = [type |-> "Connect", session_id |-> b.session_id,
              connection_count |-> b.connection_count, last_close_reason |-> b.last_close_reason,
              max_observed_timestamp |-> b.max_observed_timestamp, client_ts |-> b.client_ts]
      /\ b.max_observed_timestamp \in Optional(Words) /\ b.client_ts \in Optional(Nat)
    BY DEF Connect
<1>5. /\ a.session_id = b.session_id /\ a.connection_count = b.connection_count
      /\ a.last_close_reason = b.last_close_reason
    <2>1. /\ Word(a.session_id) = Word(b.session_id)
          /\ Integer(a.connection_count) = Integer(b.connection_count)
          /\ Word(a.last_close_reason) = Word(b.last_close_reason)
        BY <1>1, <1>2
    <2> QED
        BY <2>1, Written, WordsApart
<1>6. a.max_observed_timestamp = b.max_observed_timestamp
    <2>1. IfGiven(a.max_observed_timestamp, Timestamp64) = IfGiven(b.max_observed_timestamp, Timestamp64)
        BY <1>1, <1>2
    <2> QED
        BY <1>3, <1>4, <2>1, OptionalWords
<1>7. a.client_ts = b.client_ts
    <2>1. IfGiven(a.client_ts, Integer) = IfGiven(b.client_ts, Integer)
        BY <1>1, <1>2
    <2> QED
        BY <1>3, <1>4, <2>1, OptionalNumbers
<1> QED
    BY <1>3, <1>4, <1>5, <1>6, <1>7

\* Tokens with the same fields are the same token.
LEMMA TokensApart ==
    ASSUME NEW a \in AuthToken, NEW b \in AuthToken, a.kind = b.kind,
           a.kind # "None" => a.value = b.value,
           a.kind = "Admin" => IfGiven(a.acting_as, WriteValue) = IfGiven(b.acting_as, WriteValue)
    PROVE  a = b
<1>1. CASE a.kind = "None"
    <2>1. /\ a \in [kind : {"None"}, value : {""}, acting_as : {Nil}]
          /\ b \in [kind : {"None"}, value : {""}, acting_as : {Nil}]
        BY <1>1 DEF AuthToken
    <2>2. a = [kind |-> "None", value |-> "", acting_as |-> Nil]
        BY <2>1
    <2>3. b = [kind |-> "None", value |-> "", acting_as |-> Nil]
        BY <2>1
    <2> QED
        BY <2>2, <2>3
<1>2. CASE a.kind = "User"
    <2>1. /\ a \in [kind : {"User"}, value : STRING, acting_as : {Nil}]
          /\ b \in [kind : {"User"}, value : STRING, acting_as : {Nil}]
        BY <1>2 DEF AuthToken
    <2> QED
        BY <1>2, <2>1
<1>3. CASE a.kind = "Admin"
    <2>1. a \in [kind : {"Admin"}, value : STRING, acting_as : Optional(Args)]
        BY <1>3 DEF AuthToken
    <2>2. b \in [kind : {"Admin"}, value : STRING, acting_as : Optional(Args)]
        BY <1>3 DEF AuthToken
    <2>3. a.acting_as = b.acting_as
        BY <1>3, <2>1, <2>2, OptionalArgs
    <2> QED
        BY <1>3, <2>1, <2>2, <2>3
<1> QED
    BY <1>1, <1>2, <1>3 DEF AuthToken

\* No two Authenticates are written the same.
LEMMA AuthenticatesApart ==
    ASSUME NEW a \in Authenticate, NEW b \in Authenticate,
           encode_client_message(a) = encode_client_message(b)
    PROVE  a = b
<1> DEFINE j == encode_client_message(a)
<1>1. /\ Field(j, "baseVersion") = Integer(a.base_version)
      /\ Field(j, "tokenType") = Word(a.token.kind)
      /\ Field(j, "value") = IF a.token.kind = "None" THEN Absent ELSE Word(a.token.value)
      /\ Field(j, "impersonating") = IF a.token.kind # "Admin" THEN Absent
                                     ELSE IfGiven(a.token.acting_as, WriteValue)
    BY AuthenticateFields
<1>2. /\ Field(j, "baseVersion") = Integer(b.base_version)
      /\ Field(j, "tokenType") = Word(b.token.kind)
      /\ Field(j, "value") = IF b.token.kind = "None" THEN Absent ELSE Word(b.token.value)
      /\ Field(j, "impersonating") = IF b.token.kind # "Admin" THEN Absent
                                     ELSE IfGiven(b.token.acting_as, WriteValue)
    BY AuthenticateFields
<1> HIDE DEF j
<1>3. /\ a = [type |-> "Authenticate", base_version |-> a.base_version, token |-> a.token]
      /\ a.token \in AuthToken
    BY DEF Authenticate
<1>4. /\ b = [type |-> "Authenticate", base_version |-> b.base_version, token |-> b.token]
      /\ b.token \in AuthToken
    BY DEF Authenticate
<1>5. a.base_version = b.base_version
    <2>1. Integer(a.base_version) = Integer(b.base_version)
        BY <1>1, <1>2
    <2> QED
        BY <2>1, Written
<1>6. a.token.kind = b.token.kind
    <2>1. Word(a.token.kind) = Word(b.token.kind)
        BY <1>1, <1>2
    <2> QED
        BY <2>1, WordsApart
<1>7. a.token.kind # "None" => a.token.value = b.token.value
    <2>1. a.token.kind # "None" => Word(a.token.value) = Word(b.token.value)
        BY <1>1, <1>2, <1>6
    <2> QED
        BY <2>1, WordsApart
<1>8. a.token.kind = "Admin"
        => IfGiven(a.token.acting_as, WriteValue) = IfGiven(b.token.acting_as, WriteValue)
    BY <1>1, <1>2, <1>6
<1>9. a.token = b.token
    BY <1>3, <1>4, <1>6, <1>7, <1>8, TokensApart
<1> QED
    BY <1>3, <1>4, <1>5, <1>9

\* No two ModifyQuerySets are written the same.
LEMMA ModifiesApart ==
    ASSUME NEW a \in ModifyQuerySet, NEW b \in ModifyQuerySet,
           encode_client_message(a) = encode_client_message(b)
    PROVE  a = b
<1> DEFINE j == encode_client_message(a)
           docs(m) == [i \in DOMAIN m.modifications |-> EncodeModification(m.modifications[i])]
<1>1. /\ Field(j, "baseVersion") = Integer(a.base_version)
      /\ Field(j, "newVersion") = Integer(a.new_version)
      /\ Field(j, "modifications") = <<"array", docs(a)>>
    BY ModifyFields
<1>2. /\ Field(j, "baseVersion") = Integer(b.base_version)
      /\ Field(j, "newVersion") = Integer(b.new_version)
      /\ Field(j, "modifications") = <<"array", docs(b)>>
    BY ModifyFields
<1> HIDE DEF j
<1>3. /\ a = [type |-> "ModifyQuerySet", base_version |-> a.base_version,
              new_version |-> a.new_version, modifications |-> a.modifications]
      /\ a.modifications \in Seq(QuerySetModification)
    BY DEF ModifyQuerySet
<1>4. /\ b = [type |-> "ModifyQuerySet", base_version |-> b.base_version,
              new_version |-> b.new_version, modifications |-> b.modifications]
      /\ b.modifications \in Seq(QuerySetModification)
    BY DEF ModifyQuerySet
<1>5. a.base_version = b.base_version /\ a.new_version = b.new_version
    <2>1. Integer(a.base_version) = Integer(b.base_version)
          /\ Integer(a.new_version) = Integer(b.new_version)
        BY <1>1, <1>2
    <2> QED
        BY <2>1, Written
<1>6. docs(a) = docs(b)
    <2>1. <<"array", docs(a)>> = <<"array", docs(b)>>
        BY <1>1, <1>2
    <2> HIDE DEF docs
    <2> QED
        BY <2>1
<1>7. DOMAIN a.modifications = DOMAIN b.modifications
    <2>1. DOMAIN docs(a) = DOMAIN a.modifications /\ DOMAIN docs(b) = DOMAIN b.modifications
        OBVIOUS
    <2> QED
        BY <1>6, <2>1
<1>8. \A i \in DOMAIN a.modifications : a.modifications[i] = b.modifications[i]
    <2> TAKE i \in DOMAIN a.modifications
    <2>1. docs(a)[i] = EncodeModification(a.modifications[i])
        OBVIOUS
    <2>2. docs(b)[i] = EncodeModification(b.modifications[i])
        BY <1>7
    <2>3. a.modifications[i] \in QuerySetModification
        BY <1>3
    <2>4. b.modifications[i] \in QuerySetModification
        BY <1>4, <1>7
    <2>5. EncodeModification(a.modifications[i]) = EncodeModification(b.modifications[i])
        BY <1>6, <2>1, <2>2
    <2> QED
        BY <2>3, <2>4, <2>5, ModificationsApart
<1> HIDE DEF docs
<1>9. a.modifications = b.modifications
    BY <1>3, <1>4, <1>7, <1>8
<1> QED
    BY <1>3, <1>4, <1>5, <1>9

\* No two requests are written the same.
LEMMA RequestsApart ==
    ASSUME NEW a \in Request, NEW b \in Request,
           encode_client_message(a) = encode_client_message(b)
    PROVE  a = b
<1> DEFINE j == encode_client_message(a)
<1>1. /\ Field(j, "type") = Word(a.type) /\ Field(j, "requestId") = Integer(a.id)
      /\ Field(j, "udfPath") = Word(a.udf_path) /\ Field(j, "args") = args_dom(a.args)
      /\ Field(j, "componentPath") = IfGiven(a.component_path, Text)
    BY RequestFields
<1>2. /\ Field(j, "type") = Word(b.type) /\ Field(j, "requestId") = Integer(b.id)
      /\ Field(j, "udfPath") = Word(b.udf_path) /\ Field(j, "args") = args_dom(b.args)
      /\ Field(j, "componentPath") = IfGiven(b.component_path, Text)
    BY RequestFields
<1> HIDE DEF j
<1>3. /\ a = [type |-> a.type, id |-> a.id, udf_path |-> a.udf_path, args |-> a.args,
              component_path |-> a.component_path]
      /\ a.args \in Args /\ a.component_path \in Optional(Strings)
    BY DEF Request
<1>4. /\ b = [type |-> b.type, id |-> b.id, udf_path |-> b.udf_path, args |-> b.args,
              component_path |-> b.component_path]
      /\ b.args \in Args /\ b.component_path \in Optional(Strings)
    BY DEF Request
<1>5. a.type = b.type /\ a.id = b.id /\ a.udf_path = b.udf_path
    <2>1. Word(a.type) = Word(b.type) /\ Integer(a.id) = Integer(b.id)
          /\ Word(a.udf_path) = Word(b.udf_path)
        BY <1>1, <1>2
    <2> QED
        BY <2>1, Written, WordsApart
<1>6. a.args = b.args
    <2>1. args_dom(a.args) = args_dom(b.args)
        BY <1>1, <1>2
    <2> QED
        BY <1>3, <1>4, <2>1, ArgsWritten
<1>7. a.component_path = b.component_path
    <2>1. IfGiven(a.component_path, Text) = IfGiven(b.component_path, Text)
        BY <1>1, <1>2
    <2> QED
        BY <1>3, <1>4, <2>1, OptionalStrings
<1> QED
    BY <1>3, <1>4, <1>5, <1>6, <1>7

\* No two messages of the client are written the same.
LEMMA MessagesApart ==
    ASSUME NEW a \in ClientMessage, NEW b \in ClientMessage,
           encode_client_message(a) = encode_client_message(b)
    PROVE  a = b
<1>1. \A m \in ClientMessage : Field(encode_client_message(m), "type") = Word(m.type)
    <2>1. ASSUME NEW m \in ClientMessage
          PROVE  Field(encode_client_message(m), "type") = Word(m.type)
        <3>1. CASE m \in Connect
            BY <3>1, ConnectFields DEF Connect
        <3>2. CASE m \in Authenticate
            BY <3>2, AuthenticateFields DEF Authenticate
        <3>3. CASE m \in ModifyQuerySet
            BY <3>3, ModifyFields DEF ModifyQuerySet
        <3>4. CASE m \in Request
            BY <3>4, RequestFields
        <3> QED
            BY <3>1, <3>2, <3>3, <3>4 DEF ClientMessage
    <2> QED
        BY <2>1
<1>2. Word(a.type) = Word(b.type)
    BY <1>1
<1>3. a.type = b.type
    BY <1>2, WordsApart
<1>4. \A m \in ClientMessage :
        /\ m \in Connect <=> m.type = "Connect"
        /\ m \in Authenticate <=> m.type = "Authenticate"
        /\ m \in ModifyQuerySet <=> m.type = "ModifyQuerySet"
        /\ m \in Request <=> m.type \in {"Mutation", "Action"}
    BY DEF ClientMessage, Connect, Authenticate, ModifyQuerySet, Request
<1>5. CASE a \in Connect
    BY <1>3, <1>4, <1>5, ConnectsApart
<1>6. CASE a \in Authenticate
    BY <1>3, <1>4, <1>6, AuthenticatesApart
<1>7. CASE a \in ModifyQuerySet
    BY <1>3, <1>4, <1>7, ModifiesApart
<1>8. CASE a \in Request
    BY <1>3, <1>4, <1>8, RequestsApart
<1> QED
    BY <1>5, <1>6, <1>7, <1>8 DEF ClientMessage

-----------------------------------------------------------------------------
(* Frames.                                                                 *)

\* What is true of a frame.
FrameFine(f) ==
    /\ f.kind = "frame"
    /\ f.damage \in {"none", "malformed", "errorData"}
    /\ f.damage = "none" => f.verdict = "ok" /\ f.got = f.means
    /\ f.damage = "malformed" => f.verdict = "protocol_error"
    /\ f.verdict = "ok" /\ f.got.type = "TransitionChunk" =>
          \E t \in Transitions : f.got.transition_id = <<t>>
             /\ f.got.part_number \in 0..MaxParts /\ f.got.total_parts \in 0..MaxParts

\* The members of a frame.
LEMMA FrameIs ==
    ASSUME NEW doc, NEW means, NEW damage, NEW f, f = Frame(doc, means, damage)
    PROVE  /\ f.kind = "frame" /\ f.means = means /\ f.damage = damage
           /\ f.verdict = Verdict(doc)
           /\ Verdict(doc) = "ok" => f.got = GetMessage(doc)
BY DEF Frame

\* A message means one of its own type, and a chunk means itself.
LEMMA MeaningTyped ==
    ASSUME NEW m \in ServerMessage, Meaning(m).type = "TransitionChunk"
    PROVE  m \in TransitionChunk /\ Meaning(m) = m
<1>1. CASE m \in Transition
    BY <1>1 DEF Transition, Meaning
<1>2. CASE m \in Response
    <2>1. m.type \in {"MutationResponse", "ActionResponse"} /\ "type" \in DOMAIN m
        BY <1>2 DEF Response
    <2>2. Meaning(m) = [m EXCEPT !.result = ResultMeaning(@)]
        BY <2>1 DEF Meaning
    <2>3. Meaning(m).type = m.type
        BY <2>1, <2>2
    <2> QED
        BY <2>1, <2>3
<1>3. CASE m \in AuthError \cup FatalError \cup Ping \cup TransitionChunk
    <2>1. m.type \in {"AuthError", "FatalError", "Ping", "TransitionChunk"}
        BY <1>3 DEF AuthError, FatalError, Ping, TransitionChunk
    <2>2. Meaning(m) = m
        BY <2>1 DEF Meaning
    <2> QED
        BY <1>3, <2>2 DEF AuthError, FatalError, Ping
<1> QED
    BY <1>1, <1>2, <1>3 DEF ServerMessage

\* What is read of a document has the type that the document names.
LEMMA ReadTyped ==
    ASSUME NEW j, TypeOf(j) \in {"Transition", "MutationResponse", "ActionResponse"}
    PROVE  GetMessage(j).type # "TransitionChunk"
<1>1. CASE TypeOf(j) = "Transition"
    BY <1>1 DEF GetMessage
<1>2. CASE TypeOf(j) \in {"MutationResponse", "ActionResponse"}
    BY <1>2 DEF GetMessage
<1> QED
    BY <1>1, <1>2

\* Every frame is read as what it means, or refused as its damage deserves.
LEMMA FramesFine ==
    ASSUME NEW f \in Frames
    PROVE  FrameFine(f)
<1>1. CASE \E m \in ServerMessages : f = Frame(ServerDoc(m), Meaning(m), "none")
    <2>1. PICK m \in ServerMessages : f = Frame(ServerDoc(m), Meaning(m), "none")
        BY <1>1
    <2>2. m \in ServerMessage
        BY WireAssumption
    <2>3. Verdict(ServerDoc(m)) = "ok" /\ GetMessage(ServerDoc(m)) = Meaning(m)
        BY <2>2, MessageRead
    <2>4. /\ f.kind = "frame" /\ f.means = Meaning(m) /\ f.damage = "none"
          /\ f.verdict = "ok" /\ f.got = Meaning(m)
        BY <2>1, <2>3, FrameIs
    <2>5. ASSUME Meaning(m).type = "TransitionChunk"
          PROVE  \E t \in Transitions : Meaning(m).transition_id = <<t>>
                   /\ Meaning(m).part_number \in 0..MaxParts /\ Meaning(m).total_parts \in 0..MaxParts
        <3>1. m \in TransitionChunk /\ Meaning(m) = m
            BY <2>2, <2>5, MeaningTyped
        <3>2. m.type = "TransitionChunk" /\ m.part_number \in Numbers /\ m.total_parts \in Numbers
            BY <3>1 DEF TransitionChunk
        <3>3. PICK t \in Transitions : m.transition_id = <<t>>
            BY <3>2, WireAssumption
        <3>4. m.part_number <= MaxParts /\ m.total_parts <= MaxParts
            BY <3>2, WireAssumption
        <3>5. MaxParts \in Nat
            BY ChunkAssumption
        <3>6. m.part_number \in 0..MaxParts /\ m.total_parts \in 0..MaxParts
            BY <3>2, <3>4, <3>5 DEF Numbers, U32
        <3> QED
            BY <3>1, <3>3, <3>6
    <2> QED
        BY <2>4, <2>5 DEF FrameFine
<1>2. CASE \E m \in {n \in ServerMessages : n.type = "AuthError"} :
             f = Frame(With(ServerDoc(m), "baseVersion", Garbage), [m EXCEPT !.base_version = Nil], "none")
    <2>1. PICK m \in ServerMessages :
             /\ m.type = "AuthError"
             /\ f = Frame(With(ServerDoc(m), "baseVersion", Garbage), [m EXCEPT !.base_version = Nil], "none")
        BY <1>2
    <2>2. m \in AuthError
        BY <2>1, WireAssumption
        DEF ServerMessage, Transition, Response, FatalError, Ping, TransitionChunk
    <2> DEFINE means == [m EXCEPT !.base_version = Nil]
    <2>3. means.type = "AuthError"
        BY <2>2 DEF AuthError
    <2>4. f = Frame(With(ServerDoc(m), "baseVersion", Garbage), means, "none")
        BY <2>1
    <2>5. Verdict(With(ServerDoc(m), "baseVersion", Garbage)) = "ok"
          /\ GetMessage(With(ServerDoc(m), "baseVersion", Garbage)) = means
        BY <2>2, AuthErrorRead
    <2> HIDE DEF means
    <2>6. /\ f.kind = "frame" /\ f.means = means /\ f.damage = "none"
          /\ f.verdict = "ok" /\ f.got = means
        BY <2>4, <2>5, FrameIs
    <2> QED
        BY <2>3, <2>6 DEF FrameFine
<1>3. CASE \E j \in NoMessages \cup UNION {MalformedDocs(m) : m \in DamagedMessages} :
             f = Frame(j, Nothing, "malformed")
    <2>1. PICK j \in NoMessages \cup UNION {MalformedDocs(m) : m \in DamagedMessages} :
             f = Frame(j, Nothing, "malformed")
        BY <1>3
    <2>2. j \in NoMessages \/ \E m \in ServerMessage : j \in MalformedDocs(m)
        BY <2>1, WireAssumption
    <2>3. Verdict(j) = "protocol_error"
        BY <2>2, NoMessagesRefused, DamagedRefused
    <2>4. f.kind = "frame" /\ f.damage = "malformed" /\ f.verdict = "protocol_error"
        BY <2>1, <2>3, FrameIs
    <2> QED
        BY <2>4 DEF FrameFine
<1>4. CASE \E j \in UNION {BadErrorDocs(m) : m \in DamagedMessages} :
             f = Frame(j, Nothing, "errorData")
    <2>1. PICK j \in UNION {BadErrorDocs(m) : m \in DamagedMessages} :
             f = Frame(j, Nothing, "errorData")
        BY <1>4
    <2>2. PICK m \in ServerMessage : j \in BadErrorDocs(m)
        BY <2>1, WireAssumption
    <2>3. GetMessage(j).type # "TransitionChunk"
        BY <2>2, BadErrorTyped, ReadTyped
    <2>4. /\ f.kind = "frame" /\ f.damage = "errorData" /\ f.verdict = Verdict(j)
          /\ Verdict(j) = "ok" => f.got = GetMessage(j)
        <3>1. f = Frame(j, Nothing, "errorData")
            BY <2>1
        <3>2. f.kind = "frame" /\ f.damage = "errorData"
            BY <3>1, FrameIs
        <3>3. f.verdict = Verdict(j)
            BY <3>1, FrameIs
        <3>4. Verdict(j) = "ok" => f.got = GetMessage(j)
            BY <3>1, FrameIs
        <3> QED
            BY <3>2, <3>3, <3>4
    <2> QED
        BY <2>3, <2>4 DEF FrameFine
<1>5. Frames \subseteq
        {Frame(ServerDoc(m), Meaning(m), "none") : m \in ServerMessages}
        \cup {Frame(With(ServerDoc(m), "baseVersion", Garbage), [m EXCEPT !.base_version = Nil],
                     "none") : m \in {n \in ServerMessages : n.type = "AuthError"}}
        \cup {Frame(j, Nothing, "malformed") :
                j \in NoMessages \cup UNION {MalformedDocs(m) : m \in DamagedMessages}}
        \cup {Frame(j, Nothing, "errorData") : j \in UNION {BadErrorDocs(m) : m \in DamagedMessages}}
    BY DEF Frames, Evaluated
<1> QED
    BY <1>1, <1>2, <1>3, <1>4, <1>5

-----------------------------------------------------------------------------
(* HTTP responses.                                                         *)

\* What OneHttpResult says of an answer.
AnswerFine(a) ==
    /\ a.kind = "http"
    /\ Len(a.results) = 1 \/ a.throws
    /\ IF a.means = Unusable THEN ~a.results[1].ok ELSE a.results[1] = a.means

\* An answer is fine when its one result is the one it means.
LEMMA AnswerIs ==
    ASSUME NEW call, NEW r, NEW means, NEW throws, NEW results,
           Len(results) = 1 \/ throws,
           IF means = Unusable THEN ~results[1].ok ELSE results[1] = means
    PROVE  AnswerFine(Answer(call, r, means, throws, results))
BY DEF AnswerFine, Answer

\* An error the client makes up is no success.
LEMMA Troubles ==
    \A what : ~Trouble(what).ok /\ \A v : Success(v).ok /\ Success(v) # Trouble(what)
BY DEF Trouble, Failure, Success

\* A response with a body that says nothing.
LEMMA BadBodyRead ==
    ASSUME NEW body \in BadBodies, NEW r, ~r.error, r.body = body
    PROVE  ~ParseFunctionResponse(r).ok
<1> DEFINE state == Field(body, "status")
           message == Field(body, "errorMessage")
<1>1. ~r.error /\ r.body = body
    OBVIOUS
<1>2. CASE body = NotJson
    <2>1. Field(NotJson, "status") = Absent
        BY DEF Field, Has, NotJson
    <2>2. ~IsString(Absent)
        BY DEF IsString, Absent
    <2>3. ParseFunctionResponse(r) = Trouble("unparsable body")
        BY <1>1, <1>2, <2>1, <2>2, WordsApart DEF ParseFunctionResponse
    <2> QED
        BY <2>3, Troubles
<1>3. CASE body # NotJson /\ ~IsString(state)
    <2>1. state # Word("success")
        BY <1>3, WordsApart
    <2>3. /\ ~r.error /\ r.body # NotJson /\ ~IsString(Field(r.body, "status"))
          /\ Field(r.body, "status") # Word("success")
        BY <1>1, <1>3, <2>1
    <2>2. ParseFunctionResponse(r) = Trouble("no status field")
        BY <2>3 DEF ParseFunctionResponse
    <2> QED
        BY <2>2, Troubles
<1>4. CASE body # NotJson /\ state = Word("success")
           /\ ~(Has(body, "value") /\ CanRead(body[2]["value"]))
    <2>1. IsString(state)
        BY <1>4, WordsApart
    <2> QED
        BY <1>1, <1>4, <2>1, Troubles DEF ParseFunctionResponse
<1>5. CASE /\ body # NotJson /\ IsString(state) /\ state # Word("success")
           /\ ~((message = Absent \/ IsString(message)) /\ CheckErrorData(body) = "ok")
    <2>0. /\ ~r.error /\ r.body # NotJson /\ IsString(Field(r.body, "status"))
          /\ Field(r.body, "status") # Word("success")
        BY <1>1, <1>5
    <2>1. ParseFunctionResponse(r) = Trouble("malformed response")
        BY <1>1, <1>5, <2>0 DEF ParseFunctionResponse
    <2> QED
        BY <2>1, Troubles
<1>6. Word("error") # Word("success") /\ Word("Nonsense") # Word("success")
    <2>1. "error" # "success"
        OBVIOUS
    <2>2. "Nonsense" # "success"
        OBVIOUS
    <2> QED
        BY <2>1, <2>2, WordsApart
<1>7. ASSUME state = Absent
      PROVE  ~IsString(state)
    BY <1>7 DEF IsString, Absent
<1>8. \A fields : Object(fields) # NotJson
    <2>1. NotJson[1] # "object"
        BY DEF NotJson
    <2> QED
        BY <2>1, FieldOf
<1>9. CASE body \in NoMessages
    <2>1. CASE body \in {Null, <<"array", <<>>>>}
        <3>1. Null[1] = "null" /\ <<"array", <<>>>>[1] = "array"
            BY DEF Null
        <3>2. body[1] # "object"
            BY <2>1, <3>1
        <3>3. state = Absent
            BY <3>2 DEF Field, Has
        <3> QED
            BY <1>2, <1>3, <1>7, <3>3
    <2>2. CASE body = Object([type |-> Word("Nonsense")])
        <3>1. state = Absent
            BY <2>2, FieldOf
        <3> QED
            BY <1>2, <1>3, <1>7, <3>1
    <2> QED
        BY <1>2, <1>9, <2>1, <2>2 DEF NoMessages
<1>10. CASE body = Object([status |-> Word("success")])
    <2>1. state = Word("success") /\ Field(body, "value") = Absent
        BY <1>10, FieldOf, WordsApart
    <2>2. Has(body, "value") => body[2]["value"] = Absent
        BY <2>1 DEF Field
    <2>3. ~Has(body, "value")
        BY <1>10 DEF Has, Object
    <2> QED
        BY <1>2, <1>4, <2>1, <2>3
<1>11. CASE body = Object([status |-> Word("success"), value |-> Garbage])
    <2>1. state = Word("success") /\ Field(body, "value") = Garbage
        BY <1>11, FieldOf, WordsApart, GarbageIs
    <2>2. Has(body, "value") => body[2]["value"] = Garbage
        BY <2>1 DEF Field
    <2>3. ~CanRead(Garbage)
        BY CodecAssumption
    <2> QED
        BY <1>2, <1>4, <2>1, <2>2, <2>3
<1>12. CASE body = Object([status |-> Word("error"), errorMessage |-> Null])
    <2>1. state = Word("error") /\ message = Null
        <3>1. Null # Absent
            BY DEF Null, Absent
        <3> QED
            BY <1>12, <3>1, FieldOf, WordsApart
    <2>2. ~IsString(Null) /\ Null # Absent
        BY DEF IsString, Null, Absent
    <2> QED
        BY <1>2, <1>5, <1>6, <2>1, <2>2, WordsApart
<1>13. CASE body = Object([status |-> Word("error"), errorData |-> Garbage])
    <2>1. state = Word("error") /\ Field(body, "errorData") = Garbage
        BY <1>13, FieldOf, WordsApart, GarbageIs
    <2>2. Given(body, "errorData")
        BY <2>1, GarbageIs DEF Given
    <2>3. body[2]["errorData"] = Garbage
        BY <2>1, <2>2, GivenThere
    <2>4. CheckErrorData(body) # "ok"
        BY <2>2, <2>3, CodecAssumption DEF CheckErrorData, Check
    <2> QED
        BY <1>2, <1>5, <1>6, <2>1, <2>4, WordsApart
<1>14. CASE body = Object([value |-> Null])
    <2>1. state = Absent
        BY <1>14, FieldOf
    <2> QED
        BY <1>2, <1>3, <1>7, <2>1
<1>15. CASE body = Garbage
    <2>1. state = Absent
        BY <1>15 DEF Garbage, Wrapper, Field, Has
    <2> QED
        BY <1>2, <1>3, <1>7, <2>1
<1> QED
    BY <1>9, <1>10, <1>11, <1>12, <1>13, <1>14, <1>15 DEF BadBodies

\* A response that says what the function returned or threw.
LEMMA BodyRead ==
    ASSUME NEW b \in Bodies, NEW r, ~r.error, r.body = b.body
    PROVE  b.means # Unusable /\ ParseFunctionResponse(r) = b.means
<1> DEFINE body == b.body
           state == Field(body, "status")
           message == Field(body, "errorMessage")
<1>1. ~r.error /\ r.body = body
    OBVIOUS
<1>8. \A fields : Object(fields) # NotJson
    <2>1. NotJson[1] # "object"
        BY DEF NotJson
    <2> QED
        BY <2>1, FieldOf
<1>2. ASSUME NEW v \in Values,
             b = [body |-> Object([status |-> Word("success"), value |-> ValueDoc(v)]),
                  means |-> Success(SameValue(v))]
      PROVE  b.means # Unusable /\ ParseFunctionResponse(r) = b.means
    <2>1. body = Object([status |-> Word("success"), value |-> ValueDoc(v)])
          /\ b.means = Success(SameValue(v))
        BY <1>2
    <2>2. state = Word("success") /\ Field(body, "value") = ValueDoc(v)
        BY <2>1, FieldOf, WordsApart
    <2> HIDE DEF body
    <2>3. Has(body, "value") /\ ReadValue(body[2]["value"]) = SameValue(v)
        BY <2>2, ValueRead
    <2>4. CanRead(body[2]["value"])
        <3>1. RequireValue(Field(body, "value")) = "ok"
            BY <2>2, ValueRead
        <3> QED
            BY <2>3, <3>1 DEF RequireValue, Protocol, Check, Field
    <2>5. IsString(state) /\ body # NotJson
        BY <1>8, <2>1, <2>2, WordsApart
    <2>6. ParseFunctionResponse(r) = Success(SameValue(v))
        BY <1>1, <2>2, <2>3, <2>4, <2>5 DEF ParseFunctionResponse
    <2> QED
        BY <2>1, <2>6, Troubles DEF Unusable
<1>3. ASSUME NEW d \in ErrorData,
             b = [body |-> Object([status |-> Word("error"), errorMessage |-> Word("no"),
                                   errorData |-> ValueDoc(d)]),
                  means |-> Failure(<<"no">>, DataMeaning(d))]
      PROVE  b.means # Unusable /\ ParseFunctionResponse(r) = b.means
    <2>1. body = Object([status |-> Word("error"), errorMessage |-> Word("no"),
                         errorData |-> ValueDoc(d)])
          /\ b.means = Failure(<<"no">>, DataMeaning(d))
        BY <1>3
    <2>2. state = Word("error") /\ message = Word("no") /\ Field(body, "errorData") = ValueDoc(d)
        BY <2>1, FieldOf, WordsApart
    <2> HIDE DEF body
    <2>3. CheckErrorData(body) = "ok" /\ GetErrorData(body) = DataMeaning(d)
        BY <2>2, DataRead
    <2>4. IsString(state) /\ IsString(message) /\ message # Absent /\ body # NotJson
        BY <1>8, <2>1, <2>2, WordsApart
    <2>5. state # Word("success")
        <3>1. "error" # "success"
            OBVIOUS
        <3> QED
            BY <2>2, <3>1, WordsApart
    <2>6. message[2] = <<"no">>
        BY <2>2 DEF Word
    <2>7. ParseFunctionResponse(r) = Failure(<<"no">>, DataMeaning(d))
        BY <1>1, <2>3, <2>4, <2>5, <2>6 DEF ParseFunctionResponse
    <2>8. Failure(<<"no">>, DataMeaning(d)) # Unusable
        <3>1. <<"no">>[1] = "no" /\ <<"unusable">>[1] = "unusable" /\ "no" # "unusable"
            OBVIOUS
        <3>2. <<"no">> # <<"unusable">>
            BY <3>1
        <3> QED
            BY <3>2 DEF Unusable, Trouble, Failure
    <2> QED
        BY <2>1, <2>7, <2>8
<1> QED
    BY <1>2, <1>3 DEF Bodies

\* The statuses that stand for success, and those that do not.
LEMMA Statuses ==
    /\ 200 <= Ok /\ Ok < 300 /\ ~(NotFound < 300) /\ ~(200 <= 0)
BY DEF Ok, NotFound

\* The length of a list made of two.
LEMMA JoinedLength ==
    ASSUME NEW S, NEW p \in Seq(S), NEW q \in Seq(S)
    PROVE  Len(p \o q) = Len(p) + Len(q)
OBVIOUS

\* The first members of a list made of two.
LEMMA JoinedFirst ==
    ASSUME NEW S, NEW p \in Seq(S), NEW q \in Seq(S), NEW i \in 1..Len(p)
    PROVE  (p \o q)[i] = p[i]
OBVIOUS

\* A list that starts with one member.
LEMMA JoinedToOne ==
    ASSUME NEW S, NEW p \in Seq(S), NEW q \in Seq(S), Len(p) = 1
    PROVE  (p \o q)[1] = p[1] /\ Len(p \o q) = 1 + Len(q)
<1>1. 1 \in 1..Len(p)
    OBVIOUS
<1>4. \A i \in 1..Len(p) : (p \o q)[i] = p[i]
    BY JoinedFirst
<1>2. (p \o q)[1] = p[1]
    <2>1. PICK i : i = 1
        OBVIOUS
    <2>2. i \in 1..Len(p)
        BY <1>1, <2>1
    <2>3. (p \o q)[i] = p[i]
        BY <1>4, <2>2, Zenon
    <2> QED
        BY <2>1, <2>3, Zenon
<1>3. Len(p \o q) = Len(p) + Len(q)
    BY JoinedLength
<1> QED
    BY <1>2, <1>3

\* An upload answered with a value.
LEMMA UploadRead ==
    ASSUME NEW v \in Values, NEW throws \in BOOLEAN,
           NEW r, r = HttpResponse(Ok, ValueDoc(v))
    PROVE  /\ StoreResults(r, throws)[1] = Success(SameValue(v))
           /\ Len(StoreResults(r, throws)) = 1 \/ throws
<1>1. r.error = FALSE /\ r.status = Ok /\ r.body = WriteValue(v)
    BY WireAssumption DEF HttpResponse, ValueDoc
<1>2. IsSuccessful(r)
    <2>1. 200 <= r.status /\ r.status < 300
        BY <1>1, Statuses
    <2> QED
        BY <1>1, <2>1 DEF IsSuccessful
<1>3. r.body # NotJson /\ CanRead(r.body) /\ ReadValue(r.body) = SameValue(v)
    BY <1>1, CodecAssumption
<1> DEFINE s == Success(SameValue(v))
           t == Trouble("unparsable upload response")
<1>4. StoreResults(r, throws) = <<s>> \o (IF throws THEN <<t>> ELSE <<>>)
    BY <1>2, <1>3 DEF StoreResults
<1> HIDE DEF s, t
<1>5. PICK p : p = <<s>>
    OBVIOUS
<1>6. PICK q : q = IF throws THEN <<t>> ELSE <<>>
    OBVIOUS
<1>7. p \in Seq({s, t}) /\ Len(p) = 1 /\ p[1] = s
    BY <1>5
<1>8. q \in Seq({s, t}) /\ (~throws => Len(q) = 0)
    <2>1. CASE throws
        <3>1. q = <<t>>
            BY <1>6, <2>1
        <3> QED
            BY <2>1, <3>1
    <2>2. CASE ~throws
        <3>1. q = <<>>
            BY <1>6, <2>2
        <3> QED
            BY <3>1
    <2> QED
        BY <2>1, <2>2
<1>9. StoreResults(r, throws) = p \o q
    BY <1>4, <1>5, <1>6
<1> QED
    BY <1>7, <1>8, <1>9, JoinedToOne DEF s

\* A trouble is one result, and no success.
LEMMA TroubleAlone ==
    ASSUME NEW results, NEW what, results = <<Trouble(what)>>
    PROVE  Len(results) = 1 /\ ~results[1].ok
<1>1. PICK s : s = Trouble(what)
    OBVIOUS
<1>2. results = <<s>>
    BY <1>1
<1>3. Len(results) = 1 /\ results[1] = s
    BY <1>2
<1>4. ~s.ok
    BY <1>1, Troubles
<1> QED
    BY <1>3, <1>4

\* An upload that failed, or was answered with no value.
LEMMA UploadFailed ==
    ASSUME NEW r \in FailedUploads, NEW throws
    PROVE  Len(StoreResults(r, throws)) = 1 /\ ~StoreResults(r, throws)[1].ok
<1>1. CASE r \in {HttpResponse(NotFound, Null), NoResponse(NotJson)}
    <2>1. ~IsSuccessful(r)
        BY <1>1, Statuses DEF IsSuccessful, HttpResponse, NoResponse
    <2>2. StoreResults(r, throws) = <<Trouble("upload failed")>>
        BY <2>1 DEF StoreResults
    <2> QED
        BY <2>2, TroubleAlone
<1>2. CASE \E j \in {NotJson, Garbage} : r = HttpResponse(Ok, j)
    <2>1. PICK j \in {NotJson, Garbage} : r = HttpResponse(Ok, j)
        BY <1>2
    <2>2. r.error = FALSE /\ r.status = Ok /\ r.body = j
        BY <2>1 DEF HttpResponse
    <2>3. IsSuccessful(r)
        BY <2>2, Statuses DEF IsSuccessful
    <2>4. r.body = NotJson \/ ~CanRead(r.body)
        BY <2>1, <2>2, CodecAssumption
    <2>5. StoreResults(r, throws) = <<Trouble("unparsable upload response")>>
        BY <2>3, <2>4 DEF StoreResults
    <2> QED
        BY <2>5, TroubleAlone
<1> QED
    BY <1>1, <1>2 DEF FailedUploads

\* The answers to function calls, each read as what it means.
LEMMA FunctionAnswersFine ==
    ASSUME NEW a \in FunctionAnswers
    PROVE  AnswerFine(a)
<1>0. ASSUME NEW r, NEW means, a = FunctionAnswer(r, means),
             IF means = Unusable THEN ~ParseFunctionResponse(r).ok ELSE ParseFunctionResponse(r) = means
      PROVE  AnswerFine(a)
    <2>1. PICK p : p = ParseFunctionResponse(r)
        OBVIOUS
    <2>2. PICK results : results = <<p>>
        OBVIOUS
    <2>3. a = Answer("call", r, means, FALSE, results)
        BY <1>0, <2>1, <2>2 DEF FunctionAnswer
    <2>4. Len(results) = 1 /\ results[1] = p
        BY <2>2
    <2> QED
        BY <1>0, <2>1, <2>3, <2>4, AnswerIs
<1>1. CASE \E status \in {Ok, FunctionFailed} : \E b \in Bodies :
             a = FunctionAnswer(HttpResponse(status, b.body), b.means)
    <2>1. PICK status \in {Ok, FunctionFailed}, b \in Bodies :
             a = FunctionAnswer(HttpResponse(status, b.body), b.means)
        BY <1>1
    <2>2. PICK r : r = HttpResponse(status, b.body)
        OBVIOUS
    <2>3. ~r.error /\ r.body = b.body
        BY <2>2 DEF HttpResponse
    <2>4. b.means # Unusable /\ ParseFunctionResponse(r) = b.means
        BY <2>3, BodyRead
    <2>5. PICK means : means = b.means
        OBVIOUS
    <2>6. a = FunctionAnswer(r, means)
        BY <2>1, <2>2, <2>5
    <2> QED
        BY <1>0, <2>4, <2>5, <2>6
<1>2. CASE \E status \in {Ok, NotFound} : \E j \in BadBodies :
             a = FunctionAnswer(HttpResponse(status, j), Unusable)
    <2>1. PICK status \in {Ok, NotFound}, j \in BadBodies :
             a = FunctionAnswer(HttpResponse(status, j), Unusable)
        BY <1>2
    <2>2. PICK r : r = HttpResponse(status, j)
        OBVIOUS
    <2>3. ~r.error /\ r.body = j
        BY <2>2 DEF HttpResponse
    <2>4. ~ParseFunctionResponse(r).ok
        BY <2>3, BadBodyRead
    <2> QED
        BY <1>0, <2>1, <2>2, <2>4
<1>3. CASE a = FunctionAnswer(NoResponse(NotJson), Unusable)
    <2>1. PICK r : r = NoResponse(NotJson)
        OBVIOUS
    <2>2. r.error
        BY <2>1 DEF NoResponse
    <2>3. ParseFunctionResponse(r) = Trouble("transport error")
        BY <2>2 DEF ParseFunctionResponse
    <2>4. ~ParseFunctionResponse(r).ok
        BY <2>3, Troubles
    <2> QED
        BY <1>0, <1>3, <2>1, <2>4
<1> DEFINE Good(status, b) == FunctionAnswer(HttpResponse(status, b.body), b.means)
           Bad(status, j) == FunctionAnswer(HttpResponse(status, j), Unusable)
           Lost == FunctionAnswer(NoResponse(NotJson), Unusable)
<1>4. a \in {Good(status, b) : status \in {Ok, FunctionFailed}, b \in Bodies}
            \cup {Bad(status, j) : status \in {Ok, NotFound}, j \in BadBodies} \cup {Lost}
    BY DEF FunctionAnswers
<1> HIDE DEF Good, Bad, Lost
<1>5. \/ \E status \in {Ok, FunctionFailed} : \E b \in Bodies : a = Good(status, b)
      \/ \E status \in {Ok, NotFound} : \E j \in BadBodies : a = Bad(status, j)
      \/ a = Lost
    BY <1>4
<1> QED
    BY <1>1, <1>2, <1>3, <1>5 DEF Good, Bad, Lost

\* The answers to uploads, each read as what it means.
LEMMA UploadAnswersFine ==
    ASSUME NEW a \in UploadAnswers
    PROVE  AnswerFine(a)
<1>1. CASE \E v \in Values : \E throws \in BOOLEAN :
             a = UploadAnswer(HttpResponse(Ok, ValueDoc(v)), Success(SameValue(v)), throws)
    <2>1. PICK v \in Values, throws \in BOOLEAN :
             a = UploadAnswer(HttpResponse(Ok, ValueDoc(v)), Success(SameValue(v)), throws)
        BY <1>1
    <2>2. PICK r : r = HttpResponse(Ok, ValueDoc(v))
        OBVIOUS
    <2>3. PICK results : results = StoreResults(r, throws)
        OBVIOUS
    <2>4. results[1] = Success(SameValue(v)) /\ (Len(results) = 1 \/ throws)
        BY <2>2, <2>3, UploadRead
    <2>5. Success(SameValue(v)) # Unusable
        BY Troubles DEF Unusable
    <2>6. PICK means : means = Success(SameValue(v))
        OBVIOUS
    <2>7. a = Answer("store", r, means, throws, results)
        BY <2>1, <2>2, <2>3, <2>6 DEF UploadAnswer
    <2> QED
        BY <2>4, <2>5, <2>6, <2>7, AnswerIs
<1>2. CASE \E r \in FailedUploads : \E throws \in BOOLEAN : a = UploadAnswer(r, Unusable, throws)
    <2>1. PICK r \in FailedUploads, throws \in BOOLEAN : a = UploadAnswer(r, Unusable, throws)
        BY <1>2
    <2>2. PICK results : results = StoreResults(r, throws)
        OBVIOUS
    <2>3. Len(results) = 1 /\ ~results[1].ok
        BY <2>2, UploadFailed
    <2>4. a = Answer("store", r, Unusable, throws, results)
        BY <2>1, <2>2 DEF UploadAnswer
    <2> QED
        BY <2>3, <2>4, AnswerIs
<1> DEFINE Good(v, throws) ==
               UploadAnswer(HttpResponse(Ok, ValueDoc(v)), Success(SameValue(v)), throws)
           Bad(r, throws) == UploadAnswer(r, Unusable, throws)
<1>3. a \in {Good(v, throws) : v \in Values, throws \in BOOLEAN}
            \cup {Bad(r, throws) : r \in FailedUploads, throws \in BOOLEAN}
    BY DEF UploadAnswers
<1> HIDE DEF Good, Bad
<1>4. \/ \E v \in Values : \E throws \in BOOLEAN : a = Good(v, throws)
      \/ \E r \in FailedUploads : \E throws \in BOOLEAN : a = Bad(r, throws)
    BY <1>3
<1> QED
    BY <1>1, <1>2, <1>4 DEF Good, Bad

\* The answers to downloads, each read as what it means.
LEMMA FetchAnswersFine ==
    ASSUME NEW a \in FetchAnswers
    PROVE  AnswerFine(a)
<1>1. CASE a = FetchAnswer(HttpResponse(Ok, <<1, 2>>), Success(<<"bytes", <<1, 2>>>>))
    <2>1. PICK r : r = HttpResponse(Ok, <<1, 2>>)
        OBVIOUS
    <2>2. r.error = FALSE /\ r.status = Ok /\ r.body = <<1, 2>>
        BY <2>1 DEF HttpResponse
    <2>3. IsSuccessful(r)
        BY <2>2, Statuses DEF IsSuccessful
    <2>4. PICK means : means = Success(<<"bytes", <<1, 2>>>>)
        OBVIOUS
    <2>5. PICK results : results = <<means>>
        OBVIOUS
    <2>6. FetchResults(r) = results
        BY <2>2, <2>3, <2>4, <2>5 DEF FetchResults
    <2>7. Len(results) = 1 /\ results[1] = means
        BY <2>5
    <2>8. means # Unusable
        BY <2>4, Troubles DEF Unusable
    <2>9. a = Answer("fetch", r, means, FALSE, results)
        BY <1>1, <2>1, <2>4, <2>6 DEF FetchAnswer
    <2> QED
        BY <2>7, <2>8, <2>9, AnswerIs
<1>2. CASE \E r \in {HttpResponse(NotFound, <<>>), NoResponse(<<>>)} :
             a = FetchAnswer(r, Unusable)
    <2>1. PICK r \in {HttpResponse(NotFound, <<>>), NoResponse(<<>>)} :
             a = FetchAnswer(r, Unusable)
        BY <1>2
    <2>2. ~IsSuccessful(r)
        BY <2>1, Statuses DEF IsSuccessful, HttpResponse, NoResponse
    <2>3. PICK results : results = FetchResults(r)
        OBVIOUS
    <2>4. results = <<Trouble("download failed")>>
        BY <2>2, <2>3 DEF FetchResults
    <2>5. Len(results) = 1 /\ ~results[1].ok
        BY <2>4, TroubleAlone
    <2>6. a = Answer("fetch", r, Unusable, FALSE, results)
        BY <2>1, <2>3 DEF FetchAnswer
    <2> QED
        BY <2>5, <2>6, AnswerIs
<1> QED
    BY <1>1, <1>2 DEF FetchAnswers

\* Every answer gives one result, the one it carries.
LEMMA AnswersFine ==
    ASSUME NEW a \in Answers
    PROVE  AnswerFine(a)
BY FunctionAnswersFine, UploadAnswersFine, FetchAnswersFine DEF Answers, Evaluated

-----------------------------------------------------------------------------
(* The wire and the assembler.                                             *)

\* What went over the wire last was understood.
LastFine ==
    \/ last = Nothing
    \/ FrameFine(last) /\ (last.damage = "malformed" => ~buffering)
    \/ \E m \in ClientMessages : last = Sent(m)
    \/ AnswerFine(last)

\* Whatever goes over the wire is fine, and does to the assembler what a step
\* of TransitionChunks does.
LEMMA WireStep ==
    ASSUME LastFine, [WireNext]_wireVars
    PROVE  LastFine' /\ [Next]_vars
<1>1. CASE \E f \in Frames : ReceiveFrame(f)
    <2>1. PICK f \in Frames : ReceiveFrame(f)
        BY <1>1
    <2>2. FrameFine(f) /\ last' = f
        BY <2>1, FramesFine DEF ReceiveFrame
    <2>3. CASE f.verdict = "ok" /\ f.got.type = "TransitionChunk"
        <3>1. PICK t \in Transitions : f.got.transition_id = <<t>>
                /\ f.got.part_number \in 0..MaxParts /\ f.got.total_parts \in 0..MaxParts
            BY <2>2, <2>3 DEF FrameFine
        <3> DEFINE c == [transition_id |-> f.got.transition_id[1],
                         part_number |-> f.got.part_number, total_parts |-> f.got.total_parts]
        <3>2. c \in Chunk
            BY <3>1 DEF Chunk
        <3>3. SendRogue(c)
            BY <2>1, <2>3 DEF ReceiveFrame
        <3> HIDE DEF c
        <3>4. Next
            BY <3>2, <3>3 DEF Next
        <3>5. f.damage # "malformed"
            BY <2>2, <2>3 DEF FrameFine
        <3> QED
            BY <2>2, <3>4, <3>5 DEF LastFine
    <2>4. CASE f.verdict = "ok" /\ f.got.type # "TransitionChunk"
        <3>1. \E kind \in {"ping", "other"} : ReceiveWhole(kind)
            BY <2>1, <2>4 DEF ReceiveFrame
        <3>2. Next
            BY <3>1 DEF Next
        <3>3. f.damage # "malformed"
            BY <2>2, <2>4 DEF FrameFine
        <3> QED
            BY <2>2, <3>2, <3>3 DEF LastFine
    <2>5. CASE f.verdict = "protocol_error"
        <3>1. Lose
            BY <2>1, <2>5 DEF ReceiveFrame
        <3>2. Next
            BY <3>1 DEF Next
        <3>3. total_parts' = 0
            BY <3>1 DEF Lose, Disconnect, Abandon
        <3>4. ~buffering'
            BY <3>3 DEF buffering
        <3> QED
            BY <2>2, <3>2, <3>4 DEF LastFine
    <2>6. CASE f.verdict = "codec_error"
        <3>1. UNCHANGED vars
            BY <2>1, <2>6 DEF ReceiveFrame
        <3>2. f.damage # "malformed"
            BY <2>2, <2>6 DEF FrameFine
        <3> QED
            BY <2>2, <3>1, <3>2 DEF LastFine
    <2> QED
        BY <2>1, <2>3, <2>4, <2>5, <2>6 DEF ReceiveFrame
<1>2. CASE ReceivePart
    BY <1>2 DEF ReceivePart, LastFine, Next
<1>3. CASE SendMessage
    BY <1>3 DEF SendMessage, LastFine
<1>4. CASE ReceiveAnswer
    <2>1. PICK a \in Answers : last' = a
        BY <1>4 DEF ReceiveAnswer
    <2>2. AnswerFine(a)
        BY <2>1, AnswersFine
    <2> QED
        BY <1>4, <2>1, <2>2 DEF ReceiveAnswer, LastFine
<1>5. CASE UNCHANGED wireVars
    BY <1>5 DEF wireVars, vars, assembler, LastFine, buffering
<1> QED
    BY <1>1, <1>2, <1>3, <1>4, <1>5 DEF WireNext

\* Whatever goes over the wire is understood, or refused as it deserves: the
\* inductive invariant that the other theorems follow from.
THEOREM EverythingUnderstood ==
    WireSpec => []LastFine
<1>1. WireInit => LastFine
    BY DEF WireInit, LastFine
<1>2. LastFine /\ [WireNext]_wireVars => LastFine'
    BY WireStep
<1> QED
    BY <1>1, <1>2, PTL DEF WireSpec

\* What is said is what is read, for any messages of the documented shape and
\* any values whose codec keeps them, and no two messages of the client look
\* the same (decode_server_message, encode_client_message).
THEOREM WhatIsSaidIsRead ==
    WireSpec => []SaidAndRead
<1>1. LastFine => SaidAndRead
    <2> SUFFICES ASSUME LastFine PROVE SaidAndRead
        OBVIOUS
    <2>1. CASE last = Nothing
        BY <2>1 DEF Nothing, SaidAndRead
    <2>2. CASE FrameFine(last)
        BY <2>2 DEF FrameFine, SaidAndRead
    <2>3. CASE \E m \in ClientMessages : last = Sent(m)
        <3>1. PICK m \in ClientMessages : last = Sent(m)
            BY <2>3
        <3>2. last.kind = "sent" /\ last.message = m /\ last.doc = encode_client_message(m)
            BY <3>1 DEF Sent
        <3>3. \A n \in ClientMessages : encode_client_message(n) = encode_client_message(m) => n = m
            BY MessagesApart, WireAssumption
        <3> QED
            BY <3>2, <3>3 DEF SaidAndRead
    <2>4. CASE AnswerFine(last)
        BY <2>4 DEF AnswerFine, SaidAndRead
    <2> QED
        BY <2>1, <2>2, <2>3, <2>4 DEF LastFine
<1> QED
    BY <1>1, EverythingUnderstood, PTL

\* A frame that is no message ends the connection, whatever message of the
\* server was damaged and in whichever member (decode_server_message,
\* ws_message).
THEOREM DamageEndsConnection ==
    WireSpec => []MalformedEndsConnection
<1>1. LastFine => MalformedEndsConnection
    <2> SUFFICES ASSUME LastFine, last.kind = "frame" PROVE MalformedEndsConnection
        BY DEF MalformedEndsConnection
    <2>1. FrameFine(last) /\ (last.damage = "malformed" => ~buffering)
        BY DEF LastFine, Nothing, Sent, AnswerFine
    <2> QED
        BY <2>1 DEF FrameFine, MalformedEndsConnection
<1> QED
    BY <1>1, EverythingUnderstood, PTL

\* Every HTTP response gives the caller one result, the one it carries if it
\* carries one (parse_function_response, store_file, fetch_file).
THEOREM EveryCallAnsweredOnce ==
    WireSpec => []OneHttpResult
<1>1. LastFine => OneHttpResult
    <2> SUFFICES ASSUME LastFine, last.kind = "http" PROVE OneHttpResult
        BY DEF OneHttpResult
    <2>1. AnswerFine(last)
        BY DEF LastFine, Nothing, Sent, FrameFine
    <2> QED
        BY <2>1 DEF AnswerFine, OneHttpResult
<1> QED
    BY <1>1, EverythingUnderstood, PTL

\* What frames do to the assembler is what TransitionChunks says of it, so what
\* is proved of it there holds of the frames that are decoded (ws_message).
THEOREM WireImplementsChunks ==
    WireSpec => Spec
<1>1. WireInit => Init
    BY DEF WireInit
<1>2. LastFine /\ [WireNext]_wireVars => [Next]_vars
    BY WireStep
<1> QED
    BY <1>1, <1>2, EverythingUnderstood, PTL DEF WireSpec, Spec

\* Frames are assembled to whole Transitions only, and a server that keeps to
\* the protocol is never refused, over the wire as in TransitionChunks.
THEOREM FramesAssembled == WireSpec => [](AssembledWhole /\ HonestNeverRefused)
    BY WireImplementsChunks, OnlyWholeTransitions, CorrectServerAccepted, PTL
=============================================================================
