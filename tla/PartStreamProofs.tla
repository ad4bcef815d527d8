--------------------------- MODULE PartStreamProofs ---------------------------
(***************************************************************************)
(* Theorems about PartStream, for every size of part, buffer and header and *)
(* every way the network cuts the stream into reads.                       *)
(***************************************************************************)
EXTENDS PartStream, TLAPS

\* Every read before the next header returned all it was asked for, except
\* those of blocks.
Aligned == "header" \notin short /\ "rest" \notin short

\* Where the receiver is in the stream.
PlaceOK ==
  /\ where = "header" => taken <= HeaderAt(slot)
  /\ where \in {"data", "spin"} =>
       /\ taken >= HeaderAt(slot) + TEXT
       /\ taken + left <= EndOf(slot)
  /\ where = "done" => slot = 2 /\ taken <= EndOf(2)
  /\ Aligned =>
       /\ where # "lost"
       /\ where = "header" => taken = HeaderAt(slot)
       /\ where \in {"data", "spin"} =>
            taken + left = EndOf(slot) /\ taken >= HeaderAt(slot) + HEADER

\* How much of the store of the part at hand is written.
StoreOK ==
  where \in {"data", "spin"} =>
    /\ receiver = "put" => length[slot] = offset
    /\ receiver = "get" => length[slot] = sizes[slot] /\ offset + left = sizes[slot]
    /\ short = {} => offset + left = sizes[slot]

\* Stores of parts that are still to come are empty.
LaterEmpty ==
  \A j \in Slots : (j > slot \/ (j = slot /\ where = "header")) => length[j] = 0

\* The reads so far leave the bytes stored where they belong.
Faithful == Aligned /\ (receiver = "get" \/ "block" \notin short)
BytesOK ==
  Faithful =>
    /\ where \in {"data", "spin"} =>
         \A i \in 0..(offset - 1) : bytes[slot][i] = <<slot, i>>
    /\ \A j \in Slots : Received(j) => Intact(j)

IInv == TypeOK /\ PlaceOK /\ StoreOK /\ LaterEmpty /\ InsideBuffer /\ BytesOK

LEMMA SlotFacts == Slots = {1, 2}
BY DEF Slots

LEMMA ConstantFacts ==
  /\ \A z \in Sizes : z \in Nat
  /\ MAXBUF \in Nat /\ MAXBUF > 0
  /\ HEADER \in Nat /\ TEXT \in Nat /\ 0 < TEXT /\ TEXT <= HEADER
BY SizesAssumption, LengthsAssumption

\* The positions of the stream.
LEMMA Positions ==
  ASSUME TypeOK
  PROVE  /\ sizes[1] \in Nat /\ sizes[2] \in Nat /\ sizes[slot] \in Nat
         /\ slot \in {1, 2} /\ length[slot] \in Nat
         /\ taken \in Nat /\ sent \in Nat /\ taken <= sent
         /\ HeaderAt(1) = 0 /\ HeaderAt(2) = EndOf(1)
         /\ EndOf(1) = HEADER + sizes[1]
         /\ EndOf(2) = HEADER + sizes[1] + HEADER + sizes[2]
         /\ HeaderAt(slot) \in Nat /\ EndOf(slot) \in Nat
         /\ EndOf(slot) = HeaderAt(slot) + HEADER + sizes[slot]
<1>1. slot \in {1, 2} /\ sizes \in [{1, 2} -> Sizes] /\ length \in [{1, 2} -> Nat]
  BY SlotFacts DEF TypeOK
<1>2. sizes[1] \in Nat /\ sizes[2] \in Nat /\ sizes[slot] \in Nat /\ length[slot] \in Nat
  BY <1>1, ConstantFacts
<1>3. taken \in Nat /\ sent \in Nat /\ taken <= sent
  BY DEF TypeOK
<1> QED
  BY <1>1, <1>2, <1>3, ConstantFacts DEF HeaderAt, EndOf

LEMMA InitIInv == Init => IInv
<1> SUFFICES ASSUME Init PROVE IInv
  OBVIOUS
<1>1. TypeOK
  <2>1. /\ receiver \in {"put", "get"} /\ sizes \in [Slots -> Sizes]
        /\ sent \in Nat /\ taken \in 0..sent /\ left \in Nat /\ offset \in Nat
    BY DEF Init
  <2>4. slot \in Slots /\ closed \in BOOLEAN
    BY SlotFacts, Zenon DEF Init
  <2>5. /\ where \in States /\ short \subseteq {"header", "block", "rest"}
        /\ length \in [Slots -> Nat]
    BY DEF Init, States
  <2>2. DOMAIN bytes = Slots
    BY DEF Init
  <2>3. ASSUME NEW j \in Slots PROVE DOMAIN bytes[j] = 0..(length[j] - 1) /\ DOMAIN bytes[j] = {}
    <3>1. bytes[j] = Fresh(0) /\ length[j] = 0
      BY DEF Init
    <3>2. DOMAIN Fresh(0) = 0..(0 - 1) /\ 0..(0 - 1) = {}
      BY DEF Fresh
    <3> QED
      BY <3>1, <3>2
  <2> QED
    BY <2>1, <2>2, <2>3, <2>4, <2>5 DEF TypeOK
<1>2. PlaceOK /\ StoreOK /\ LaterEmpty /\ InsideBuffer
  BY <1>1, SlotFacts, Positions, ConstantFacts
     DEF Init, PlaceOK, StoreOK, LaterEmpty, InsideBuffer, HeaderAt, Aligned, TypeOK
<1>3. BytesOK
  BY SlotFacts DEF Init, BytesOK, Received
<1> QED
  BY <1>1, <1>2, <1>3 DEF IInv

\* A read of the bytes of a part keeps what is stored of it in order.
LEMMA StoredTypes ==
  ASSUME TypeOK, NEW k \in Nat, NEW n \in 0..k, taken + n <= sent,
         offset <= length[slot]
  PROVE  /\ Larger(length[slot], offset + k) \in Nat
         /\ DOMAIN Stored(n, k) = 0..(Larger(length[slot], offset + k) - 1)
         /\ \A i \in DOMAIN Stored(n, k) : Stored(n, k)[i] \in Bytes
<1> DEFINE L == Larger(length[slot], offset + k)
<1>1. /\ L \in Nat /\ slot \in Slots /\ taken \in Nat /\ offset \in Nat
      /\ L = length[slot] \/ L = offset + k
      /\ sizes[1] \in Nat /\ sizes[2] \in Nat /\ length[slot] \in Nat
  BY Positions, SlotFacts DEF TypeOK, Larger
<1>2. \A i \in 0..(L - 1) : Stored(n, k)[i] \in Bytes
  <2> TAKE i \in 0..(L - 1)
  <2>1. CASE i \in offset..(offset + n - 1)
    <3>1. Stored(n, k)[i] = ByteAt(slot, taken + i - offset)
      BY <2>1, <1>1 DEF Stored
    <3>2. ByteAt(slot, taken + i - offset) \in Bytes
      BY <2>1, <1>1, Positions, SlotFacts, ConstantFacts DEF ByteAt, Bytes, Zero
    <3> QED
      BY <3>1, <3>2
  <2>2. CASE i \in (offset + n)..(offset + k - 1)
    <3>1. ~(i \in offset..(offset + n - 1))
      BY <2>2, <1>1
    <3>2. Stored(n, k)[i] = Zero
      BY <2>2, <3>1, <1>1 DEF Stored
    <3> QED
      BY <3>2 DEF Bytes
  <2>3. CASE i \notin offset..(offset + n - 1) /\ i \notin (offset + n)..(offset + k - 1)
    <3>1. Stored(n, k)[i] = bytes[slot][i]
      BY <2>3, <1>1 DEF Stored
    <3>2. i \in 0..(length[slot] - 1)
      BY <2>3, <1>1
    <3> QED
      BY <3>1, <3>2, <1>1 DEF TypeOK
  <2> QED
    BY <2>1, <2>2, <2>3
<1>3. DOMAIN Stored(n, k) = 0..(L - 1)
  BY DEF Stored
<1> QED
  BY <1>1, <1>2, <1>3

\* What a read of the bytes of a part does to the store of that part.
LEMMA StoreKeeps ==
  ASSUME IInv, where = "data", NEW k \in 1..left, NEW n \in 0..k, taken + n <= sent
  PROVE  LET L == Larger(length[slot], offset + k)
         IN  /\ L \in Nat
             /\ receiver = "put" => L = offset + k
             /\ receiver = "get" => L = length[slot] /\ offset + k <= sizes[slot]
             /\ DOMAIN Stored(n, k) = 0..(L - 1)
             /\ \A i \in DOMAIN Stored(n, k) : Stored(n, k)[i] \in Bytes
             /\ Faithful => \A i \in 0..(offset + n - 1) : Stored(n, k)[i] = <<slot, i>>
<1> DEFINE L == Larger(length[slot], offset + k)
<1>1. /\ left \in Nat /\ offset \in Nat /\ k \in Nat /\ n \in Nat /\ n <= k
      /\ k <= left /\ receiver \in {"put", "get"} /\ taken \in Nat /\ slot \in Slots
      /\ short \subseteq {"header", "block", "rest"}
  BY DEF IInv, TypeOK
<1>2. /\ sizes[slot] \in Nat /\ length[slot] \in Nat /\ HeaderAt(slot) \in Nat
      /\ EndOf(slot) = HeaderAt(slot) + HEADER + sizes[slot] /\ HEADER \in Nat
  BY Positions, ConstantFacts DEF IInv
<1>3. /\ receiver = "put" => length[slot] = offset
      /\ receiver = "get" => length[slot] = sizes[slot] /\ offset + left = sizes[slot]
      /\ short = {} => offset + left = sizes[slot]
  BY DEF IInv, StoreOK
<1>4. offset <= length[slot]
  BY <1>1, <1>2, <1>3
<1>5. /\ L \in Nat
      /\ DOMAIN Stored(n, k) = 0..(L - 1)
      /\ \A i \in DOMAIN Stored(n, k) : Stored(n, k)[i] \in Bytes
  BY <1>1, <1>4, StoredTypes DEF IInv
<1>6. /\ receiver = "put" => L = offset + k
      /\ receiver = "get" => L = length[slot] /\ offset + k <= sizes[slot]
  BY <1>1, <1>2, <1>3 DEF Larger
<1>7. ASSUME Faithful, NEW i \in 0..(offset + n - 1)
      PROVE  Stored(n, k)[i] = <<slot, i>>
  <2>1. i \in 0..(L - 1) /\ i \in Nat
    BY <1>1, <1>2, <1>3, <1>6
  <2>2. taken + left = EndOf(slot) /\ offset + left = sizes[slot]
    <3>1. taken + left = EndOf(slot)
      BY <1>7 DEF IInv, PlaceOK, Faithful
    <3>2. receiver = "put" => short = {}
      BY <1>1, <1>7 DEF Faithful, Aligned
    <3> QED
      BY <1>1, <1>3, <3>1, <3>2
  <2>3. CASE i \in offset..(offset + n - 1)
    <3>1. Stored(n, k)[i] = ByteAt(slot, taken + i - offset)
      BY <1>1, <2>1, <2>3 DEF Stored
    <3>2. /\ taken + i - offset >= HeaderAt(slot) + HEADER
          /\ taken + i - offset - HeaderAt(slot) - HEADER = i
      BY <1>1, <1>2, <2>1, <2>2, <2>3
    <3> QED
      BY <3>1, <3>2, <1>1, <1>2 DEF ByteAt
  <2>4. CASE i < offset
    <3>1. i \notin offset..(offset + n - 1) /\ i \notin (offset + n)..(offset + k - 1)
      BY <1>1, <2>1, <2>4
    <3>2. Stored(n, k)[i] = bytes[slot][i]
      BY <1>1, <2>1, <3>1 DEF Stored
    <3>3. i \in 0..(offset - 1)
      BY <1>1, <2>1, <2>4
    <3> QED
      BY <1>7, <3>2, <3>3 DEF IInv, BytesOK
  <2> QED
    BY <1>1, <2>1, <2>3, <2>4
<1> QED
  BY <1>5, <1>6, <1>7

\* What every step of the receiver has in common.
LEMMA ShortGrows ==
  ASSUME TypeOK, NEW kind \in {"header", "block", "rest"}, NEW k, NEW n,
         short' = Noting(kind, k, n), receiver' = receiver
  PROVE  /\ short' \subseteq {"header", "block", "rest"}
         /\ short \subseteq short'
         /\ Aligned' => Aligned
         /\ Faithful' => Faithful
         /\ kind # "block" /\ Aligned' => ~(n < k)
         /\ short' = {} => ~(n < k) /\ short = {}
BY DEF TypeOK, Noting, Aligned, Faithful

LEMMA WriteIInv == IInv /\ Write => IInv'
<1> SUFFICES ASSUME IInv, Write PROVE IInv'
  OBVIOUS
<1>1. sent' \in Nat /\ sent <= sent'
  <2> USE Positions, ConstantFacts DEF IInv
  <2>1. CASE sent < EndOf(1)
    BY <2>1 DEF Write, WrittenUpTo, Smaller
  <2>2. CASE ~(sent < EndOf(1))
    BY <2>2 DEF Write, WrittenUpTo, Smaller
  <2> QED
    BY <2>1, <2>2
<1>2. UNCHANGED <<receiver, sizes, closed, taken, where, slot, storeVars, short>>
  BY DEF Write
<1>3. TypeOK'
  BY <1>1, <1>2 DEF IInv, TypeOK, storeVars
<1> QED
  BY <1>2, <1>3 DEF IInv, PlaceOK, StoreOK, LaterEmpty, InsideBuffer, BytesOK, Faithful,
     Aligned, Received, Intact, HeaderAt, EndOf, storeVars

LEMMA HangUpIInv == IInv /\ HangUp => IInv'
<1> SUFFICES ASSUME IInv, HangUp PROVE IInv'
  OBVIOUS
<1>1. closed' \in BOOLEAN
  BY Zenon DEF HangUp
<1>2. UNCHANGED <<receiver, sizes, sent, taken, where, slot, storeVars, short>>
  BY DEF HangUp
<1>3. TypeOK'
  BY <1>1, <1>2 DEF IInv, TypeOK, storeVars
<1> QED
  BY <1>2, <1>3 DEF IInv, PlaceOK, StoreOK, LaterEmpty, InsideBuffer, BytesOK, Faithful,
     Aligned, Received, Intact, HeaderAt, EndOf, storeVars

LEMMA SpinIInv == IInv /\ Spin => IInv'
<1> SUFFICES ASSUME IInv, Spin PROVE IInv'
  OBVIOUS
<1>1. where = "data" /\ where' = "spin"
  BY DEF Spin
<1>2. UNCHANGED <<receiver, sizes, sent, closed, taken, slot, left, offset, length, bytes, short>>
  BY DEF Spin, streamVars, storeVars
<1>3. TypeOK'
  BY <1>1, <1>2 DEF IInv, TypeOK, States
<1> QED
  BY <1>1, <1>2, <1>3 DEF IInv, PlaceOK, StoreOK, LaterEmpty, InsideBuffer, BytesOK, Faithful,
     Aligned, Received, Intact, HeaderAt, EndOf

LEMMA EndPartIInv == IInv /\ EndPart => IInv'
<1> SUFFICES ASSUME IInv, EndPart PROVE IInv'
  OBVIOUS
<1>1. /\ where = "data" /\ left = 0
      /\ UNCHANGED <<receiver, sizes, sent, closed, taken, left, offset, length, bytes, short>>
  BY DEF EndPart, streamVars, storeVars
<1>2. \/ slot = 1 /\ slot' = 2 /\ where' = "header"
      \/ slot = 2 /\ slot' = 2 /\ where' = "done"
  BY SlotFacts DEF EndPart, NextSlot, IInv, TypeOK
<1>3. TypeOK'
  <2>1. slot' \in Slots /\ where' \in States
    BY <1>2, SlotFacts DEF States
  <2> QED
    BY <1>1, <2>1 DEF IInv, TypeOK
<1>4. UNCHANGED <<HeaderAt(1), HeaderAt(2), EndOf(1), EndOf(2)>>
  BY <1>1 DEF HeaderAt, EndOf
<1>5. PlaceOK'
  BY <1>1, <1>2, <1>4, Positions DEF IInv, PlaceOK, Aligned
<1>6. StoreOK' /\ LaterEmpty' /\ InsideBuffer'
  BY <1>1, <1>2, SlotFacts DEF IInv, StoreOK, LaterEmpty, InsideBuffer
<1>7. BytesOK'
  <2> SUFFICES ASSUME Faithful', NEW j \in Slots, Received(j)'
               PROVE  Intact(j)'
    BY <1>2 DEF BytesOK
  <2>1. Faithful
    BY <1>1 DEF Faithful, Aligned
  <2>2. CASE j = slot
    <3>1. offset = sizes[slot] /\ length[slot] = sizes[slot]
      <4>1. receiver = "put" => short = {}
        BY <2>1 DEF IInv, TypeOK, Faithful, Aligned
      <4> QED
        BY <1>1, <4>1, Positions DEF IInv, TypeOK, StoreOK
    <3>2. \A i \in 0..(sizes[slot] - 1) : bytes[slot][i] = <<slot, i>>
      BY <1>1, <2>1, <3>1 DEF IInv, BytesOK
    <3> QED
      BY <1>1, <2>2, <3>1, <3>2 DEF Intact
  <2>3. CASE j # slot
    <3>1. Received(j)
      BY <1>2, <2>3, SlotFacts DEF Received
    <3> QED
      BY <1>1, <2>1, <3>1 DEF IInv, BytesOK, Intact
  <2> QED
    BY <2>2, <2>3
<1> QED
  BY <1>3, <1>5, <1>6, <1>7 DEF IInv

LEMMA ReadHeaderIInv == ASSUME NEW n \in 0..HEADER PROVE IInv /\ ReadHeader(n) => IInv'
<1> SUFFICES ASSUME IInv, ReadHeader(n) PROVE IInv'
  OBVIOUS
<1>1. /\ where = "header" /\ taken' = taken + n /\ n <= HEADER /\ taken + n <= sent
      /\ short' = Noting("header", HEADER, n)
      /\ UNCHANGED <<receiver, sizes, sent, closed>> /\ n \in Nat /\ HEADER \in Nat
  BY Positions, ConstantFacts DEF ReadHeader, Reads, streamVars, IInv
<1>2. UNCHANGED <<HeaderAt(1), HeaderAt(2), EndOf(1), EndOf(2)>>
  BY <1>1 DEF HeaderAt, EndOf
<1>3. /\ short' \subseteq {"header", "block", "rest"} /\ short \subseteq short'
      /\ Aligned' => Aligned /\ ~(n < HEADER)
      /\ Faithful' => Faithful
      /\ short' = {} => ~(n < HEADER) /\ short = {}
  BY <1>1, ShortGrows DEF IInv
<1>4. CASE ~(taken = HeaderAt(slot) /\ n >= TEXT)
  <2>1. /\ where' = "lost" /\ UNCHANGED <<slot, left, offset, length, bytes>>
    BY <1>4 DEF ReadHeader, storeVars
  <2>2. ~Aligned'
    <3> SUFFICES ASSUME Aligned' PROVE FALSE
      OBVIOUS
    <3>1. taken = HeaderAt(slot) /\ n >= HEADER
      BY <1>1, <1>3 DEF IInv, PlaceOK
    <3> QED
      BY <1>1, <1>4, <3>1, ConstantFacts
  <2>3. TypeOK'
    <3>1. taken' \in 0..sent' /\ where' \in States
      BY <1>1, <2>1 DEF IInv, TypeOK, States
    <3> QED
      BY <1>1, <1>3, <2>1, <3>1 DEF IInv, TypeOK
  <2>4. PlaceOK' /\ StoreOK' /\ LaterEmpty' /\ InsideBuffer'
    BY <1>1, <2>1, <2>2 DEF IInv, PlaceOK, StoreOK, LaterEmpty, InsideBuffer
  <2>5. BytesOK'
    BY <2>1, <2>2 DEF BytesOK, Faithful
  <2> QED
    BY <2>3, <2>4, <2>5 DEF IInv
<1>5. CASE taken = HeaderAt(slot) /\ n >= TEXT
  <2>1. /\ left' = sizes[slot] /\ offset' = 0 /\ where' = "data" /\ slot' = slot
        /\ receiver = "put" => UNCHANGED <<length, bytes>>
        /\ receiver # "put" => /\ length' = [length EXCEPT ![slot] = sizes[slot]]
                               /\ bytes' = [bytes EXCEPT ![slot] = Fresh(sizes[slot])]
    BY <1>5 DEF ReadHeader, Announced
  <2>2. length[slot] = 0 /\ slot \in Slots
    BY <1>1 DEF IInv, LaterEmpty, TypeOK
  <2>3. TypeOK'
    <3>1. /\ taken' \in 0..sent' /\ where' \in States /\ left' \in Nat /\ offset' \in Nat
      BY <1>1, <2>1, Positions DEF IInv, TypeOK, States
    <3>2. CASE receiver = "put"
      BY <1>1, <1>3, <2>1, <3>1, <3>2 DEF IInv, TypeOK
    <3>3. CASE receiver # "put"
      <4>1. length' \in [Slots -> Nat] /\ DOMAIN bytes' = Slots
        BY <2>1, <3>3, Positions DEF IInv, TypeOK
      <4>2. ASSUME NEW j \in Slots
            PROVE  /\ DOMAIN bytes'[j] = 0..(length'[j] - 1)
                   /\ \A i \in DOMAIN bytes'[j] : bytes'[j][i] \in Bytes
        <5>1. CASE j = slot
          <6>1. bytes'[j] = Fresh(sizes[slot]) /\ length'[j] = sizes[slot]
            BY <2>1, <3>3, <5>1 DEF IInv, TypeOK
          <6> QED
            BY <6>1 DEF Fresh, Bytes
        <5>2. CASE j # slot
          BY <2>1, <3>3, <5>2 DEF IInv, TypeOK
        <5> QED
          BY <5>1, <5>2
      <4> QED
        BY <1>1, <1>3, <2>1, <2>2, <3>1, <4>1, <4>2 DEF IInv, TypeOK
    <3> QED
      BY <3>2, <3>3
  <2>4. PlaceOK'
    BY <1>1, <1>2, <1>3, <1>5, <2>1, Positions, ConstantFacts DEF IInv, PlaceOK
  <2>5. receiver # "put" => \A j \in Slots : length'[j] = IF j = slot THEN sizes[slot] ELSE length[j]
    BY <2>1 DEF IInv, TypeOK
  <2>6. StoreOK' /\ LaterEmpty' /\ InsideBuffer'
    BY <1>1, <2>1, <2>2, <2>5, Positions DEF IInv, StoreOK, LaterEmpty, InsideBuffer
  <2>7. BytesOK'
    <3> SUFFICES ASSUME Faithful', NEW j \in Slots, Received(j)'
                 PROVE  Intact(j)'
      BY <2>1 DEF BytesOK
    <3>1. Received(j) /\ j # slot
      BY <2>1, SlotFacts DEF Received, IInv, TypeOK
    <3>2. bytes'[j] = bytes[j] /\ length'[j] = length[j]
      BY <2>1, <3>1 DEF IInv, TypeOK
    <3> QED
      BY <1>1, <1>3, <3>1, <3>2 DEF IInv, BytesOK, Intact
  <2> QED
    BY <2>3, <2>4, <2>6, <2>7 DEF IInv
<1> QED
  BY <1>4, <1>5

\* A read of bytes of a part, whatever bytes_left and the offset become.
LEMMA StoreStep ==
  ASSUME IInv, where = "data", NEW k \in 1..left, NEW n \in 0..k, taken + n <= sent,
         NEW kind \in {"header", "block", "rest"}, short' = Noting(kind, k, n),
         taken' = taken + n, Store(n, k), UNCHANGED streamVars,
         where' = where, slot' = slot, left' \in Nat, offset' \in Nat,
         taken' + left' <= EndOf(slot),
         Aligned' => taken' + left' = EndOf(slot),
         offset' <= offset + k,
         receiver = "put" => offset' = offset + k,
         receiver = "get" => offset' + left' = sizes[slot],
         short' = {} => offset' + left' = sizes[slot],
         Faithful' => offset' <= offset + n
  PROVE  IInv'
<1> DEFINE L == Larger(length[slot], offset + k)
<1>1. /\ L \in Nat
      /\ receiver = "put" => L = offset + k
      /\ receiver = "get" => L = length[slot]
      /\ DOMAIN Stored(n, k) = 0..(L - 1)
      /\ \A i \in DOMAIN Stored(n, k) : Stored(n, k)[i] \in Bytes
      /\ Faithful => \A i \in 0..(offset + n - 1) : Stored(n, k)[i] = <<slot, i>>
  BY StoreKeeps
<1>2. /\ length' = [length EXCEPT ![slot] = L]
      /\ bytes' = [bytes EXCEPT ![slot] = Stored(n, k)]
      /\ slot \in Slots /\ length \in [Slots -> Nat] /\ DOMAIN bytes = Slots
  BY DEF Store, IInv, TypeOK
<1> HIDE DEF L
<1>3. /\ length'[slot] = L /\ bytes'[slot] = Stored(n, k)
      /\ \A j \in Slots \ {slot} : length'[j] = length[j] /\ bytes'[j] = bytes[j]
      /\ length' \in [Slots -> Nat] /\ DOMAIN bytes' = Slots
  BY <1>1, <1>2
<1>4. /\ short' \subseteq {"header", "block", "rest"} /\ short \subseteq short'
      /\ Aligned' => Aligned
      /\ Faithful' => Faithful
  BY ShortGrows DEF IInv, streamVars
<1>5. /\ UNCHANGED <<receiver, sizes, sent, closed>>
      /\ UNCHANGED <<HeaderAt(1), HeaderAt(2), EndOf(1), EndOf(2)>>
  BY DEF streamVars, HeaderAt, EndOf
<1>6. TypeOK'
  <2>1. taken' \in 0..sent'
    BY <1>5 DEF IInv, TypeOK
  <2>2. \A j \in Slots : /\ DOMAIN bytes'[j] = 0..(length'[j] - 1)
                         /\ \A i \in DOMAIN bytes'[j] : bytes'[j][i] \in Bytes
    BY <1>1, <1>3 DEF IInv, TypeOK
  <2> QED
    BY <1>3, <1>4, <1>5, <2>1, <2>2 DEF IInv, TypeOK
<1>7. PlaceOK'
  <2>1. slot' \in {1, 2} /\ n \in Nat
    BY Positions DEF IInv, TypeOK
  <2> QED
    BY <1>4, <1>5, <2>1, Positions, ConstantFacts DEF IInv, PlaceOK
<1>8. StoreOK' /\ LaterEmpty' /\ InsideBuffer'
  <2>1. receiver \in {"put", "get"} /\ slot \in Slots /\ slot' = slot
    BY DEF IInv, TypeOK
  <2>2. StoreOK'
    BY <1>1, <1>3, <1>5, <2>1 DEF IInv, StoreOK
  <2>3. LaterEmpty'
    <3> SUFFICES ASSUME NEW j \in Slots, j > slot PROVE length'[j] = 0
      BY <2>1 DEF LaterEmpty
    <3>1. j # slot
      BY SlotFacts, <2>1
    <3> QED
      BY <1>3, <3>1 DEF IInv, LaterEmpty
  <2>4. InsideBuffer'
    BY <1>1, <1>3, <1>5, <2>1 DEF IInv, InsideBuffer
  <2> QED
    BY <2>2, <2>3, <2>4
<1>9. BytesOK'
  <2> SUFFICES ASSUME Faithful'
               PROVE  /\ \A i \in 0..(offset' - 1) : bytes'[slot][i] = <<slot, i>>
                      /\ \A j \in Slots : Received(j)' => Intact(j)'
    BY DEF BytesOK
  <2>1. ASSUME NEW i \in 0..(offset' - 1) PROVE bytes'[slot][i] = <<slot, i>>
    <3>1. i \in 0..(offset + n - 1)
      BY DEF IInv, TypeOK
    <3> QED
      BY <1>1, <1>3, <1>4, <3>1
  <2>2. ASSUME NEW j \in Slots, Received(j)' PROVE Intact(j)'
    <3>1. Received(j) /\ j # slot
      BY <2>2, SlotFacts DEF Received, IInv, TypeOK
    <3> QED
      BY <1>3, <1>4, <1>5, <3>1 DEF IInv, BytesOK, Intact
  <2> QED
    BY <2>1, <2>2
<1> QED
  BY <1>6, <1>7, <1>8, <1>9 DEF IInv

LEMMA ReadBlockIInv == ASSUME NEW n \in 1..MAXBUF PROVE IInv /\ ReadBlock(n) => IInv'
<1> SUFFICES ASSUME IInv, ReadBlock(n) PROVE IInv'
  OBVIOUS
<1>1. /\ where = "data" /\ left > MAXBUF /\ taken + n <= sent /\ n \in 0..MAXBUF
      /\ MAXBUF \in 1..left /\ left \in Nat /\ offset \in Nat /\ n \in Nat /\ MAXBUF \in Nat
      /\ n <= MAXBUF /\ receiver \in {"put", "get"} /\ taken \in Nat
  BY ConstantFacts DEF ReadBlock, Reads, IInv, TypeOK
<1>2. /\ short' = Noting("block", MAXBUF, n) /\ taken' = taken + n /\ Store(n, MAXBUF)
      /\ UNCHANGED streamVars /\ where' = where /\ slot' = slot
      /\ left' = left - n
      /\ receiver = "put" => offset' = offset + MAXBUF
      /\ receiver = "get" => offset' = offset + n
  BY DEF ReadBlock, Remaining, Advanced
<1>3. /\ Aligned' => Aligned
      /\ short' = {} => ~(n < MAXBUF) /\ short = {}
  BY <1>2, ShortGrows DEF IInv, streamVars
<1>4. left' \in Nat /\ offset' \in Nat /\ offset' <= offset + MAXBUF
  BY <1>1, <1>2
<1>5. /\ taken' + left' = taken + left
      /\ taken + left <= EndOf(slot)
      /\ Aligned => taken + left = EndOf(slot)
  BY <1>1, <1>2 DEF IInv, PlaceOK
<1>6. /\ receiver = "get" => offset' + left' = sizes[slot]
      /\ short' = {} => offset' + left' = sizes[slot]
  <2>1. /\ receiver = "get" => offset + left = sizes[slot]
        /\ short = {} => offset + left = sizes[slot]
    BY <1>1 DEF IInv, StoreOK
  <2> QED
    BY <1>1, <1>2, <1>3, <2>1
<1>7. Faithful' => offset' <= offset + n
  <2> SUFFICES ASSUME Faithful', receiver = "put" PROVE offset' <= offset + n
    BY <1>1, <1>2
  <2>1. "block" \notin short'
    BY <1>2 DEF Faithful, streamVars
  <2>2. ~(n < MAXBUF)
    BY <1>2, <2>1 DEF Noting
  <2> QED
    BY <1>1, <1>2, <2>2
<1>8. IInv /\ where = "data" /\ "block" \in {"header", "block", "rest"}
  BY <1>1
<1> QED
  BY <1>1, <1>2, <1>3, <1>4, <1>5, <1>6, <1>7, <1>8, StoreStep

LEMMA ReadRestIInv == ASSUME NEW n \in 0..MAXBUF PROVE IInv /\ ReadRest(n) => IInv'
<1> SUFFICES ASSUME IInv, ReadRest(n) PROVE IInv'
  OBVIOUS
<1>1. /\ where = "data" /\ left \in 1..left /\ taken + n <= sent /\ n \in 0..left
      /\ left \in Nat /\ offset \in Nat /\ n \in Nat /\ n <= left /\ taken \in Nat
      /\ receiver \in {"put", "get"}
  BY ConstantFacts DEF ReadRest, Reads, IInv, TypeOK
<1>2. /\ short' = Noting("rest", left, n) /\ taken' = taken + n /\ Store(n, left)
      /\ UNCHANGED streamVars /\ where' = where /\ slot' = slot
      /\ left' = 0 /\ offset' = offset + left
  BY DEF ReadRest
<1>3. /\ Aligned' => Aligned /\ ~(n < left)
      /\ short' = {} => ~(n < left) /\ short = {}
  BY <1>2, ShortGrows DEF IInv, streamVars
<1>4. left' \in Nat /\ offset' \in Nat /\ offset' <= offset + left
  BY <1>1, <1>2
<1>5. /\ taken' + left' <= taken + left
      /\ taken + left <= EndOf(slot)
      /\ Aligned => taken + left = EndOf(slot)
      /\ ~(n < left) => taken' + left' = taken + left
      /\ EndOf(slot) \in Nat
  BY <1>1, <1>2, Positions DEF IInv, PlaceOK
<1>6. /\ receiver = "get" => offset' + left' = sizes[slot]
      /\ short' = {} => offset' + left' = sizes[slot]
  BY <1>1, <1>2, <1>3 DEF IInv, StoreOK
<1>7. Faithful' => offset' <= offset + n
  BY <1>1, <1>2, <1>3 DEF Faithful
<1>8. /\ taken' + left' <= EndOf(slot)
      /\ Aligned' => taken' + left' = EndOf(slot)
  BY <1>1, <1>2, <1>3, <1>5
<1>9. "rest" \in {"header", "block", "rest"}
  OBVIOUS
<1> QED
  BY <1>1, <1>2, <1>4, <1>6, <1>7, <1>8, <1>9, StoreStep

-----------------------------------------------------------------------------
LEMMA NextIInv == IInv /\ [Next]_vars => IInv'
<1> SUFFICES ASSUME IInv, [Next]_vars PROVE IInv'
  OBVIOUS
<1>1. CASE Write
  BY <1>1, WriteIInv
<1>2. CASE HangUp
  BY <1>2, HangUpIInv
<1>3. CASE \E n \in 0..HEADER : ReadHeader(n)
  BY <1>3, ReadHeaderIInv
<1>4. CASE \E n \in 1..MAXBUF : ReadBlock(n)
  BY <1>4, ReadBlockIInv
<1>5. CASE \E n \in 0..MAXBUF : ReadRest(n)
  BY <1>5, ReadRestIInv
<1>6. CASE Spin
  BY <1>6, SpinIInv
<1>7. CASE EndPart
  BY <1>7, EndPartIInv
<1>8. CASE UNCHANGED vars
  <2>1. UNCHANGED <<receiver, sizes, sent, closed, taken, where, slot, left, offset, length,
                    bytes, short>>
    BY <1>8 DEF vars, streamVars, storeVars
  <2> QED
    BY <2>1 DEF IInv, TypeOK, PlaceOK, StoreOK, LaterEmpty, InsideBuffer, BytesOK, Faithful,
       Aligned, Received, Intact, HeaderAt, EndOf
<1> QED
  BY <1>1, <1>2, <1>3, <1>4, <1>5, <1>6, <1>7, <1>8 DEF Next, Receive

LEMMA Invariance == Spec => []IInv
BY InitIInv, NextIInv, PTL DEF Spec

\* The variables of PartStream keep their types (DFS_server.c:126-145).
THEOREM TypeCorrect == Spec => []TypeOK
<1>1. IInv => TypeOK
  BY DEF IInv
<1> QED
  BY <1>1, Invariance, PTL

\* What has been read was written before, and nothing is written after the
\* bytes of the second part.
Bounded == taken <= sent /\ sent <= EndOf(2)

\* A write ends where the part it belongs to ends, or before (DFS_client.c:265-283).
LEMMA WritesEndWithTheParts ==
  IInv /\ sent <= EndOf(2) /\ [Next]_vars => (sent <= EndOf(2))'
<1> SUFFICES ASSUME IInv, sent <= EndOf(2), [Next]_vars PROVE sent' <= EndOf(2)'
  OBVIOUS
<1>1. TypeOK
  BY DEF IInv
<1>2. sizes' = sizes
  BY DEF Next, Write, HangUp, Receive, ReadHeader, ReadBlock, ReadRest, Spin, EndPart, vars, streamVars
<1>3. EndOf(2)' = EndOf(2)
  BY <1>2 DEF EndOf, HeaderAt
<1>4. CASE Write
  <2>1. sent < EndOf(2) /\ sent' = WrittenUpTo
    BY <1>4 DEF Write
  <2>2. WrittenUpTo <= EndOf(2)
    BY <1>1, <2>1, Positions, ConstantFacts DEF WrittenUpTo, Smaller
  <2> QED
    BY <1>3, <2>1, <2>2
<1>5. CASE ~Write
  <2>1. sent' = sent
    BY <1>5 DEF Next, HangUp, Receive, ReadHeader, ReadBlock, ReadRest, Spin, EndPart, vars, streamVars
  <2> QED
    BY <1>3, <2>1
<1> QED
  BY <1>4, <1>5

(***************************************************************************)
(* The receiver has read no more than was written, the sender has written  *)
(* no more than the parts, and a receiver that has not lost its place has  *)
(* taken no byte behind the part it is at (DFS_server.c:272-279).          *)
(***************************************************************************)
THEOREM ReadsStayBehind == Spec => [](Bounded /\ NeverAhead)
<1>1. IInv => NeverAhead
  BY Positions, ConstantFacts DEF IInv, TypeOK, States, PlaceOK, NeverAhead
<1>2. Init => sent <= EndOf(2)
  <2> SUFFICES ASSUME Init PROVE sent <= EndOf(2)
    OBVIOUS
  <2>1. sent = 0 /\ TypeOK
    BY InitIInv DEF Init, IInv
  <2> QED
    BY <2>1, Positions, ConstantFacts
<1>3. Spec => [](sent <= EndOf(2))
  BY <1>2, Invariance, WritesEndWithTheParts, PTL DEF Spec
<1>4. IInv /\ sent <= EndOf(2) => Bounded
  BY DEF IInv, TypeOK, Bounded
<1> QED
  BY <1>1, <1>3, <1>4, Invariance, PTL

(***************************************************************************)
(* The receiver understands every header up to the first short read of a   *)
(* header or of the rest of a part (DFS_server.c:256-259).                  *)
(***************************************************************************)
THEOREM StaysInStep == Spec => []LostOnlyAfterShortRead
<1>1. IInv => LostOnlyAfterShortRead
  BY DEF IInv, PlaceOK, Aligned, LostOnlyAfterShortRead
<1> QED
  BY <1>1, Invariance, PTL

(***************************************************************************)
(* One read may stand for one write as long as reads are full: the parts   *)
(* are stored as they were sent (DFS_server.c:271-283).                     *)
(***************************************************************************)
THEOREM FullReadsSuffice == Spec => []FullReadsStoreParts
<1>1. IInv => FullReadsStoreParts
  BY DEF IInv, BytesOK, Faithful, Aligned, FullReadsStoreParts
<1> QED
  BY <1>1, Invariance, PTL

(***************************************************************************)
(* The client's loop stores the parts as they were sent also when blocks   *)
(* come in pieces (DFS_client.c:434-439).                                  *)
(***************************************************************************)
THEOREM ClientTakesPieces == Spec => []ClientMendsShortBlocks
<1>1. IInv => ClientMendsShortBlocks
  BY DEF IInv, BytesOK, Faithful, Aligned, ClientMendsShortBlocks
<1> QED
  BY <1>1, Invariance, PTL

(***************************************************************************)
(* Although the client copies a whole buffer for every read, it stays in   *)
(* the memory it has allocated for the part (DFS_client.c:428-443).         *)
(***************************************************************************)
THEOREM CopiesStayInside == Spec => []InsideBuffer
<1>1. IInv => InsideBuffer
  BY DEF IInv
<1> QED
  BY <1>1, Invariance, PTL

-----------------------------------------------------------------------------
(***************************************************************************)
(* What the server stores when blocks come in pieces: after the first m    *)
(* bytes of part j its file f, of l bytes, holds those bytes in their order *)
(* and zeros in between.                                                   *)
(***************************************************************************)
Pads(f, l, j, m) ==
  /\ l >= m
  /\ \A a \in 0..(l - 1) : f[a] = Zero \/ \E i \in 0..(m - 1) : f[a] = <<j, i>>
  /\ \A a, b \in 0..(l - 1) : a < b /\ f[a] # Zero /\ f[b] # Zero => f[a][2] < f[b][2]
  /\ \A i \in 0..(m - 1) : \E a \in 0..(l - 1) : f[a] = <<j, i>>

PadInv ==
  /\ IInv
  /\ receiver = "put" /\ Aligned =>
       /\ where \in {"data", "spin"} =>
            Pads(bytes[slot], length[slot], slot, sizes[slot] - left)
       /\ \A j \in Slots : Received(j) => Pads(bytes[j], length[j], j, sizes[j])

\* A buffer of k bytes, the first n of them read, is put behind such a file.
LEMMA PadsGrow ==
  ASSUME NEW j \in Slots, NEW l \in Nat, NEW m \in Nat, NEW k \in Nat, NEW n \in 0..k,
         NEW f, NEW g, Pads(f, l, j, m),
         \A i \in 0..(l - 1) : g[i] = f[i],
         \A i \in l..(l + n - 1) : g[i] = <<j, m + i - l>>,
         \A i \in (l + n)..(l + k - 1) : g[i] = Zero
  PROVE  Pads(g, l + k, j, m + n)
<1>1. l >= m /\ n \in Nat /\ n <= k /\ \A i \in Nat : <<j, i>> # Zero
  BY SlotFacts DEF Pads, Zero
<1>2. \A a \in 0..(l + k - 1) :
        \/ a \in 0..(l - 1) /\ g[a] = f[a]
        \/ a \in l..(l + n - 1) /\ g[a] = <<j, m + a - l>> /\ m + a - l \in m..(m + n - 1)
        \/ a \in (l + n)..(l + k - 1) /\ g[a] = Zero
  BY <1>1
<1>3. ASSUME NEW a \in 0..(l + k - 1)
      PROVE  g[a] = Zero \/ \E i \in 0..(m + n - 1) : g[a] = <<j, i>>
  <2>1. CASE a \in 0..(l - 1) /\ g[a] = f[a]
    <3>1. f[a] = Zero \/ \E i \in 0..(m - 1) : f[a] = <<j, i>>
      BY <2>1 DEF Pads
    <3>2. QED
      BY <1>1, <2>1, <3>1
  <2>2. CASE g[a] = <<j, m + a - l>> /\ m + a - l \in m..(m + n - 1)
    BY <1>1, <2>2
  <2>3. QED
    BY <1>2, <2>1, <2>2
<1>4. ASSUME NEW a \in 0..(l + k - 1), NEW b \in 0..(l + k - 1),
             a < b, g[a] # Zero, g[b] # Zero
      PROVE  g[a][2] < g[b][2]
  <2>1. CASE b \in 0..(l - 1)
    <3>1. a \in 0..(l - 1) /\ g[a] = f[a] /\ g[b] = f[b]
      BY <1>4, <2>1
    <3>2. QED
      BY <1>4, <2>1, <3>1 DEF Pads
  <2>2. CASE b \in l..(l + n - 1) /\ a \in 0..(l - 1)
    <3>1. PICK i \in 0..(m - 1) : f[a] = <<j, i>>
      BY <1>4, <2>2 DEF Pads
    <3>2. g[a][2] = i /\ g[b][2] = m + b - l
      BY <2>2, <3>1
    <3>3. QED
      BY <2>2, <3>2
  <2>3. CASE b \in l..(l + n - 1) /\ a \in l..(l + n - 1)
    BY <1>4, <2>3
  <2>4. QED
    BY <1>1, <1>2, <1>4, <2>1, <2>2, <2>3
<1>5. ASSUME NEW i \in 0..(m + n - 1)
      PROVE  \E a \in 0..(l + k - 1) : g[a] = <<j, i>>
  <2>1. CASE i \in 0..(m - 1)
    <3>1. PICK a \in 0..(l - 1) : f[a] = <<j, i>>
      BY <2>1 DEF Pads
    <3>2. a \in 0..(l + k - 1) /\ g[a] = <<j, i>>
      BY <3>1
    <3>3. QED
      BY <3>2
  <2>2. CASE i \notin 0..(m - 1)
    <3> DEFINE a == l + i - m
    <3>1. a \in l..(l + n - 1) /\ a \in 0..(l + k - 1) /\ m + a - l = i
      BY <1>1, <2>2
    <3>2. g[a] = <<j, i>>
      BY <3>1
    <3>3. QED
      BY <3>1, <3>2
  <2>3. QED
    BY <2>1, <2>2
<1>6. l + k >= m + n
  BY <1>1
<1>7. \A a, b \in 0..(l + k - 1) : a < b /\ g[a] # Zero /\ g[b] # Zero => g[a][2] < g[b][2]
  BY <1>4
<1>8. \A a \in 0..(l + k - 1) : g[a] = Zero \/ \E i \in 0..(m + n - 1) : g[a] = <<j, i>>
  BY <1>3
<1> DEFINE t == l + k
           u == m + n
<1> HIDE DEF t, u
<1>t. t = l + k /\ u = m + n
  BY DEF t, u
<1>10. /\ t >= u
       /\ \A a \in 0..(t - 1) : g[a] = Zero \/ \E i \in 0..(u - 1) : g[a] = <<j, i>>
       /\ \A a, b \in 0..(t - 1) : a < b /\ g[a] # Zero /\ g[b] # Zero => g[a][2] < g[b][2]
       /\ \A i \in 0..(u - 1) : \E a \in 0..(t - 1) : g[a] = <<j, i>>
  <2>1. t >= u
    BY <1>6, <1>t
  <2>2. \A a \in 0..(t - 1) : g[a] = Zero \/ \E i \in 0..(u - 1) : g[a] = <<j, i>>
    BY <1>8, <1>t
  <2>3. \A a, b \in 0..(t - 1) : a < b /\ g[a] # Zero /\ g[b] # Zero => g[a][2] < g[b][2]
    BY <1>7, <1>t
  <2>4. \A i \in 0..(u - 1) : \E a \in 0..(t - 1) : g[a] = <<j, i>>
    <3> SUFFICES ASSUME NEW i \in 0..(u - 1) PROVE \E a \in 0..(t - 1) : g[a] = <<j, i>>
      OBVIOUS
    <3>1. i \in 0..(m + n - 1)
      BY <1>t
    <3>2. PICK a \in 0..(l + k - 1) : g[a] = <<j, i>>
      BY <1>5, <3>1
    <3>3. a \in 0..(t - 1)
      BY <1>t
    <3>4. QED
      BY <3>2, <3>3
  <2>5. QED
    BY <2>1, <2>2, <2>3, <2>4
<1>11. Pads(g, t, j, u)
  BY <1>10 DEF Pads
<1>12. QED
  BY <1>11 DEF t, u

\* One read of bytes by the server, nothing but blocks having been short.
LEMMA PadsStore ==
  ASSUME PadInv, receiver = "put", Aligned, where = "data", slot' = slot, where' = where,
         NEW k \in 1..left, NEW n \in 0..k, Store(n, k), UNCHANGED streamVars,
         left' = left - n
  PROVE  /\ Pads(bytes'[slot], length'[slot], slot, sizes[slot] - left')
         /\ \A j \in Slots : Received(j)' => Pads(bytes'[j], length'[j], j, sizes[j])
<1> DEFINE l == length[slot]
           m == sizes[slot] - left
           g == Stored(n, k)
<1>1. /\ slot \in Slots /\ l \in Nat /\ l = offset /\ sizes[slot] \in Nat /\ left \in Nat
      /\ taken \in Nat /\ HeaderAt(slot) \in Nat /\ HEADER \in Nat
      /\ taken + left = HeaderAt(slot) + HEADER + sizes[slot]
      /\ taken >= HeaderAt(slot) + HEADER /\ k \in Nat /\ n \in Nat /\ n <= k
      /\ length \in [Slots -> Nat] /\ DOMAIN bytes = Slots
  BY Positions, ConstantFacts DEF PadInv, IInv, TypeOK, PlaceOK, StoreOK
<1>2. m \in Nat /\ m + n = sizes[slot] - left'
  BY <1>1
<1>3. Pads(bytes[slot], l, slot, m)
  BY <1>1 DEF PadInv
<1>4. Larger(l, offset + k) = l + k
  BY <1>1 DEF Larger
<1> DEFINE L == Larger(length[slot], offset + k)
<1>d. /\ L = l + k
      /\ \A i \in 0..(L - 1) :
           /\ i \in offset..(offset + n - 1) => g[i] = ByteAt(slot, taken + i - offset)
           /\ i \in (offset + n)..(offset + k - 1) => g[i] = Zero
           /\ i < offset => g[i] = bytes[slot][i]
  <2>1. ASSUME NEW i \in 0..(L - 1), i \in offset..(offset + n - 1)
        PROVE  g[i] = ByteAt(slot, taken + i - offset)
    BY <1>1, <2>1 DEF Stored
  <2>2. ASSUME NEW i \in 0..(L - 1), i \in (offset + n)..(offset + k - 1) PROVE g[i] = Zero
    <3>1. i \notin offset..(offset + n - 1)
      BY <1>1, <2>2
    <3>2. QED
      BY <2>2, <3>1 DEF Stored
  <2>3. ASSUME NEW i \in 0..(L - 1), i < offset PROVE g[i] = bytes[slot][i]
    <3>1. i \notin offset..(offset + n - 1) /\ i \notin (offset + n)..(offset + k - 1)
      BY <1>1, <2>3
    <3>2. QED
      BY <3>1 DEF Stored
  <2>4. QED
    BY <1>4, <2>1, <2>2, <2>3
<1> HIDE DEF g, L
<1>5. /\ \A i \in 0..(l - 1) : g[i] = bytes[slot][i]
      /\ \A i \in l..(l + n - 1) : g[i] = <<slot, m + i - l>>
      /\ \A i \in (l + n)..(l + k - 1) : g[i] = Zero
  <2>1. ASSUME NEW i \in 0..(l - 1) PROVE g[i] = bytes[slot][i]
    <3>1. i \in 0..(L - 1) /\ i < offset
      BY <1>1, <1>d
    <3>2. QED
      BY <1>d, <3>1
  <2>2. ASSUME NEW i \in l..(l + n - 1) PROVE g[i] = <<slot, m + i - l>>
    <3>1. i \in 0..(L - 1) /\ i \in offset..(offset + n - 1)
      BY <1>1, <1>d
    <3>2. g[i] = ByteAt(slot, taken + i - offset)
      BY <1>d, <3>1
    <3>3. /\ taken + i - offset >= HeaderAt(slot) + HEADER
          /\ taken + i - offset - HeaderAt(slot) - HEADER = m + i - l
      BY <1>1
    <3>4. QED
      BY <1>1, <3>2, <3>3 DEF ByteAt
  <2>3. ASSUME NEW i \in (l + n)..(l + k - 1) PROVE g[i] = Zero
    <3>1. i \in 0..(L - 1) /\ i \in (offset + n)..(offset + k - 1)
      BY <1>1, <1>d
    <3>2. QED
      BY <1>d, <3>1
  <2>4. QED
    BY <2>1, <2>2, <2>3
<1>6. /\ length'[slot] = l + k /\ bytes'[slot] = g
      /\ \A j \in Slots \ {slot} : length'[j] = length[j] /\ bytes'[j] = bytes[j]
  BY <1>1, <1>d DEF Store, g, L
<1> HIDE DEF l, m
<1>7. Pads(bytes'[slot], length'[slot], slot, sizes[slot] - left')
  <2>1. Pads(g, l + k, slot, m + n)
    BY <1>1, <1>2, <1>3, <1>5, PadsGrow
  <2>2. QED
    BY <1>2, <1>6, <2>1
<1>8. ASSUME NEW j \in Slots, Received(j)' PROVE Pads(bytes'[j], length'[j], j, sizes[j])
  <2>1. Received(j) /\ j # slot
    BY <1>1, <1>8, SlotFacts DEF Received
  <2>2. QED
    BY <1>6, <2>1 DEF PadInv
<1>9. QED
  BY <1>7, <1>8

LEMMA NextPadInv == PadInv /\ [Next]_vars => PadInv'
<1> SUFFICES ASSUME PadInv, [Next]_vars PROVE PadInv'
  OBVIOUS
<1>1. IInv /\ IInv'
  BY NextIInv DEF PadInv
<1> SUFFICES ASSUME receiver' = "put", Aligned'
             PROVE  /\ where' \in {"data", "spin"} =>
                         Pads(bytes'[slot'], length'[slot'], slot', sizes'[slot'] - left')
                    /\ \A j \in Slots : Received(j)' => Pads(bytes'[j], length'[j], j, sizes'[j])
  BY <1>1 DEF PadInv
<1>2. CASE Write \/ HangUp \/ Spin \/ UNCHANGED vars
  <2>1. /\ UNCHANGED <<receiver, sizes, slot, left, length, bytes, short>>
        /\ where' = where \/ (where = "data" /\ where' = "spin")
    <3>1. CASE Write \/ HangUp \/ UNCHANGED vars
      <4>1. UNCHANGED <<receiver, sizes, slot, storeVars, short, where>>
        BY <3>1 DEF Write, HangUp, vars, streamVars
      <4>2. QED
        BY <4>1 DEF storeVars
    <3>2. CASE Spin
      BY <3>2 DEF Spin, streamVars, storeVars
    <3>3. QED
      BY <1>2, <3>1, <3>2
  <2>2. QED
    BY <2>1 DEF PadInv, Aligned, Received
<1>3. ASSUME NEW n \in 0..HEADER, ReadHeader(n) PROVE PadInv'
  <2>1. /\ UNCHANGED <<receiver, sizes>> /\ short' = Noting("header", HEADER, n)
        /\ where = "header" /\ slot \in Slots /\ where' \in {"data", "lost"}
    BY <1>1, <1>3 DEF ReadHeader, streamVars, IInv, TypeOK
  <2>2. Aligned
    BY <1>1, <2>1, ShortGrows DEF IInv
  <2>3. where' # "lost"
    BY <1>1 DEF IInv, PlaceOK
  <2>4. left' = sizes[slot] /\ UNCHANGED <<slot, length, bytes>> /\ where' = "data"
    BY <1>3, <2>1, <2>3 DEF ReadHeader, Announced, storeVars
  <2>5. length[slot] = 0 /\ sizes[slot] \in Nat
    BY <1>1, <2>1, Positions DEF IInv, LaterEmpty
  <2>6. Pads(bytes[slot], length[slot], slot, 0)
    BY <2>5 DEF Pads
  <2>7. sizes'[slot'] - left' = 0
    BY <2>1, <2>4, <2>5
  <2>8. ASSUME NEW j \in Slots, Received(j)' PROVE Pads(bytes'[j], length'[j], j, sizes'[j])
    <3>1. Received(j)
      BY <2>4, <2>8 DEF Received
    <3>2. QED
      BY <2>1, <2>2, <2>4, <3>1 DEF PadInv
  <2>9. QED
    BY <1>1, <2>4, <2>6, <2>7, <2>8 DEF PadInv
<1>4. ASSUME NEW n \in 1..MAXBUF, ReadBlock(n) PROVE PadInv'
  <2>1. /\ UNCHANGED streamVars /\ short' = Noting("block", MAXBUF, n) /\ where = "data"
        /\ slot' = slot /\ where' = where /\ left' = left - n /\ Store(n, MAXBUF)
        /\ MAXBUF \in 1..left /\ n \in 0..MAXBUF
    BY <1>1, <1>4, ConstantFacts DEF ReadBlock, Remaining, IInv, TypeOK
  <2>2. Aligned /\ receiver = "put" /\ UNCHANGED sizes
    BY <1>1, <2>1, ShortGrows DEF IInv, streamVars
  <2>3. QED
    BY <1>1, <2>1, <2>2, PadsStore DEF PadInv
<1>5. ASSUME NEW n \in 0..MAXBUF, ReadRest(n) PROVE PadInv'
  <2>1. /\ UNCHANGED streamVars /\ short' = Noting("rest", left, n) /\ where = "data"
        /\ slot' = slot /\ where' = where /\ left' = 0 /\ Store(n, left)
        /\ left \in 1..left /\ n \in 0..left /\ left \in Nat
    BY <1>1, <1>5, ConstantFacts DEF ReadRest, Reads, IInv, TypeOK
  <2>2. Aligned /\ receiver = "put" /\ UNCHANGED sizes /\ ~(n < left)
    BY <1>1, <2>1, ShortGrows DEF IInv, streamVars
  <2>3. left' = left - n
    BY <2>1, <2>2
  <2>4. QED
    BY <1>1, <2>1, <2>2, <2>3, PadsStore DEF PadInv
<1>6. CASE EndPart
  <2>1. /\ UNCHANGED <<receiver, sizes, left, length, bytes, short>>
        /\ where = "data" /\ left = 0
        /\ \/ slot = 1 /\ slot' = 2 /\ where' = "header"
           \/ slot = 2 /\ slot' = 2 /\ where' = "done"
    BY <1>1, <1>6, SlotFacts DEF EndPart, NextSlot, streamVars, storeVars, IInv, TypeOK
  <2>2. Pads(bytes[slot], length[slot], slot, sizes[slot])
    <3>1. sizes[slot] - left = sizes[slot]
      BY <1>1, <2>1, Positions DEF IInv
    <3>2. QED
      BY <2>1, <3>1 DEF PadInv, Aligned
  <2>3. ASSUME NEW j \in Slots, Received(j)' PROVE j = slot \/ Received(j)
    BY <2>1, <2>3, SlotFacts DEF Received
  <2>4. QED
    BY <2>1, <2>2, <2>3 DEF PadInv, Aligned
<1>7. QED
  BY <1>2, <1>3, <1>4, <1>5, <1>6 DEF Next, Receive, PadInv

(***************************************************************************)
(* The server stores a whole buffer for every read: blocks that come in    *)
(* pieces leave zeros in its files, and nothing worse (DFS_server.c:271-283). *)
(***************************************************************************)
THEOREM ServerPads == Spec => []ServerOnlyPads
<1>1. Init => PadInv
  <2> SUFFICES ASSUME Init PROVE PadInv
    OBVIOUS
  <2>1. \A j \in Slots : ~Received(j)
    BY SlotFacts DEF Init, Received
  <2>2. QED
    BY <2>1, InitIInv DEF Init, PadInv
<1>2. PadInv => ServerOnlyPads
  BY DEF PadInv, IInv, TypeOK, Aligned, Pads, ServerOnlyPads
<1>3. QED
  BY <1>1, <1>2, NextPadInv, PTL DEF Spec
=============================================================================
