----------------------------- MODULE Spsc_proofs -----------------------------
(***************************************************************************)
(* Proofs about the ring of spsc.rs, for every capacity and every width of *)
(* the indices.                                                            *)
(***************************************************************************)
EXTENDS Spsc, SequenceTheorems, TLAPS

(***************************************************************************)
(* Wrapping indices and the mask                                           *)
(***************************************************************************)
\* What a remainder is, by the quotient that leaves it.
LEMMA Remainder ==
  ASSUME NEW n \in Nat \ {0}, NEW q \in Nat, NEW r \in 0..(n - 1)
  PROVE  (q * n + r) % n = r
<1> DEFINE x == q * n + r
           d == x \div n
           m == x % n
<1>1. x \in Nat
  OBVIOUS
<1> HIDE DEF x
<1>2. x = n * d + m /\ d \in Int /\ m \in 0..(n - 1)
  BY <1>1
<1> HIDE DEF d, m
<1>3. q * n + r = n * d + m
  BY <1>2 DEF x
<1>4. CASE q = d
  BY <1>2, <1>3, <1>4 DEF m, x
<1>5. CASE q > d
  <2>1. PICK e \in Nat : q = d + 1 + e
    BY <1>2, <1>5
  <2>2. q * n = d * n + n + e * n
    BY <1>2, <2>1
  <2>3. e * n >= 0
    OBVIOUS
  <2> QED
    BY <1>2, <1>3, <2>2, <2>3
<1>6. CASE q < d
  <2>1. PICK e \in Nat : d = q + 1 + e
    BY <1>2, <1>6
  <2>2. n * d = q * n + n + e * n
    BY <1>2, <2>1
  <2>3. e * n >= 0
    OBVIOUS
  <2> QED
    BY <1>2, <1>3, <2>2, <2>3
<1> QED
  BY <1>2, <1>4, <1>5, <1>6

\* The quotient and the remainder of a natural number.
LEMMA Quotient ==
  ASSUME NEW n \in Nat \ {0}, NEW x \in Nat
  PROVE  /\ x \div n \in Nat /\ x % n \in 0..(n - 1)
         /\ x = (x \div n) * n + (x % n)
<1> DEFINE d == x \div n
           m == x % n
<1>1. x = n * d + m /\ d \in Int /\ m \in 0..(n - 1)
  OBVIOUS
<1> HIDE DEF d, m
<1>2. x = d * n + m
  BY <1>1
<1>3. ASSUME d < 0 PROVE FALSE
  <2>1. PICK e \in Nat : d = 0 - 1 - e
    BY <1>1, <1>3
  <2>2. d * n = 0 - n - e * n
    BY <1>1, <2>1
  <2>3. e * n >= 0
    OBVIOUS
  <2> QED
    BY <1>1, <1>2, <2>2, <2>3
<1>4. d \in Nat
  BY <1>1, <1>3
<1> QED
  BY <1>1, <1>2, <1>4 DEF d, m

LEMMA WordIsInteger == Word \in Nat \ {0} /\ Capacity \in Nat \ {0} /\ 2 * Capacity <= Word
<1>1. PICK q \in 2..Word : Word = q * Capacity
  BY CapacityAssumption
<1>2. q \in Nat /\ Capacity \in Nat \ {0} /\ Word \in Nat \ {0}
  BY CapacityAssumption, WordAssumption
<1>3. PICK e \in Nat : q = 2 + e
  BY <1>2
<1>4. q * Capacity = 2 * Capacity + e * Capacity
  BY <1>2, <1>3
<1>5. e * Capacity >= 0
  BY <1>2
<1> QED
  BY <1>1, <1>2, <1>4, <1>5

\* An index that ran past the end of the word starts again.
LEMMA Wrapped ==
  ASSUME NEW x \in 0..(2 * Word - 1)
  PROVE  x % Word = IF x < Word THEN x ELSE x - Word
<1>1. Word \in Nat \ {0} /\ x \in Nat
  BY WordIsInteger
<1>2. CASE x < Word
  <2>1. x \in 0..(Word - 1) /\ 0 * Word + x = x
    BY <1>1, <1>2
  <2>2. (0 * Word + x) % Word = x
    BY <1>1, <2>1, Remainder
  <2> QED
    BY <1>2, <2>1, <2>2
<1>3. CASE x >= Word
  <2>1. x - Word \in 0..(Word - 1) /\ 1 * Word + (x - Word) = x
    BY <1>1, <1>3
  <2>2. (1 * Word + (x - Word)) % Word = x - Word
    BY <1>1, <2>1, Remainder
  <2> QED
    BY <1>1, <1>3, <2>1, <2>2
<1> QED
  BY <1>1, <1>2, <1>3

\* The mask does not see the wrap, because the capacity divides the word.
LEMMA MaskIgnoresWrap ==
  ASSUME NEW x \in 0..(2 * Word - 1)
  PROVE  Masked(x % Word) = Masked(x)
<1>1. Word \in Nat \ {0} /\ Capacity \in Nat \ {0} /\ x \in Nat
  BY WordIsInteger
<1>2. CASE x < Word
  BY <1>2, Wrapped
<1>3. CASE x >= Word
  <2> DEFINE y == x - Word
             d == y \div Capacity
             m == y % Capacity
  <2>1. y \in Nat /\ x % Word = y
    BY <1>1, <1>3, Wrapped
  <2>2. d \in Nat /\ m \in 0..(Capacity - 1) /\ y = d * Capacity + m
    BY <1>1, <2>1, Quotient
  <2>3. PICK q \in 2..Word : Word = q * Capacity
    BY CapacityAssumption
  <2> HIDE DEF d, m
  <2>4. x = (d + q) * Capacity + m /\ d + q \in Nat
    BY <1>1, <2>2, <2>3
  <2>5. x % Capacity = m
    BY <1>1, <2>2, <2>4, Remainder
  <2> QED
    BY <2>1, <2>5 DEF Masked, m
<1> QED
  BY <1>1, <1>2, <1>3

\* Within a stretch as long as the ring no two indices share a slot.
LEMMA MaskIsInjective ==
  ASSUME NEW i \in Nat, NEW d \in 1..(Capacity - 1)
  PROVE  Masked(i + d) # Masked(i)
<1> DEFINE q == i \div Capacity
           m == i % Capacity
<1>1. Capacity \in Nat \ {0} /\ d \in Nat
  BY WordIsInteger
<1>2. q \in Nat /\ m \in 0..(Capacity - 1) /\ i = q * Capacity + m
  BY <1>1, Quotient
<1> HIDE DEF q, m
<1>3. CASE m + d < Capacity
  <2>1. i + d = q * Capacity + (m + d) /\ m + d \in 0..(Capacity - 1)
    BY <1>1, <1>2, <1>3
  <2>2. (i + d) % Capacity = m + d
    BY <1>1, <1>2, <2>1, Remainder
  <2> QED
    BY <1>1, <1>2, <2>2 DEF Masked, m
<1>4. CASE m + d >= Capacity
  <2>1. /\ i + d = (q + 1) * Capacity + (m + d - Capacity)
        /\ m + d - Capacity \in 0..(Capacity - 1) /\ q + 1 \in Nat
    BY <1>1, <1>2, <1>4
  <2>2. (i + d) % Capacity = m + d - Capacity
    BY <1>1, <2>1, Remainder
  <2> QED
    BY <1>1, <1>2, <2>2 DEF Masked, m
<1> QED
  BY <1>1, <1>2, <1>3, <1>4

Indices == 0..(Word - 1)

\* The wrapping difference and the wrapping increment, without the remainder.
LEMMA MinusIs ==
  ASSUME NEW t \in Indices, NEW h \in Indices
  PROVE  Minus(t, h) = IF t >= h THEN t - h ELSE t + Word - h
<1>1. t + Word - h \in 0..(2 * Word - 1)
  BY WordIsInteger DEF Indices
<1> QED
  BY <1>1, Wrapped, WordIsInteger DEF Minus, Indices

LEMMA Plus1Is ==
  ASSUME NEW h \in Indices
  PROVE  Plus1(h) = IF h + 1 < Word THEN h + 1 ELSE 0
<1>1. h + 1 \in 0..(2 * Word - 1)
  BY WordIsInteger DEF Indices
<1> QED
  BY <1>1, Wrapped, WordIsInteger DEF Plus1, Indices

\* The slots of n successive indices from h.
Stretch(h, n) == {Masked(h + k) : k \in 0..(n - 1)}

LEMMA MaskedType ==
  ASSUME NEW x \in Nat
  PROVE  Masked(x) \in 0..(Capacity - 1)
  BY WordIsInteger, Quotient DEF Masked

\* Two offsets below the capacity that reach the same slot are equal.
LEMMA SameSlot ==
  ASSUME NEW h \in Nat, NEW j \in 0..(Capacity - 1), NEW k \in 0..(Capacity - 1),
         Masked(h + j) = Masked(h + k)
  PROVE  j = k
<1>1. Capacity \in Nat \ {0}
  BY WordIsInteger
<1>2. ASSUME j < k PROVE FALSE
  <2>1. h + j \in Nat /\ k - j \in 1..(Capacity - 1) /\ (h + j) + (k - j) = h + k
    BY <1>1, <1>2
  <2>2. Masked((h + j) + (k - j)) # Masked(h + j)
    BY <2>1, MaskIsInjective
  <2> QED
    BY <2>1, <2>2
<1>3. ASSUME k < j PROVE FALSE
  <2>1. h + k \in Nat /\ j - k \in 1..(Capacity - 1) /\ (h + k) + (j - k) = h + j
    BY <1>1, <1>3
  <2>2. Masked((h + k) + (j - k)) # Masked(h + k)
    BY <2>1, MaskIsInjective
  <2> QED
    BY <2>1, <2>2
<1> QED
  BY <1>1, <1>2, <1>3

\* A stretch grows at its end by a slot it does not hold while it is shorter than the ring.
LEMMA StretchGrows ==
  ASSUME NEW h \in Nat, NEW n \in 0..(Capacity - 1)
  PROVE  /\ Stretch(h, n + 1) = Stretch(h, n) \cup {Masked(h + n)}
         /\ Masked(h + n) \notin Stretch(h, n)
<1>1. Capacity \in Nat \ {0}
  BY WordIsInteger
<1>2. 0..(n + 1 - 1) = 0..(n - 1) \cup {n}
  BY <1>1
<1>3. ASSUME NEW k \in 0..(n - 1) PROVE Masked(h + n) # Masked(h + k)
  <2>1. k \in 0..(Capacity - 1) /\ n # k
    BY <1>1
  <2> QED
    BY <2>1, SameSlot
<1> QED
  BY <1>2, <1>3 DEF Stretch

\* Without its first slot it is the stretch that starts one later.
LEMMA StretchShrinks ==
  ASSUME NEW h \in Nat, NEW n \in 1..Capacity
  PROVE  /\ Stretch(h + 1, n - 1) = Stretch(h, n) \ {Masked(h)}
         /\ Masked(h) \in Stretch(h, n)
<1>1. Capacity \in Nat \ {0} /\ h + 0 = h
  BY WordIsInteger
<1>2. \A k \in 0..(n - 1 - 1) : k + 1 \in 1..(n - 1) /\ (h + 1) + k = h + (k + 1)
  BY <1>1
<1>3. \A k \in 1..(n - 1) : k - 1 \in 0..(n - 1 - 1) /\ (h + 1) + (k - 1) = h + k
  BY <1>1
<1>4. Stretch(h + 1, n - 1) = {Masked(h + k) : k \in 1..(n - 1)}
  BY <1>2, <1>3 DEF Stretch
<1>5. ASSUME NEW k \in 1..(n - 1) PROVE Masked(h + k) # Masked(h)
  <2>1. k \in 0..(Capacity - 1) /\ 0 \in 0..(Capacity - 1) /\ k # 0
    BY <1>1
  <2> QED
    BY <1>1, <2>1, SameSlot
<1>6. 0..(n - 1) = {0} \cup 1..(n - 1)
  BY <1>1
<1>7. Stretch(h, n) = {Masked(h)} \cup {Masked(h + k) : k \in 1..(n - 1)}
  BY <1>1, <1>6 DEF Stretch
<1> QED
  BY <1>4, <1>5, <1>7

\* Where the index after h, and the index a distance of tail from head, point.
LEMMA MaskOfNext ==
  ASSUME NEW h \in Indices, NEW k \in 0..(Capacity - 1)
  PROVE  Plus1(h) \in Indices /\ Masked(Plus1(h) + k) = Masked((h + 1) + k)
<1>1. /\ Word \in Nat \ {0} /\ Capacity \in Nat \ {0} /\ 2 * Capacity <= Word
      /\ h \in Nat /\ h < Word /\ k \in Nat /\ k < Word
  BY WordIsInteger DEF Indices
<1>2. CASE h + 1 < Word
  BY <1>1, <1>2, Plus1Is DEF Indices
<1>3. CASE h + 1 = Word
  <2>1. Plus1(h) = 0 /\ 0 \in Indices
    BY <1>1, <1>3, Plus1Is DEF Indices
  <2>2. Word + k \in 0..(2 * Word - 1)
    BY <1>1
  <2>3. (Word + k) % Word = k
    BY <1>1, <2>2, Wrapped
  <2>4. Masked(k) = Masked(Word + k)
    BY <2>2, <2>3, MaskIgnoresWrap
  <2> QED
    BY <1>1, <1>3, <2>1, <2>4
<1> QED
  BY <1>1, <1>2, <1>3

LEMMA StretchOfNext ==
  ASSUME NEW h \in Indices, NEW n \in 0..Capacity
  PROVE  Stretch(Plus1(h), n) = Stretch(h + 1, n)
<1>1. \A k \in 0..(n - 1) : k \in 0..(Capacity - 1)
  BY WordIsInteger
<1>2. \A k \in 0..(n - 1) : Masked(Plus1(h) + k) = Masked((h + 1) + k)
  BY <1>1, MaskOfNext
<1> QED
  BY <1>2 DEF Stretch

LEMMA MaskOfDistance ==
  ASSUME NEW t \in Indices, NEW h \in Indices
  PROVE  Minus(t, h) \in 0..(Word - 1) /\ Masked(h + Minus(t, h)) = Masked(t)
<1>1. Word \in Nat \ {0} /\ t \in Nat /\ h \in Nat /\ t < Word /\ h < Word
  BY WordIsInteger DEF Indices
<1>2. CASE t >= h
  BY <1>1, <1>2, MinusIs
<1>3. CASE t < h
  <2>1. Minus(t, h) = t + Word - h
    BY <1>1, <1>3, MinusIs
  <2>2. h + Minus(t, h) = Word + t /\ Minus(t, h) \in 0..(Word - 1)
    BY <1>1, <1>3, <2>1
  <2>3. Word + t \in 0..(2 * Word - 1)
    BY <1>1
  <2>4. (Word + t) % Word = t
    BY <1>1, <2>3, Wrapped
  <2>5. Masked(t) = Masked(Word + t)
    BY <2>3, <2>4, MaskIgnoresWrap
  <2> QED
    BY <2>2, <2>5
<1> QED
  BY <1>1, <1>2, <1>3

LEMMA MaskOfOffset ==
  ASSUME NEW h \in Indices, NEW k \in 0..(Capacity - 1)
  PROVE  Masked((h + k) % Word) = Masked(h + k)
<1>1. h + k \in 0..(2 * Word - 1)
  BY WordIsInteger DEF Indices
<1> QED
  BY <1>1, MaskIgnoresWrap

\* A publish lengthens the queue by one and a release shortens it by one.
LEMMA MinusOfNext ==
  ASSUME NEW t \in Indices, NEW h \in Indices
  PROVE  /\ Minus(t, h) < Capacity => Minus(Plus1(t), h) = Minus(t, h) + 1
         /\ Minus(t, h) > 0 => Minus(t, Plus1(h)) = Minus(t, h) - 1
<1>1. /\ Word \in Nat \ {0} /\ Capacity \in Nat \ {0} /\ 2 * Capacity <= Word
      /\ t \in Nat /\ h \in Nat /\ t < Word /\ h < Word
  BY WordIsInteger DEF Indices
<1>2. Plus1(t) = IF t + 1 < Word THEN t + 1 ELSE 0
  BY Plus1Is
<1>3. Plus1(h) = IF h + 1 < Word THEN h + 1 ELSE 0
  BY Plus1Is
<1>4. Plus1(t) \in Indices /\ Plus1(h) \in Indices
  BY <1>1, <1>2, <1>3 DEF Indices
<1>5. Minus(t, h) = IF t >= h THEN t - h ELSE t + Word - h
  BY MinusIs
<1>6. Minus(Plus1(t), h) = IF Plus1(t) >= h THEN Plus1(t) - h ELSE Plus1(t) + Word - h
  BY <1>4, MinusIs
<1>7. Minus(t, Plus1(h)) = IF t >= Plus1(h) THEN t - Plus1(h) ELSE t + Word - Plus1(h)
  BY <1>4, MinusIs
<1>8. ASSUME Minus(t, h) < Capacity PROVE Minus(Plus1(t), h) = Minus(t, h) + 1
  BY <1>1, <1>2, <1>5, <1>6, <1>8
<1>9. ASSUME Minus(t, h) > 0 PROVE Minus(t, Plus1(h)) = Minus(t, h) - 1
  BY <1>1, <1>3, <1>5, <1>7, <1>9
<1> QED
  BY <1>8, <1>9

LEMMA MinusZero ==
  ASSUME NEW t \in Indices, NEW h \in Indices
  PROVE  Minus(t, h) = 0 <=> t = h
  BY MinusIs, WordIsInteger DEF Indices

(***************************************************************************)
(* The inductive invariant                                                 *)
(***************************************************************************)
Length == Minus(tail, head)

\* The sender publishes only where it found room, with a value, and never once it closed.
SenderInv ==
    /\ s_pc \in {"write", "publish"} => s_tail = tail /\ Length < Capacity
    /\ s_pc \notin {"idle", "gone"} => s_value \in Values
    /\ sender_closed => s_pc \in {"idle", "load_sender_closed", "gone"}
    /\ s_pc = "gone" => sender_closed

\* The receiver reads and releases only the oldest element of a queue that is not empty.
ReceiverInv ==
    /\ r_pc \in {"read", "release"} => r_head = head /\ Length > 0
    /\ r_pc = "release" => r_value \in Values
    /\ r_pc = "gone" => receiver_closed
    /\ r_pc = "is_closed_len" => sender_closed
    /\ answer = "NoMore" => sender_closed /\ tail = head /\ r_pc \in {"idle", "gone"}
    /\ freed => s_pc = "gone" /\ r_pc = "gone"

\* A slot holds an element when its index lies between head and tail and the receiver has
\* not moved it out, or when it is the one the sender is about to publish.
Holds(i) ==
    \/ i \in Stretch(head, Length) /\ ~(r_pc = "release" /\ Masked(head) = i)
    \/ s_pc = "publish" /\ Masked(tail) = i

SlotInv ==
    /\ Length <= Capacity
    /\ ~freed => \A i \in 0..(Capacity - 1) : slots[i] # NoValue <=> Holds(i)
    /\ freed => \A i \in 0..(Capacity - 1) : slots[i] # NoValue => tail < head

\* The slot about to be published holds the value of the call.
WrittenInv == s_pc = "publish" => slots[Masked(tail)] = s_value

IInv == TypeOK /\ SenderInv /\ ReceiverInv /\ SlotInv /\ WrittenInv

LEMMA InitIInv == Init => IInv
<1> SUFFICES ASSUME Init PROVE IInv
  OBVIOUS
<1>1. Word \in Nat \ {0} /\ Capacity \in Nat \ {0}
  BY WordIsInteger
<1>2. TypeOK
  <2>1. 0 \in 0..(Word - 1)
    BY <1>1
  <2>2. slots \in [0..(Capacity - 1) -> Values \cup {NoValue}]
    BY DEF Init
  <2> QED
    BY <2>1, <2>2, Zenon DEF Init, TypeOK
<1>3. 0 \in Indices
  BY <1>1 DEF Indices
<1>4. Length = 0
  BY <1>3, MinusZero DEF Init, Length
<1>5. SenderInv /\ ReceiverInv
  BY DEF Init, SenderInv, ReceiverInv
<1>6. Stretch(head, Length) = {}
  BY <1>4 DEF Stretch
<1>7. SlotInv
  BY <1>1, <1>4, <1>6 DEF Init, SlotInv, Holds
<1> QED
  BY <1>2, <1>5, <1>7 DEF Init, IInv, WrittenInv

\* A step that leaves the indices and the slots alone, and begins or ends no write and no
\* read of a slot, leaves SlotInv as it is.
LEMMA SameSlots ==
  ASSUME SlotInv, head' = head, tail' = tail, slots' = slots, freed' = freed,
         s_pc' = "publish" <=> s_pc = "publish", r_pc' = "release" <=> r_pc = "release"
  PROVE  SlotInv' /\ Length' = Length
  BY DEF SlotInv, Holds, Length, Stretch, Minus, Masked

\* The steps of the sender that only read, and its close.
LEMMA SenderReadsIInv ==
  ASSUME IInv,
         \/ \E v \in Values, blocking \in BOOLEAN : SendCall(v, blocking)
         \/ \E gone \in BOOLEAN : SenderCloses(gone)
         \/ SendLoadsSenderClosed \/ SendLoadsReceiverClosed \/ SendChecksFull \/ SendRetries
  PROVE  IInv'
<1> USE DEF IInv
<1>1. /\ head' = head /\ tail' = tail /\ slots' = slots /\ freed' = freed
      /\ r_pc' = r_pc /\ r_head' = r_head /\ r_value' = r_value /\ answer' = answer
      /\ r_blocking' = r_blocking /\ receiver_closed' = receiver_closed
  BY DEF SendCall, SenderCloses, SendLoadsSenderClosed, SendLoadsReceiverClosed, SendChecksFull,
         SendRetries, shared, receiver
<1>2. s_pc' # "publish" /\ s_pc # "publish" /\ s_pc # "gone"
  BY DEF SendCall, SenderCloses, SendLoadsSenderClosed, SendLoadsReceiverClosed, SendChecksFull,
         SendRetries, SendReturns
<1>3. SlotInv' /\ Length' = Length
  BY <1>1, <1>2, SameSlots
<1>4. Length <= Capacity /\ Length \in Nat /\ Capacity \in Nat
  <2>1. Length \in 0..(Word - 1)
    BY MaskOfDistance DEF Length, TypeOK, Indices
  <2> QED
    BY <2>1, WordIsInteger DEF SlotInv
<1>5. TypeOK' /\ SenderInv'
  <2>1. ASSUME NEW v \in Values, NEW blocking \in BOOLEAN, SendCall(v, blocking)
        PROVE  TypeOK' /\ SenderInv'
    BY <1>1, <2>1 DEF SendCall, TypeOK, SenderInv, shared
  <2>2. ASSUME NEW gone \in BOOLEAN, SenderCloses(gone)
        PROVE  TypeOK' /\ SenderInv'
    BY <1>1, <2>2 DEF SenderCloses, TypeOK, SenderInv
  <2>3. CASE SendLoadsSenderClosed
    <3>1. CASE sender_closed
      <4>1. s_pc' = "idle" /\ s_value' = NoValue /\ s_blocking' = FALSE
        BY <2>3, <3>1 DEF SendLoadsSenderClosed, SendReturns
      <4>2. s_tail' = s_tail /\ sender_closed' = sender_closed
        BY <2>3 DEF SendLoadsSenderClosed, shared
      <4>3. s_value' \in Values \cup {NoValue} /\ s_blocking' \in BOOLEAN
        BY <4>1
      <4>4. TypeOK'
        BY <1>1, <4>1, <4>2, <4>3 DEF TypeOK
      <4>5. SenderInv'
        BY <4>1 DEF SenderInv
      <4> QED
        BY <4>4, <4>5
    <3>2. CASE ~sender_closed
      <4>1. /\ s_pc = "load_sender_closed" /\ s_pc' = "load_receiver_closed"
            /\ s_value' = s_value /\ s_blocking' = s_blocking
        BY <2>3, <3>2 DEF SendLoadsSenderClosed
      <4>2. s_tail' = s_tail /\ sender_closed' = sender_closed
        BY <2>3 DEF SendLoadsSenderClosed, shared
      <4> QED
        BY <1>1, <3>2, <4>1, <4>2 DEF TypeOK, SenderInv
    <3> QED
      BY <3>1, <3>2
  <2>4. CASE SendLoadsReceiverClosed
    <3>1. s_tail' = s_tail /\ sender_closed' = sender_closed /\ s_pc = "load_receiver_closed"
      BY <2>4 DEF SendLoadsReceiverClosed, shared
    <3>2. CASE receiver_closed
      <4>1. s_pc' = "idle" /\ s_value' = NoValue /\ s_blocking' = FALSE
        BY <2>4, <3>2 DEF SendLoadsReceiverClosed, SendReturns
      <4>2. s_value' \in Values \cup {NoValue} /\ s_blocking' \in BOOLEAN
        BY <4>1
      <4>3. TypeOK'
        BY <1>1, <3>1, <4>1, <4>2 DEF TypeOK
      <4>4. SenderInv'
        BY <4>1 DEF SenderInv
      <4> QED
        BY <4>3, <4>4
    <3>3. CASE ~receiver_closed
      <4>1. s_pc' = "load_head" /\ s_value' = s_value /\ s_blocking' = s_blocking
        BY <2>4, <3>3 DEF SendLoadsReceiverClosed
      <4>2. TypeOK'
        BY <1>1, <3>1, <4>1 DEF TypeOK
      <4>3. SenderInv'
        BY <1>1, <3>1, <4>1 DEF SenderInv
      <4> QED
        BY <4>2, <4>3
    <3> QED
      BY <3>2, <3>3
  <2>5. CASE SendChecksFull
    <3>1. s_tail' = tail /\ sender_closed' = sender_closed /\ s_pc = "load_head"
      BY <2>5 DEF SendChecksFull, shared
    <3>2. CASE s_pc' = "idle" /\ s_value' = NoValue /\ s_blocking' = FALSE
      <4>1. s_value' \in Values \cup {NoValue} /\ s_blocking' \in BOOLEAN
        BY <3>2
      <4>2. TypeOK'
        BY <1>1, <3>1, <3>2, <4>1 DEF TypeOK
      <4>3. SenderInv'
        BY <3>2 DEF SenderInv
      <4> QED
        BY <4>2, <4>3
    <3>3. CASE s_pc' = "full" /\ s_value' = s_value /\ s_blocking' = s_blocking
      BY <1>1, <3>1, <3>3 DEF TypeOK, SenderInv
    <3>4. CASE Length # Capacity /\ s_pc' = "write" /\ s_value' = s_value /\ s_blocking' = s_blocking
      BY <1>1, <1>3, <1>4, <3>1, <3>4 DEF TypeOK, SenderInv
    <3> QED
      BY <2>5, <3>2, <3>3, <3>4 DEF SendChecksFull, SendReturns, Length
  <2>6. CASE SendRetries
    BY <1>1, <2>6 DEF SendRetries, TypeOK, SenderInv, shared
  <2> QED
    BY <2>1, <2>2, <2>3, <2>4, <2>5, <2>6
<1>6. sender_closed => sender_closed'
  BY DEF SendCall, SenderCloses, SendLoadsSenderClosed, SendLoadsReceiverClosed, SendChecksFull,
         SendRetries, shared
<1>7. ~freed
  BY <1>2 DEF ReceiverInv
<1>8. ReceiverInv'
  BY <1>1, <1>3, <1>6, <1>7 DEF ReceiverInv
<1> QED
  BY <1>2, <1>3, <1>5, <1>8 DEF WrittenInv

\* The steps of the receiver that only read, its close and is_closed.
LEMMA ReceiverReadsIInv ==
  ASSUME IInv,
         \/ \E blocking \in BOOLEAN : RecvCall(blocking)
         \/ \E gone \in BOOLEAN : ReceiverCloses(gone)
         \/ RecvLoadsTail \/ RecvLoadsSenderClosed \/ RecvRetries
         \/ IsClosedCall \/ IsClosedLoadsSender \/ IsClosedLoadsLen
  PROVE  IInv'
<1> USE DEF IInv
<1>1. /\ head' = head /\ tail' = tail /\ slots' = slots /\ freed' = freed
      /\ s_pc' = s_pc /\ s_tail' = s_tail /\ s_value' = s_value /\ s_blocking' = s_blocking
      /\ sender_closed' = sender_closed
  BY DEF RecvCall, ReceiverCloses, RecvLoadsTail, RecvLoadsSenderClosed, RecvRetries, IsClosedCall,
         IsClosedLoadsSender, IsClosedLoadsLen, shared, sender
<1>2. r_pc' # "release" /\ r_pc # "release" /\ r_pc # "gone"
  BY DEF RecvCall, ReceiverCloses, RecvLoadsTail, RecvLoadsSenderClosed, RecvRetries, IsClosedCall,
         IsClosedLoadsSender, IsClosedLoadsLen
<1>3. SlotInv' /\ Length' = Length
  BY <1>1, <1>2, SameSlots
<1>4. Length \in Nat /\ (Length = 0 <=> tail = head)
  <2>1. Length \in 0..(Word - 1)
    BY MaskOfDistance DEF Length, TypeOK, Indices
  <2>2. Length = 0 <=> tail = head
    BY MinusZero DEF Length, TypeOK, Indices
  <2> QED
    BY <2>1, <2>2
<1>5. SenderInv'
  BY <1>1, <1>3 DEF SenderInv
<1>6. ~freed
  BY <1>2 DEF ReceiverInv
<1>7. TypeOK' /\ ReceiverInv'
  <2>1. ASSUME NEW blocking \in BOOLEAN, RecvCall(blocking)
        PROVE  TypeOK' /\ ReceiverInv'
    BY <1>1, <1>6, <2>1 DEF RecvCall, TypeOK, ReceiverInv, shared
  <2>2. ASSUME NEW gone \in BOOLEAN, ReceiverCloses(gone)
        PROVE  TypeOK' /\ ReceiverInv'
    BY <1>1, <1>6, <2>2 DEF ReceiverCloses, TypeOK, ReceiverInv
  <2>3. CASE RecvLoadsTail
    BY <1>1, <1>3, <1>4, <1>6, <2>3 DEF RecvLoadsTail, TypeOK, ReceiverInv, shared
  <2>4. CASE RecvLoadsSenderClosed
    <3>1. /\ r_pc = "load_sender_closed" /\ r_head' = r_head /\ r_value' = r_value
          /\ receiver_closed' = receiver_closed
      BY <2>4 DEF RecvLoadsSenderClosed, shared
    <3>2. CASE r_pc' = "empty" /\ r_blocking' = r_blocking /\ answer' = answer
      <4>1. TypeOK'
        BY <1>1, <3>1, <3>2 DEF TypeOK
      <4>2. ReceiverInv'
        BY <1>1, <1>6, <3>1, <3>2 DEF ReceiverInv
      <4> QED
        BY <4>1, <4>2
    <3>3. CASE r_pc' = "idle" /\ r_blocking' = FALSE /\ answer' \in {"Closed", "Empty"}
      BY <1>1, <1>6, <3>1, <3>3, ZenonT(40) DEF TypeOK, ReceiverInv
    <3> QED
      BY <2>4, <3>2, <3>3 DEF RecvLoadsSenderClosed
  <2>5. CASE RecvRetries
    BY <1>1, <1>6, <2>5 DEF RecvRetries, TypeOK, ReceiverInv, shared
  <2>6. CASE IsClosedCall
    BY <1>1, <1>6, <2>6 DEF IsClosedCall, TypeOK, ReceiverInv, shared
  <2>7. CASE IsClosedLoadsSender
    BY <1>1, <1>6, <2>7 DEF IsClosedLoadsSender, TypeOK, ReceiverInv, shared
  <2>8. CASE IsClosedLoadsLen
    BY <1>1, <1>4, <1>6, <2>8 DEF IsClosedLoadsLen, TypeOK, ReceiverInv, shared, Length
  <2> QED
    BY <2>1, <2>2, <2>3, <2>4, <2>5, <2>6, <2>7, <2>8
<1>8. WrittenInv'
  BY <1>1 DEF WrittenInv, Masked
<1> QED
  BY <1>3, <1>5, <1>7, <1>8

\* What every step of the ring needs about its indices.
LEMMA IndexFacts ==
  ASSUME IInv
  PROVE  /\ head \in Indices /\ tail \in Indices /\ head \in Nat /\ tail \in Nat
         /\ Length \in 0..Capacity /\ Capacity \in Nat \ {0}
         /\ Masked(head) \in 0..(Capacity - 1) /\ Masked(tail) \in 0..(Capacity - 1)
         /\ Masked(head + Length) = Masked(tail)
<1>1. head \in Indices /\ tail \in Indices
  BY DEF IInv, TypeOK, Indices
<1>2. Length \in 0..(Word - 1) /\ Masked(head + Length) = Masked(tail)
  BY <1>1, MaskOfDistance DEF Length
<1>3. head \in Nat /\ tail \in Nat /\ Capacity \in Nat \ {0}
  BY <1>1, WordIsInteger DEF Indices
<1> QED
  BY <1>1, <1>2, <1>3, MaskedType DEF IInv, SlotInv

\* The slot the sender writes is none of the published ones.
LEMMA WriteIInv ==
  ASSUME IInv, SendWritesSlot
  PROVE  IInv'
<1> DEFINE m == Masked(tail)
<1>1. /\ s_pc = "write" /\ s_pc' = "publish" /\ s_value' = s_value /\ s_tail' = s_tail
      /\ s_blocking' = s_blocking /\ head' = head /\ tail' = tail /\ freed' = freed
      /\ sender_closed' = sender_closed /\ receiver_closed' = receiver_closed
      /\ r_pc' = r_pc /\ r_head' = r_head /\ r_value' = r_value /\ answer' = answer
      /\ r_blocking' = r_blocking
  BY DEF SendWritesSlot, receiver
<1>2. s_tail = tail /\ Length < Capacity /\ s_value \in Values
  BY <1>1 DEF IInv, SenderInv
<1>3. slots' = [slots EXCEPT ![m] = s_value] /\ m \in 0..(Capacity - 1)
  BY <1>2, IndexFacts DEF SendWritesSlot
<1>4. Length' = Length /\ Stretch(head, Length)' = Stretch(head, Length) /\ Masked(tail)' = m
  BY <1>1 DEF Length, Stretch, Minus, Masked
<1>5. TypeOK'
  BY <1>1, <1>3 DEF IInv, TypeOK
<1>6. SenderInv' /\ ReceiverInv'
  BY <1>1, <1>2, <1>4 DEF IInv, SenderInv, ReceiverInv
<1>7. ~freed
  BY <1>1 DEF IInv, ReceiverInv
<1>8. ASSUME NEW i \in 0..(Capacity - 1) PROVE slots'[i] # NoValue <=> Holds(i)'
  <2>1. CASE i = m
    <3>1. slots'[i] = s_value
      BY <1>3, <2>1 DEF IInv, TypeOK
    <3> QED
      BY <1>1, <1>2, <1>4, <2>1, <3>1, NoValueAssumption DEF Holds
  <2>2. CASE i # m
    <3>1. slots'[i] = slots[i]
      BY <1>3, <2>2 DEF IInv, TypeOK
    <3>2. slots[i] # NoValue <=> Holds(i)
      BY <1>7 DEF IInv, SlotInv
    <3>3. Holds(i) <=> Holds(i)'
      <4>1. Masked(head)' = Masked(head)
        BY <1>1 DEF Masked
      <4> QED
        BY <1>1, <1>4, <2>2, <4>1 DEF Holds
    <3> QED
      BY <3>1, <3>2, <3>3
  <2> QED
    BY <2>1, <2>2
<1>9. SlotInv'
  BY <1>1, <1>4, <1>7, <1>8 DEF IInv, SlotInv
<1>10. WrittenInv'
  BY <1>1, <1>3, <1>4 DEF IInv, TypeOK, WrittenInv
<1> QED
  BY <1>5, <1>6, <1>9, <1>10 DEF IInv

\* Publishing makes the written slot the last of the queue.
LEMMA PublishIInv ==
  ASSUME IInv, SendPublishes
  PROVE  IInv' /\ Length' = Length + 1 /\ Length < Capacity /\ ~sender_closed
<1>1. /\ s_pc = "publish" /\ s_pc' = "idle" /\ s_value' = NoValue /\ s_tail' = 0
      /\ s_blocking' = FALSE /\ head' = head /\ slots' = slots /\ freed' = freed
      /\ sender_closed' = sender_closed /\ receiver_closed' = receiver_closed
      /\ r_pc' = r_pc /\ r_head' = r_head /\ r_value' = r_value /\ answer' = answer
      /\ r_blocking' = r_blocking
  BY DEF SendPublishes, SendReturns, receiver
<1>2. s_tail = tail /\ Length < Capacity /\ ~sender_closed
  BY <1>1 DEF IInv, SenderInv
<1>3. tail' = Plus1(tail)
  BY <1>2 DEF SendPublishes
<1>4. Length' = Length + 1
  BY <1>1, <1>2, <1>3, IndexFacts, MinusOfNext DEF Length, Minus
<1>5. Length \in 0..(Capacity - 1)
  BY <1>2, IndexFacts
<1>6. /\ Stretch(head, Length)' = Stretch(head, Length) \cup {Masked(tail)}
      /\ Masked(tail) \notin Stretch(head, Length)
  <2>1. /\ Stretch(head, Length + 1) = Stretch(head, Length) \cup {Masked(head + Length)}
        /\ Masked(head + Length) \notin Stretch(head, Length)
    BY <1>5, IndexFacts, StretchGrows
  <2>2. Stretch(head, Length)' = Stretch(head, Length + 1)
    BY <1>1, <1>4 DEF Stretch, Masked
  <2> QED
    BY <2>1, <2>2, IndexFacts
<1>7. TypeOK'
  <2>1. tail' \in 0..(Word - 1) /\ s_tail' \in 0..(Word - 1)
    BY <1>1, <1>3, IndexFacts, Plus1Is, WordIsInteger DEF Indices
  <2>2. TypeOK
    BY DEF IInv
  <2>3. s_blocking' \in BOOLEAN /\ s_value' \in Values \cup {NoValue}
    BY <1>1
  <2> QED
    BY <1>1, <2>1, <2>2, <2>3 DEF TypeOK
<1>8. SenderInv'
  BY <1>1, <1>2 DEF IInv, SenderInv
<1>9. ReceiverInv'
  <2>1. Length' > 0
    BY <1>4, IndexFacts
  <2> QED
    BY <1>1, <1>2, <2>1 DEF IInv, ReceiverInv
<1>10. ~freed
  BY <1>1 DEF IInv, ReceiverInv
<1>11. ASSUME NEW i \in 0..(Capacity - 1) PROVE slots'[i] # NoValue <=> Holds(i)'
  <2>1. slots[i] # NoValue <=> Holds(i)
    BY <1>10 DEF IInv, SlotInv
  <2>2. r_pc = "release" => Masked(head) # Masked(tail)
    <3>1. ASSUME r_pc = "release" PROVE Masked(head) \in Stretch(head, Length)
      <4>1. Length \in 1..Capacity
        BY <3>1, IndexFacts DEF IInv, ReceiverInv
      <4> QED
        BY <4>1, IndexFacts, StretchShrinks
    <3> QED
      BY <1>6, <3>1
  <2>3. Masked(head)' = Masked(head)
    BY <1>1 DEF Masked
  <2>4. Holds(i) <=> Holds(i)'
    BY <1>1, <1>6, <2>2, <2>3 DEF Holds
  <2> QED
    BY <1>1, <2>1, <2>4
<1>12. SlotInv'
  <2>1. Length' <= Capacity
    BY <1>4, <1>5, IndexFacts
  <2> QED
    BY <1>1, <1>10, <1>11, <2>1 DEF SlotInv
<1> QED
  BY <1>1, <1>2, <1>4, <1>7, <1>8, <1>9, <1>12 DEF IInv, WrittenInv

\* Reading the oldest slot leaves it empty, and it is not the slot the sender writes.
LEMMA ReadIInv ==
  ASSUME IInv, RecvReadsSlot
  PROVE  IInv' /\ r_value' = slots[Masked(head)]
<1> DEFINE m == Masked(head)
<1>1. /\ r_pc = "read" /\ r_pc' = "release" /\ r_head' = r_head /\ r_blocking' = r_blocking
      /\ answer' = answer /\ head' = head /\ tail' = tail /\ freed' = freed
      /\ sender_closed' = sender_closed /\ receiver_closed' = receiver_closed
      /\ s_pc' = s_pc /\ s_tail' = s_tail /\ s_value' = s_value /\ s_blocking' = s_blocking
  BY DEF RecvReadsSlot, sender
<1>2. r_head = head /\ Length > 0
  BY <1>1 DEF IInv, ReceiverInv
<1>3. r_value' = slots[m] /\ slots' = [slots EXCEPT ![m] = NoValue] /\ m \in 0..(Capacity - 1)
  BY <1>2, IndexFacts DEF RecvReadsSlot
<1>4. Length' = Length /\ Stretch(head, Length)' = Stretch(head, Length) /\ Masked(head)' = m
  BY <1>1 DEF Length, Stretch, Minus, Masked
<1>5. ~freed
  BY <1>1 DEF IInv, ReceiverInv
<1>6. m \in Stretch(head, Length)
  <2>1. Length \in 1..Capacity
    BY <1>2, IndexFacts
  <2> QED
    BY <2>1, IndexFacts, StretchShrinks
<1>7. slots[m] \in Values
  BY <1>1, <1>3, <1>5, <1>6 DEF IInv, SlotInv, TypeOK, Holds
<1>8. TypeOK'
  BY <1>1, <1>3, <1>7 DEF IInv, TypeOK
<1>9. SenderInv' /\ ReceiverInv'
  BY <1>1, <1>2, <1>3, <1>4, <1>5, <1>7 DEF IInv, SenderInv, ReceiverInv
<1>10. s_pc = "publish" => Masked(tail) # m
  <2>1. ASSUME s_pc = "publish" PROVE Masked(tail) \notin Stretch(head, Length)
    <3>1. Length \in 0..(Capacity - 1)
      BY <2>1, IndexFacts DEF IInv, SenderInv
    <3>2. Masked(head + Length) \notin Stretch(head, Length)
      BY <3>1, IndexFacts, StretchGrows
    <3> QED
      BY <3>2, IndexFacts
  <2> QED
    BY <1>6, <2>1
<1>11. ASSUME NEW i \in 0..(Capacity - 1) PROVE slots'[i] # NoValue <=> Holds(i)'
  <2>1. Masked(tail)' = Masked(tail)
    BY <1>1 DEF Masked
  <2>2. CASE i = m
    <3>1. slots'[i] = NoValue
      BY <1>3, <2>2 DEF IInv, TypeOK
    <3> QED
      BY <1>1, <1>4, <1>10, <2>1, <2>2, <3>1 DEF Holds
  <2>3. CASE i # m
    <3>1. slots'[i] = slots[i]
      BY <1>3, <2>3 DEF IInv, TypeOK
    <3>2. slots[i] # NoValue <=> Holds(i)
      BY <1>5 DEF IInv, SlotInv
    <3>3. Holds(i) <=> Holds(i)'
      BY <1>1, <1>4, <2>1, <2>3 DEF Holds
    <3> QED
      BY <3>1, <3>2, <3>3
  <2> QED
    BY <2>2, <2>3
<1>12. SlotInv'
  BY <1>1, <1>4, <1>5, <1>11 DEF IInv, SlotInv
<1>13. WrittenInv'
  <2>1. Masked(tail)' = Masked(tail) /\ Masked(tail) \in 0..(Capacity - 1)
    BY <1>1, IndexFacts DEF Masked
  <2> QED
    BY <1>1, <1>3, <1>10, <2>1 DEF IInv, TypeOK, WrittenInv
<1> QED
  BY <1>3, <1>8, <1>9, <1>12, <1>13 DEF IInv

\* Releasing it takes it off the queue.
LEMMA ReleaseIInv ==
  ASSUME IInv, RecvReleasesSlot
  PROVE  IInv' /\ Length' = Length - 1 /\ Length > 0 /\ head' = Plus1(head)
<1>1. /\ r_pc = "release" /\ r_pc' = "idle" /\ r_head' = 0 /\ r_blocking' = FALSE
      /\ r_value' = NoValue /\ answer' = "Value" /\ slots' = slots /\ tail' = tail
      /\ sender_closed' = sender_closed /\ receiver_closed' = receiver_closed /\ freed' = freed
      /\ s_pc' = s_pc /\ s_tail' = s_tail /\ s_value' = s_value /\ s_blocking' = s_blocking
  BY DEF RecvReleasesSlot, sender
<1>2. r_head = head /\ Length > 0
  BY <1>1 DEF IInv, ReceiverInv
<1>3. head' = Plus1(head)
  BY <1>2 DEF RecvReleasesSlot
<1>4. Length' = Length - 1
  BY <1>1, <1>2, <1>3, IndexFacts, MinusOfNext DEF Length, Minus
<1>5. Length \in 1..Capacity /\ Length - 1 \in 0..Capacity
  BY <1>2, IndexFacts
<1>6. Stretch(head, Length)' = Stretch(head, Length) \ {Masked(head)}
  <2>1. Stretch(head + 1, Length - 1) = Stretch(head, Length) \ {Masked(head)}
    BY <1>5, IndexFacts, StretchShrinks
  <2>2. Stretch(Plus1(head), Length - 1) = Stretch(head + 1, Length - 1)
    BY <1>5, IndexFacts, StretchOfNext
  <2>3. Stretch(head, Length)' = Stretch(Plus1(head), Length - 1)
    BY <1>3, <1>4 DEF Stretch, Masked
  <2> QED
    BY <2>1, <2>2, <2>3
<1>7. ~freed
  BY <1>1 DEF IInv, ReceiverInv
<1>8. TypeOK'
  <2>1. head' \in 0..(Word - 1) /\ 0 \in 0..(Word - 1)
    BY <1>3, IndexFacts, Plus1Is, WordIsInteger DEF Indices
  <2> QED
    BY <1>1, <2>1 DEF IInv, TypeOK
<1>9. SenderInv'
  <2>1. Length < Capacity => Length' < Capacity
    BY <1>4, IndexFacts
  <2> QED
    BY <1>1, <2>1 DEF IInv, SenderInv
<1>10. ReceiverInv'
  BY <1>1, <1>7 DEF IInv, ReceiverInv
<1>11. s_pc = "publish" => Masked(tail) # Masked(head)
  <2>1. ASSUME s_pc = "publish" PROVE Masked(tail) \notin Stretch(head, Length)
    <3>1. Length \in 0..(Capacity - 1)
      BY <2>1, IndexFacts DEF IInv, SenderInv
    <3>2. Masked(head + Length) \notin Stretch(head, Length)
      BY <3>1, IndexFacts, StretchGrows
    <3> QED
      BY <3>2, IndexFacts
  <2>2. Masked(head) \in Stretch(head, Length)
    BY <1>5, IndexFacts, StretchShrinks
  <2> QED
    BY <2>1, <2>2
<1>12. ASSUME NEW i \in 0..(Capacity - 1) PROVE slots'[i] # NoValue <=> Holds(i)'
  <2>1. Masked(tail)' = Masked(tail)
    BY <1>1 DEF Masked
  <2>2. slots[i] # NoValue <=> Holds(i)
    BY <1>7 DEF IInv, SlotInv
  <2>3. Holds(i) <=> Holds(i)'
    BY <1>1, <1>6, <1>11, <2>1 DEF Holds
  <2> QED
    BY <1>1, <2>2, <2>3
<1>13. SlotInv'
  <2>1. Length' <= Capacity
    BY <1>4, <1>5, IndexFacts
  <2> QED
    BY <1>1, <1>7, <1>12, <2>1 DEF SlotInv
<1>14. WrittenInv'
  BY <1>1 DEF IInv, WrittenInv, Masked
<1> QED
  BY <1>2, <1>3, <1>4, <1>8, <1>9, <1>10, <1>13, <1>14 DEF IInv

\* Drop empties every published slot unless tail wrapped and head did not.
LEMMA DropIInv ==
  ASSUME IInv, InnerDrop
  PROVE  IInv'
<1>1. /\ s_pc = "gone" /\ r_pc = "gone" /\ ~freed /\ freed' = TRUE
      /\ head' = head /\ tail' = tail
      /\ sender_closed' = sender_closed /\ receiver_closed' = receiver_closed
      /\ s_pc' = s_pc /\ s_tail' = s_tail /\ s_value' = s_value /\ s_blocking' = s_blocking
      /\ r_pc' = r_pc /\ r_head' = r_head /\ r_value' = r_value /\ answer' = answer
      /\ r_blocking' = r_blocking
  BY DEF InnerDrop, sender, receiver
<1>2. Length' = Length
  BY <1>1 DEF Length, Minus
<1>3. DOMAIN slots = 0..(Capacity - 1)
  BY DEF IInv, TypeOK
<1>4. TypeOK'
  <2>1. slots' \in [0..(Capacity - 1) -> Values \cup {NoValue}]
    BY <1>3 DEF InnerDrop, IInv, TypeOK
  <2> QED
    BY <1>1, <2>1 DEF IInv, TypeOK
<1>5. SenderInv' /\ ReceiverInv'
  BY <1>1, <1>2 DEF IInv, SenderInv, ReceiverInv
<1>6. ASSUME NEW i \in 0..(Capacity - 1), slots'[i] # NoValue PROVE tail < head
  <2> SUFFICES ASSUME ~(tail < head) PROVE FALSE
    OBVIOUS
  <2>1. slots[i] # NoValue /\ ~\E idx \in head..(tail - 1) : Masked(idx) = i
    BY <1>3, <1>6 DEF InnerDrop
  <2>2. i \in Stretch(head, Length)
    BY <1>1, <2>1 DEF IInv, SlotInv, Holds
  <2>3. PICK k \in 0..(Length - 1) : Masked(head + k) = i
    BY <2>2 DEF Stretch
  <2>4. Length = tail - head
    BY IndexFacts, MinusIs DEF Length
  <2>5. head + k \in head..(tail - 1)
    BY <2>4, IndexFacts
  <2> QED
    BY <2>1, <2>3, <2>5
<1>7. SlotInv'
  BY <1>1, <1>2, <1>6 DEF IInv, SlotInv
<1> QED
  BY <1>1, <1>4, <1>5, <1>7 DEF IInv, WrittenInv

LEMMA StutterIInv ==
  ASSUME IInv, UNCHANGED vars
  PROVE  IInv'
<1>1. TypeOK'
  BY DEF vars, shared, sender, receiver, IInv, TypeOK
<1>2. SlotInv' /\ Length' = Length
  BY SameSlots DEF vars, shared, sender, receiver, IInv
<1>3. SenderInv' /\ ReceiverInv'
  BY <1>2 DEF vars, shared, sender, receiver, IInv, SenderInv, ReceiverInv
<1>4. WrittenInv'
  BY DEF vars, shared, sender, IInv, WrittenInv, Masked
<1> QED
  BY <1>1, <1>2, <1>3, <1>4 DEF IInv

LEMMA NextIInv == IInv /\ [Next]_vars => IInv'
<1> SUFFICES ASSUME IInv, [Next]_vars PROVE IInv'
  OBVIOUS
<1>1. CASE SendWritesSlot
  BY <1>1, WriteIInv
<1>2. CASE SendPublishes
  BY <1>2, PublishIInv
<1>3. CASE RecvReadsSlot
  BY <1>3, ReadIInv
<1>4. CASE RecvReleasesSlot
  BY <1>4, ReleaseIInv
<1>5. CASE InnerDrop
  BY <1>5, DropIInv
<1>6. CASE UNCHANGED vars
  BY <1>6, StutterIInv
<1>7. CASE \/ \E v \in Values, blocking \in BOOLEAN : SendCall(v, blocking)
           \/ \E gone \in BOOLEAN : SenderCloses(gone)
           \/ SendLoadsSenderClosed \/ SendLoadsReceiverClosed \/ SendChecksFull \/ SendRetries
  BY <1>7, SenderReadsIInv
<1>8. CASE \/ \E blocking \in BOOLEAN : RecvCall(blocking)
           \/ \E gone \in BOOLEAN : ReceiverCloses(gone)
           \/ RecvLoadsTail \/ RecvLoadsSenderClosed \/ RecvRetries
           \/ IsClosedCall \/ IsClosedLoadsSender \/ IsClosedLoadsLen
  BY <1>8, ReceiverReadsIInv
<1> QED
  BY <1>1, <1>2, <1>3, <1>4, <1>5, <1>6, <1>7, <1>8 DEF Next, SenderStep, ReceiverStep, Done

LEMMA SpscIInv == Spec => []IInv
  BY InitIInv, NextIInv, PTL DEF Spec

(***************************************************************************)
(* The results                                                             *)
(***************************************************************************)
\* The indices stay words, the ring keeps its size, and every local its type.
THEOREM SpscTypeOK == Spec => []TypeOK
<1>1. IInv => TypeOK
  BY DEF IInv
<1> QED
  BY <1>1, SpscIInv, PTL

\* The SAFETY comments of try_send, try_recv and drop, for every capacity and width: no slot
\* is written while it is read, none is read uninitialized or overwritten while it holds an
\* element, and drop leaves an element behind only when tail wrapped and head did not.
THEOREM SpscSlotsAreExact == Spec => []SlotsAreExact
<1>1. ASSUME IInv PROVE SlotsAreExact
  <2>1. DOMAIN slots = 0..(Capacity - 1)
    BY <1>1 DEF IInv, TypeOK
  <2>2. ASSUME s_pc = "write", r_pc = "read" PROVE Masked(s_tail) # Masked(r_head)
    <3>1. s_tail = tail /\ r_head = head /\ Length \in 1..(Capacity - 1)
      BY <1>1, <2>2, IndexFacts DEF IInv, SenderInv, ReceiverInv
    <3>2. Masked(head + Length) \notin Stretch(head, Length)
      BY <1>1, <3>1, IndexFacts, StretchGrows
    <3>3. Masked(head) \in Stretch(head, Length)
      <4>1. Length \in 1..Capacity
        BY <1>1, <3>1, IndexFacts
      <4> QED
        BY <1>1, <4>1, IndexFacts, StretchShrinks
    <3> QED
      BY <1>1, <3>1, <3>2, <3>3, IndexFacts
  <2>3. \A k \in 0..(Length - 1) : Masked((head + k) % Word) = Masked(head + k)
    <3>1. \A k \in 0..(Length - 1) : k \in 0..(Capacity - 1)
      BY <1>1, IndexFacts
    <3> QED
      BY <1>1, <3>1, IndexFacts, MaskOfOffset
  <2>4. ASSUME NEW i \in 0..(Capacity - 1)
        PROVE  (\E k \in 0..(Length - 1) : Masked((head + k) % Word) = i)
                  <=> i \in Stretch(head, Length)
    BY <2>3 DEF Stretch
  <2>5. ASSUME NEW i \in 0..(Capacity - 1), ~freed
        PROVE  slots[i] # NoValue <=>
                  \/ /\ \E k \in 0..(Length - 1) : Masked((head + k) % Word) = i
                     /\ ~(r_pc = "release" /\ Masked(head) = i)
                  \/ s_pc = "publish" /\ Masked(tail) = i
    BY <1>1, <2>4, <2>5 DEF IInv, SlotInv, Holds
  <2>6. ASSUME NEW i \in 0..(Capacity - 1), freed
        PROVE  slots[i] # NoValue => tail < head
    BY <1>1, <2>6 DEF IInv, SlotInv
  <2> QED
    BY <2>1, <2>2, <2>5, <2>6 DEF SlotsAreExact, Length
<1> QED
  BY <1>1, SpscIInv, PTL

(***************************************************************************)
(* The ring implements the bounded FIFO                                    *)
(***************************************************************************)
Elements == Values \cup {NoValue}

\* The k-th element of the queue is in the k-th slot from head, or in the receiver's hands.
LEMMA ContentsIs ==
  ASSUME IInv, ~freed
  PROVE  /\ Contents \in Seq(Elements) /\ Len(Contents) = Length
         /\ \A k \in 1..Length :
               Contents[k] = IF k = 1 /\ r_pc = "release" THEN r_value
                             ELSE slots[Masked(head + (k - 1))]
<1> DEFINE At(k) == IF k = 1 /\ r_pc = "release" THEN r_value ELSE slots[Masked(head + (k - 1))]
<1>1. Length \in Nat /\ Length <= Capacity /\ Capacity \in Nat /\ head \in Nat /\ head \in Indices
  BY IndexFacts
<1>2. ASSUME NEW k \in 1..Length
      PROVE  /\ Masked((head + k - 1) % Word) = Masked(head + (k - 1))
             /\ Masked(head + (k - 1)) \in 0..(Capacity - 1)
  <2>1. k - 1 \in 0..(Capacity - 1) /\ head + k - 1 = head + (k - 1) /\ head + (k - 1) \in Nat
    BY <1>1
  <2> QED
    BY <1>1, <2>1, MaskOfOffset, MaskedType
<1>3. Contents = [k \in 1..Length |-> At(k)]
  BY <1>2 DEF Contents, Length
<1>4. \A k \in 1..Length : At(k) \in Elements
  BY <1>2 DEF IInv, TypeOK, Elements
<1>5. Contents \in [1..Length -> Elements] /\ \A k \in 1..Length : Contents[k] = At(k)
  BY <1>3, <1>4
<1>6. Contents \in Seq(Elements)
  BY <1>1, <1>5, SeqDef
<1>7. Len(Contents) = Length
  <2>1. DOMAIN Contents = 1..Length /\ DOMAIN Contents = 1..Len(Contents) /\ Len(Contents) \in Nat
    BY <1>5, <1>6, LenProperties
  <2> QED
    BY <1>1, <2>1
<1> QED
  BY <1>5, <1>6, <1>7

LEMMA EmptyContents ==
  ASSUME IInv, ~freed, Length = 0
  PROVE  Contents = <<>>
<1>1. Contents \in Seq(Elements) /\ Len(Contents) = 0
  BY ContentsIs
<1> QED
  BY <1>1, EmptySeq

\* is_closed answers that no more values can arrive only when none is queued and none is
\* being published, although it loads the flags and the length in separate steps.
THEOREM SpscNoMoreIsFinal == Spec => []NoMoreIsFinal
<1>1. ASSUME IInv PROVE NoMoreIsFinal
  <2> SUFFICES ASSUME answer = "NoMore" PROVE Contents = <<>> /\ s_pc # "publish"
    BY DEF NoMoreIsFinal
  <2>1. tail = head /\ s_pc # "publish"
    BY <1>1 DEF IInv, SenderInv, ReceiverInv
  <2>2. CASE freed
    BY <2>1, <2>2 DEF Contents
  <2>3. CASE ~freed
    <3>1. Length = 0
      BY <1>1, <2>1, IndexFacts, MinusZero DEF Length
    <3> QED
      BY <1>1, <2>1, <2>3, <3>1, EmptyContents
  <2> QED
    BY <2>2, <2>3
<1> QED
  BY <1>1, SpscIInv, PTL

\* Steps that leave the queue alone: same length, and the same elements.
LEMMA SameContents ==
  ASSUME IInv, IInv', ~freed, ~freed', Length' = Length, head' = head,
         \A k \in 1..Length :
            (IF k = 1 /\ r_pc' = "release" THEN r_value' ELSE slots'[Masked(head + (k - 1))])
              = (IF k = 1 /\ r_pc = "release" THEN r_value ELSE slots[Masked(head + (k - 1))])
  PROVE  Contents' = Contents
<1>1. /\ Contents \in Seq(Elements) /\ Len(Contents) = Length
      /\ \A k \in 1..Length :
            Contents[k] = IF k = 1 /\ r_pc = "release" THEN r_value
                          ELSE slots[Masked(head + (k - 1))]
  BY ContentsIs
<1>2. (IInv /\ ~freed =>
         /\ Contents \in Seq(Elements) /\ Len(Contents) = Length
         /\ \A k \in 1..Length :
               Contents[k] = IF k = 1 /\ r_pc = "release" THEN r_value
                             ELSE slots[Masked(head + (k - 1))])'
  BY ContentsIs, PTL
<1>3. /\ Contents' \in Seq(Elements) /\ Len(Contents') = Length
      /\ \A k \in 1..Length : Contents'[k] = Contents[k]
  BY <1>1, <1>2 DEF Elements, Masked
<1> QED
  BY <1>1, <1>3, SeqEqual

\* The facts of ContentsIs about the state after a step.
LEMMA ContentsIsNext ==
  ASSUME IInv', ~freed'
  PROVE  /\ Contents' \in Seq(Elements) /\ Len(Contents') = Length'
         /\ \A k \in 1..Length' :
               Contents'[k] = IF k = 1 /\ r_pc' = "release" THEN r_value'
                              ELSE slots'[Masked(head' + (k - 1))]
<1>1. (IInv /\ ~freed =>
         /\ Contents \in Seq(Elements) /\ Len(Contents) = Length
         /\ \A k \in 1..Length :
               Contents[k] = IF k = 1 /\ r_pc = "release" THEN r_value
                             ELSE slots[Masked(head + (k - 1))])'
  BY ContentsIs, PTL
<1> QED
  BY <1>1 DEF Elements, Masked

\* The steps that are none of publish, release, close and drop do not change the queue.
LEMMA QuietSteps ==
  ASSUME IInv, IInv', head' = head, tail' = tail, slots' = slots, freed' = freed,
         r_value' = r_value, r_pc' = "release" <=> r_pc = "release"
  PROVE  Contents' = Contents
  BY DEF Contents, Minus, Masked

LEMMA WriteRefines ==
  ASSUME IInv, SendWritesSlot
  PROVE  Contents' = Contents
<1>1. IInv'
  BY WriteIInv
<1>2. /\ s_pc = "write" /\ head' = head /\ tail' = tail /\ freed' = freed /\ r_pc' = r_pc
      /\ r_value' = r_value
  BY DEF SendWritesSlot, receiver
<1>3. ~freed /\ Length' = Length /\ s_tail = tail /\ Length < Capacity
  BY <1>2 DEF IInv, ReceiverInv, SenderInv, Length, Minus
<1>4. ASSUME NEW k \in 1..Length
      PROVE  slots'[Masked(head + (k - 1))] = slots[Masked(head + (k - 1))]
  <2>1. /\ Length \in 0..(Capacity - 1) /\ head \in Nat /\ k - 1 \in 0..(Length - 1)
        /\ head + (k - 1) \in Nat
    BY <1>3, IndexFacts
  <2>2. Masked(head + (k - 1)) \in Stretch(head, Length)
    BY <2>1 DEF Stretch
  <2>3. Masked(tail) \notin Stretch(head, Length)
    BY <2>1, IndexFacts, StretchGrows
  <2>4. Masked(head + (k - 1)) \in 0..(Capacity - 1)
    BY <2>1, MaskedType
  <2> QED
    BY <1>3, <2>2, <2>3, <2>4 DEF SendWritesSlot, IInv, TypeOK
<1> QED
  BY <1>1, <1>2, <1>3, <1>4, SameContents

LEMMA ReadRefines ==
  ASSUME IInv, RecvReadsSlot
  PROVE  Contents' = Contents
<1>1. IInv' /\ r_value' = slots[Masked(head)]
  BY ReadIInv
<1>2. /\ r_pc = "read" /\ r_pc' = "release" /\ head' = head /\ tail' = tail /\ freed' = freed
  BY DEF RecvReadsSlot
<1>3. ~freed /\ Length' = Length /\ r_head = head
  BY <1>2 DEF IInv, ReceiverInv, Length, Minus
<1>4. ASSUME NEW k \in 1..Length
      PROVE  (IF k = 1 THEN r_value' ELSE slots'[Masked(head + (k - 1))])
                = slots[Masked(head + (k - 1))]
  <2>1. /\ Length \in 0..Capacity /\ Capacity \in Nat /\ head \in Nat
        /\ k - 1 \in 0..(Capacity - 1) /\ 0 \in 0..(Capacity - 1) /\ head + (k - 1) \in Nat
        /\ head + 0 = head
    BY IndexFacts
  <2>2. CASE k = 1
    BY <1>1, <2>1, <2>2
  <2>3. CASE k # 1
    <3>1. Masked(head + (k - 1)) # Masked(head)
      <4>1. k - 1 # 0
        BY <2>3
      <4> QED
        BY <2>1, <4>1, SameSlot
    <3>2. Masked(head + (k - 1)) \in 0..(Capacity - 1)
      BY <2>1, MaskedType
    <3> QED
      BY <1>3, <2>3, <3>1, <3>2 DEF RecvReadsSlot, IInv, TypeOK
  <2> QED
    BY <2>2, <2>3
<1> QED
  BY <1>1, <1>2, <1>3, <1>4, SameContents

LEMMA PublishRefines ==
  ASSUME IInv, SendPublishes
  PROVE  Fifo!Send(s_value) /\ s_value \in Values
<1>1. IInv' /\ Length' = Length + 1 /\ Length < Capacity /\ ~sender_closed
  BY PublishIInv
<1>2. /\ s_pc = "publish" /\ head' = head /\ slots' = slots /\ freed' = freed /\ r_pc' = r_pc
      /\ r_value' = r_value /\ UNCHANGED <<sender_closed, receiver_closed>>
  BY DEF SendPublishes, receiver
<1>3. ~freed /\ s_value \in Values /\ slots[Masked(tail)] = s_value
  BY <1>2 DEF IInv, ReceiverInv, SenderInv, WrittenInv
<1>4. Length \in Nat /\ Masked(head + Length) = Masked(tail)
  BY IndexFacts
<1>5. Contents \in Seq(Elements) /\ Len(Contents) = Length /\ s_value \in Elements
  BY <1>3, ContentsIs DEF Elements
<1>6. /\ Contents' \in Seq(Elements) /\ Len(Contents') = Length + 1
      /\ \A k \in 1..(Length + 1) :
            Contents'[k] = IF k = 1 /\ r_pc = "release" THEN r_value
                           ELSE slots[Masked(head + (k - 1))]
  BY <1>1, <1>2, <1>3, ContentsIsNext
<1> DEFINE new == Append(Contents, s_value)
<1>7. /\ new \in Seq(Elements) /\ Len(new) = Length + 1
      /\ \A k \in 1..Length : new[k] = Contents[k]
      /\ new[Length + 1] = s_value
  BY <1>5, AppendProperties
<1>8. ASSUME NEW k \in 1..(Length + 1) PROVE Contents'[k] = new[k]
  <2>1. CASE k = Length + 1
    <3>1. ~(k = 1 /\ r_pc = "release")
      BY <1>4, <2>1 DEF IInv, ReceiverInv
    <3>2. k - 1 = Length
      BY <1>4, <2>1
    <3> QED
      BY <1>3, <1>4, <1>6, <1>7, <2>1, <3>1, <3>2
  <2>2. CASE k # Length + 1
    <3>1. k \in 1..Length
      BY <1>4, <2>2
    <3> QED
      BY <1>3, <1>6, <1>7, <3>1, ContentsIs
  <2> QED
    BY <2>1, <2>2
<1>9. Contents' = new
  BY <1>6, <1>7, <1>8, SeqEqual
<1> QED
  BY <1>1, <1>2, <1>3, <1>5, <1>9 DEF Fifo!Send

LEMMA ReleaseRefines ==
  ASSUME IInv, RecvReleasesSlot
  PROVE  Fifo!Recv
<1>1. IInv' /\ Length' = Length - 1 /\ Length > 0 /\ head' = Plus1(head)
  BY ReleaseIInv
<1>2. /\ r_pc = "release" /\ r_pc' = "idle" /\ slots' = slots /\ freed' = freed
      /\ UNCHANGED <<sender_closed, receiver_closed>>
  BY DEF RecvReleasesSlot
<1>3. ~freed
  BY <1>2 DEF IInv, ReceiverInv
<1>4. /\ Length \in Nat /\ Length <= Capacity /\ Capacity \in Nat /\ head \in Indices
      /\ head \in Nat
  BY IndexFacts
<1>5. /\ Contents \in Seq(Elements) /\ Len(Contents) = Length
      /\ \A k \in 1..Length :
            Contents[k] = IF k = 1 /\ r_pc = "release" THEN r_value
                          ELSE slots[Masked(head + (k - 1))]
  BY <1>3, ContentsIs
<1>6. /\ Contents' \in Seq(Elements) /\ Len(Contents') = Length - 1
      /\ \A k \in 1..(Length - 1) : Contents'[k] = slots[Masked(Plus1(head) + (k - 1))]
  BY <1>1, <1>2, <1>3, ContentsIsNext
<1>7. Contents # <<>>
  BY <1>1, <1>5, EmptySeq
<1>8. /\ Tail(Contents) \in Seq(Elements) /\ Len(Tail(Contents)) = Length - 1
      /\ \A k \in 1..(Length - 1) : Tail(Contents)[k] = Contents[k + 1]
  BY <1>5, <1>7, HeadTailProperties
<1>9. ASSUME NEW k \in 1..(Length - 1) PROVE Contents'[k] = Tail(Contents)[k]
  <2>1. /\ k - 1 \in 0..(Capacity - 1) /\ k + 1 \in 1..Length /\ k + 1 # 1
        /\ (head + 1) + (k - 1) = head + (k + 1 - 1)
    BY <1>4
  <2>2. Masked(Plus1(head) + (k - 1)) = Masked((head + 1) + (k - 1))
    BY <1>4, <2>1, MaskOfNext
  <2>3. Contents[k + 1] = slots[Masked(head + (k + 1 - 1))]
    BY <1>5, <2>1
  <2> QED
    BY <1>6, <1>8, <2>1, <2>2, <2>3
<1>10. Contents' = Tail(Contents)
  BY <1>6, <1>8, <1>9, SeqEqual
<1> QED
  BY <1>2, <1>7, <1>10 DEF Fifo!Recv

LEMMA InitRefines == Init => Fifo!Init
<1> SUFFICES ASSUME Init PROVE Fifo!Init
  OBVIOUS
<1>1. IInv /\ ~freed /\ tail = head
  BY InitIInv DEF Init
<1>2. Length = 0
  BY <1>1, IndexFacts, MinusZero DEF Length
<1>3. Contents = <<>>
  BY <1>1, <1>2, EmptyContents
<1> QED
  BY <1>3 DEF Init, Fifo!Init

LEMMA NextRefines == IInv /\ [Next]_vars => [Fifo!Next]_Fifo!fifoVars
<1> SUFFICES ASSUME IInv, [Next]_vars PROVE [Fifo!Next]_Fifo!fifoVars
  OBVIOUS
<1>0. IInv'
  BY NextIInv
<1>1. CASE SendWritesSlot
  BY <1>1, WriteRefines DEF SendWritesSlot, Fifo!fifoVars
<1>2. CASE SendPublishes
  BY <1>2, PublishRefines DEF Fifo!Next
<1>3. CASE RecvReadsSlot
  BY <1>3, ReadRefines DEF RecvReadsSlot, Fifo!fifoVars
<1>4. CASE RecvReleasesSlot
  BY <1>4, ReleaseRefines DEF Fifo!Next
<1>5. CASE InnerDrop
  <2>1. sender_closed /\ receiver_closed /\ UNCHANGED <<sender_closed, receiver_closed>>
    BY <1>5 DEF InnerDrop, IInv, SenderInv, ReceiverInv
  <2>2. Contents' = <<>>
    BY <1>5 DEF InnerDrop, Contents
  <2> QED
    BY <2>1, <2>2 DEF Fifo!Next, Fifo!Dispose
<1>6. CASE UNCHANGED vars
  <2>1. Contents' = Contents
    BY <1>0, <1>6, QuietSteps DEF vars, shared, receiver
  <2> QED
    BY <1>6, <2>1 DEF vars, shared, Fifo!fifoVars
<1>7. ASSUME NEW gone \in BOOLEAN, SenderCloses(gone) PROVE Fifo!Next
  <2>1. Contents' = Contents
    BY <1>0, <1>7, QuietSteps DEF SenderCloses, receiver
  <2> QED
    BY <1>7, <2>1 DEF SenderCloses, Fifo!Next, Fifo!CloseSender
<1>8. ASSUME NEW gone \in BOOLEAN, ReceiverCloses(gone) PROVE Fifo!Next
  <2>1. Contents' = Contents
    BY <1>0, <1>8, QuietSteps DEF ReceiverCloses
  <2> QED
    BY <1>8, <2>1 DEF ReceiverCloses, Fifo!Next, Fifo!CloseReceiver
<1>9. CASE \/ \E v \in Values, blocking \in BOOLEAN : SendCall(v, blocking)
           \/ SendLoadsSenderClosed \/ SendLoadsReceiverClosed \/ SendChecksFull \/ SendRetries
  <2>1. /\ UNCHANGED <<head, tail, slots, freed, r_value, r_pc>>
        /\ UNCHANGED <<sender_closed, receiver_closed>>
    BY <1>9 DEF SendCall, SendLoadsSenderClosed, SendLoadsReceiverClosed, SendChecksFull,
                SendRetries, shared, receiver
  <2>2. Contents' = Contents
    BY <1>0, <2>1, QuietSteps
  <2> QED
    BY <2>1, <2>2 DEF Fifo!fifoVars
<1>10. CASE \/ \E blocking \in BOOLEAN : RecvCall(blocking)
            \/ RecvLoadsTail \/ RecvLoadsSenderClosed \/ RecvRetries
            \/ IsClosedCall \/ IsClosedLoadsSender \/ IsClosedLoadsLen
  <2>1. /\ UNCHANGED <<head, tail, slots, freed, r_value>>
        /\ UNCHANGED <<sender_closed, receiver_closed>>
        /\ r_pc # "release" /\ r_pc' # "release"
    BY <1>10 DEF RecvCall, RecvLoadsTail, RecvLoadsSenderClosed, RecvRetries, IsClosedCall,
                 IsClosedLoadsSender, IsClosedLoadsLen, shared
  <2>2. Contents' = Contents
    BY <1>0, <2>1, QuietSteps
  <2> QED
    BY <2>1, <2>2 DEF Fifo!fifoVars
<1> QED
  BY <1>1, <1>2, <1>3, <1>4, <1>5, <1>6, <1>7, <1>8, <1>9, <1>10
     DEF Next, SenderStep, ReceiverStep, Done

\* Every behaviour of the ring, with its wrapping indices and its reads and writes in two
\* steps, is a behaviour of a FIFO that never holds more than the rounded-up capacity.
THEOREM SpscImplementsFifo == Spec => ImplementsFifo
<1>1. Spec => Fifo!Init /\ [][Fifo!Next]_Fifo!fifoVars
  BY InitRefines, NextRefines, SpscIInv, PTL DEF Spec
<1> QED
  BY <1>1 DEF ImplementsFifo, Fifo!Spec
=============================================================================
