-------------------------- MODULE StatusListProofs --------------------------
(***************************************************************************)
(* For every size and every width, the packed bytes of StatusList are a    *)
(* table of independent entries.                                           *)
(***************************************************************************)
EXTENDS StatusList, TLAPS

USE DEF BitsPerStatus

(* An entry lies within one byte. *)
LEMMA Slot ==
  ASSUME NEW w \in BitsPerStatus, NEW i \in Nat
  PROVE  /\ ByteIndex(i, w) \in Nat
         /\ BitOffset(i, w) \in Nat
         /\ BitOffset(i, w) + w <= 8
<1>1. CASE w = 1 BY <1>1, SMT DEF ByteIndex, BitOffset
<1>2. CASE w = 2 BY <1>2, SMT DEF ByteIndex, BitOffset
<1>3. CASE w = 4 BY <1>3, SMT DEF ByteIndex, BitOffset
<1>4. CASE w = 8 BY <1>4, SMT DEF ByteIndex, BitOffset
<1> QED BY <1>1, <1>2, <1>3, <1>4

(* The bytes of a list of n entries include those of its entries. *)
LEMMA SlotAllocated ==
  ASSUME NEW w \in BitsPerStatus, NEW n \in Nat, NEW i \in 0..(n - 1)
  PROVE  ByteIndex(i, w) \in 0..(NumBytes(n, w) - 1)
<1>1. CASE w = 1 BY <1>1, SMT DEF ByteIndex, NumBytes
<1>2. CASE w = 2 BY <1>2, SMT DEF ByteIndex, NumBytes
<1>3. CASE w = 4 BY <1>3, SMT DEF ByteIndex, NumBytes
<1>4. CASE w = 8 BY <1>4, SMT DEF ByteIndex, NumBytes
<1> QED BY <1>1, <1>2, <1>3, <1>4

(* Two entries in one byte do not overlap. *)
LEMMA SlotsApart ==
  ASSUME NEW w \in BitsPerStatus, NEW i \in Nat, NEW j \in Nat,
         i # j, ByteIndex(i, w) = ByteIndex(j, w)
  PROVE  \/ BitOffset(i, w) + w <= BitOffset(j, w)
         \/ BitOffset(j, w) + w <= BitOffset(i, w)
<1>1. CASE w = 1 BY <1>1, SMT DEF ByteIndex, BitOffset
<1>2. CASE w = 2 BY <1>2, SMT DEF ByteIndex, BitOffset
<1>3. CASE w = 4 BY <1>3, SMT DEF ByteIndex, BitOffset
<1>4. CASE w = 8 BY <1>4, SMT DEF ByteIndex, BitOffset
<1> QED BY <1>1, <1>2, <1>3, <1>4

LEMMA NumBytesNat == ASSUME NEW w \in BitsPerStatus, NEW n \in Nat PROVE NumBytes(n, w) \in Nat
<1>1. CASE w = 1 BY <1>1, SMT DEF NumBytes
<1>2. CASE w = 2 BY <1>2, SMT DEF NumBytes
<1>3. CASE w = 4 BY <1>3, SMT DEF NumBytes
<1>4. CASE w = 8 BY <1>4, SMT DEF NumBytes
<1> QED BY <1>1, <1>2, <1>3, <1>4

-----------------------------------------------------------------------------
PackedBytes(m) == [0..(m - 1) -> SUBSET Bit]

(* SetStatus yields bytes again, as many as before. *)
LEMMA WithStatusTyped ==
  ASSUME NEW w \in BitsPerStatus, NEW m \in Nat,
         NEW i \in Nat, ByteIndex(i, w) \in 0..(m - 1),
         NEW bytes \in PackedBytes(m), NEW value \in SUBSET (0..(w - 1))
  PROVE  WithStatus(bytes, w, i, value) \in PackedBytes(m)
<1> DEFINE off == BitOffset(i, w)
           k == ByteIndex(i, w)
<1>1. off \in Nat /\ off + w <= 8 /\ w \in Nat
  <2>1. w \in Nat
    BY SMT
  <2>2. BitOffset(i, w) \in Nat /\ BitOffset(i, w) + w <= 8
    BY Slot
  <2> QED BY <2>1, <2>2
<1>2. \A b \in value : b + off \in Bit
  BY <1>1, SMT DEF Bit
<1>3. Shifted(value, off) \in SUBSET Bit
  BY <1>2 DEF Shifted
<1>4. (bytes[k] \ Shifted(0..(w - 1), off)) \cup Shifted(value, off) \in SUBSET Bit
  BY <1>3 DEF PackedBytes
<1> QED BY <1>4 DEF WithStatus, PackedBytes

(* SetStatus sets its entry and leaves every other as it was. *)
LEMMA SetThenGet ==
  ASSUME NEW w \in BitsPerStatus, NEW m \in Nat,
         NEW i \in Nat, ByteIndex(i, w) \in 0..(m - 1),
         NEW j \in Nat, ByteIndex(j, w) \in 0..(m - 1),
         NEW bytes \in PackedBytes(m), NEW value \in SUBSET (0..(w - 1))
  PROVE  StatusAt(WithStatus(bytes, w, i, value), w, j)
           = IF j = i THEN value ELSE StatusAt(bytes, w, j)
<1> DEFINE offI == BitOffset(i, w)
           offJ == BitOffset(j, w)
           kI == ByteIndex(i, w)
           kJ == ByteIndex(j, w)
           mask == Shifted(0..(w - 1), offI)
           new == WithStatus(bytes, w, i, value)
<1>1. offI \in Nat /\ offJ \in Nat /\ w \in Nat
  <2>1. w \in Nat
    BY SMT
  <2>2. BitOffset(i, w) \in Nat /\ BitOffset(j, w) \in Nat
    BY Slot
  <2> QED BY <2>1, <2>2
<1>2. new[kI] = (bytes[kI] \ mask) \cup Shifted(value, offI)
  BY DEF WithStatus, PackedBytes
<1>3. kJ # kI => new[kJ] = bytes[kJ]
  BY DEF WithStatus, PackedBytes
<1>4. CASE j = i
  <2>1. ASSUME NEW b \in 0..(w - 1)
        PROVE  b + offI \in new[kI] <=> b \in value
    <3>1. b + offI \in mask
      BY DEF Shifted
    <3>2. b + offI \in Shifted(value, offI) <=> b \in value
      <4>1. ASSUME NEW c \in value, b + offI = c + offI PROVE b = c
        BY <1>1, <4>1, SMT
      <4> QED BY <4>1 DEF Shifted
    <3> QED BY <1>2, <3>1, <3>2
  <2> QED BY <1>4, <2>1 DEF StatusAt
<1>5. CASE j # i /\ kJ = kI
  <2>1. offI + w <= offJ \/ offJ + w <= offI
    BY <1>5, SlotsApart
  <2>2. ASSUME NEW b \in 0..(w - 1), NEW c \in 0..(w - 1) PROVE b + offJ # c + offI
    BY <1>1, <2>1, SMT
  <2>3. ASSUME NEW b \in 0..(w - 1)
        PROVE  b + offJ \in new[kJ] <=> b + offJ \in bytes[kJ]
    <3>1. b + offJ \notin mask /\ b + offJ \notin Shifted(value, offI)
      BY <2>2 DEF Shifted
    <3> QED BY <1>2, <1>5, <3>1
  <2> QED BY <1>5, <2>3 DEF StatusAt
<1>6. CASE j # i /\ kJ # kI
  BY <1>3, <1>6 DEF StatusAt
<1> QED BY <1>4, <1>5, <1>6

-----------------------------------------------------------------------------
(***************************************************************************)
(* Type correctness of SetStatus, NewStatusList and NewStatusListToken:    *)
(* the byte slice always has the length that the entries need, so no index *)
(* in range is outside it.                                                 *)
(***************************************************************************)
THEOREM TypeCorrect == Spec => []TypeOK
<1>1. Init => TypeOK
  <2> SUFFICES ASSUME Init PROVE TypeOK OBVIOUS
  <2>1. NumBytes(size, bitsPerStatus) - 1 = -1
    BY SMT DEF Init, NumBytes
  <2> QED BY <2>1, SMT DEF Init, TypeOK, Bytes
<1>2. TypeOK /\ [Next]_vars => TypeOK'
  <2> SUFFICES ASSUME TypeOK, [Next]_vars PROVE TypeOK' OBVIOUS
  <2> USE DEF TypeOK
  <2>1. ASSUME NEW n \in Sizes, NEW w \in Widths, NewStatusList(n, w) PROVE TypeOK'
    <3>1. n \in Nat /\ w \in BitsPerStatus
      BY <2>1, ArgumentsAreIntegers, SMT DEF NewStatusList
    <3>2. bits' \in Bytes'
      BY <2>1 DEF NewStatusList, AllocatedBytes, Bytes, Bit
    <3> QED BY <2>1, <3>1, <3>2 DEF NewStatusList
  <2>2. ASSUME NEW i \in Indexes, NEW value \in Values, SetStatus(i, value) PROVE TypeOK'
    <3>1. i \in 0..(size - 1) /\ i \in Nat
      BY <2>2, ArgumentsAreIntegers, SMT DEF SetStatus, InRange
    <3> DEFINE m == NumBytes(size, bitsPerStatus)
    <3>2. m \in Nat /\ i \in Nat /\ ByteIndex(i, bitsPerStatus) \in 0..(m - 1)
      BY <3>1, NumBytesNat, SlotAllocated
    <3>3. bits' \in PackedBytes(m)
      BY <2>2, <3>2, WithStatusTyped DEF SetStatus, PackedBytes, Bytes
    <3> QED BY <2>2, <3>3 DEF SetStatus, PackedBytes, Bytes
  <2>3. ASSUME NewStatusListToken PROVE TypeOK'
    BY <2>3 DEF NewStatusListToken, Bytes
  <2>4. CASE UNCHANGED vars
    BY <2>4 DEF vars, Bytes
  <2> QED BY <2>1, <2>2, <2>3, <2>4 DEF Next
<1> QED BY <1>1, <1>2, PTL DEF Spec

(***************************************************************************)
(* A StatusList of any size and width implements a table of statuses and   *)
(* its published copies: SetStatus changes the entry it is given and no    *)
(* other, and no token that is out.                                        *)
(***************************************************************************)
THEOREM TableImplemented == Spec => PackedTable
<1>1. Init => Registry!Init
  <2> SUFFICES ASSUME Init PROVE Registry!Init OBVIOUS
  <2>1. 0..(size - 1) = {}
    BY SMT DEF Init
  <2>2. TableOf(bits, bitsPerStatus) = [i \in {} |-> StatusValid]
    BY <2>1 DEF TableOf
  <2>3. Published = <<>>
    BY DEF Init, Published
  <2> QED BY <2>2, <2>3 DEF Registry!Init
<1>2. TypeOK /\ TypeOK' /\ [Next]_vars => [Registry!Next]_Registry!vars
  <2> SUFFICES ASSUME TypeOK, TypeOK', [Next]_vars PROVE [Registry!Next]_Registry!vars OBVIOUS
  <2>1. ASSUME NEW n \in Sizes, NEW w \in Widths, NewStatusList(n, w) PROVE Registry!Create
    <3> DEFINE table == TableOf(bits, bitsPerStatus)
    <3>1. n \in Nat \ {0} /\ w \in BitsPerStatus /\ size' = n /\ bitsPerStatus' = w
      BY <2>1, ArgumentsAreIntegers, SMT DEF NewStatusList
    <3>2. DOMAIN table = {}
      BY <2>1, SMT DEF NewStatusList, TableOf
    <3>3. 0 \in DOMAIN table' /\ DOMAIN table' = 0..(n - 1)
      BY <3>1, SMT DEF TableOf
    <3>4. ASSUME NEW i \in 0..(n - 1) PROVE table'[i] = StatusValid
      <4>1. ByteIndex(i, w) \in 0..(NumBytes(n, w) - 1)
        BY <3>1, SlotAllocated
      <4>2. bits'[ByteIndex(i, w)] = {}
        BY <2>1, <4>1 DEF NewStatusList, AllocatedBytes
      <4>3. StatusAt(bits', w, i) = {}
        BY <4>2 DEF StatusAt
      <4> QED BY <3>1, <3>3, <4>3 DEF TableOf, StatusValid
    <3>5. table' = [i \in DOMAIN table' |-> StatusValid]
      BY <3>3, <3>4 DEF TableOf
    <3>6. tokens = <<>> /\ tokens' = <<>>
      BY <2>1 DEF NewStatusList, TypeOK
    <3>7. UNCHANGED Published
      BY <3>6 DEF Published
    <3> QED BY <3>2, <3>3, <3>5, <3>7 DEF Registry!Create
  <2>2. ASSUME NEW i \in Indexes, NEW value \in Values, SetStatus(i, value) PROVE Registry!Assign
    <3> DEFINE table == TableOf(bits, bitsPerStatus)
    <3>1. /\ i \in 0..(size - 1) /\ size' = size /\ bitsPerStatus' = bitsPerStatus
          /\ value \in SUBSET (0..(bitsPerStatus - 1)) /\ tokens' = tokens
          /\ bits' = WithStatus(bits, bitsPerStatus, i, value)
      BY <2>2, ArgumentsAreIntegers, SMT DEF SetStatus, InRange, TypeOK
    <3>2. /\ NumBytes(size, bitsPerStatus) \in Nat
          /\ bits \in PackedBytes(NumBytes(size, bitsPerStatus))
      BY NumBytesNat DEF TypeOK, Bytes, PackedBytes
    <3>3. ASSUME NEW j \in 0..(size - 1)
          PROVE  table'[j] = IF j = i THEN value ELSE table[j]
      <4>1. StatusAt(bits', bitsPerStatus, j) = IF j = i THEN value ELSE StatusAt(bits, bitsPerStatus, j)
        <5>1. i \in Nat /\ j \in Nat
          BY <3>1, SMT DEF TypeOK
        <5>2. /\ ByteIndex(i, bitsPerStatus) \in 0..(NumBytes(size, bitsPerStatus) - 1)
              /\ ByteIndex(j, bitsPerStatus) \in 0..(NumBytes(size, bitsPerStatus) - 1)
          BY <3>1, SlotAllocated DEF TypeOK
        <5> QED BY <3>1, <3>2, <5>1, <5>2, SetThenGet DEF TypeOK
      <4> QED BY <3>1, <4>1 DEF TableOf
    <3>4. DOMAIN table = 0..(size - 1) /\ DOMAIN table' = 0..(size - 1)
      BY <3>1 DEF TableOf
    <3>5. table' = [table EXCEPT ![i] = table'[i]]
      BY <3>1, <3>3, <3>4 DEF TableOf
    <3>6. value \in SUBSET Bit
      BY <3>1, SMT DEF Bit, TypeOK
    <3>7. UNCHANGED Published
      BY <3>1 DEF Published, TableOf
    <3>8. table'[i] \in SUBSET Bit
      BY <3>1, <3>3, <3>6
    <3> QED BY <3>1, <3>4, <3>5, <3>7, <3>8 DEF Registry!Assign
  <2>3. ASSUME NewStatusListToken PROVE Registry!Publish
    <3> DEFINE table == TableOf(bits, bitsPerStatus)
    <3>1. 0 \in DOMAIN table
      BY <2>3, SMT DEF NewStatusListToken, TypeOK, TableOf
    <3>2. UNCHANGED table
      BY <2>3 DEF NewStatusListToken, TableOf
    <3>3. Published' = Append(Published, table)
      <4> DEFINE token == [bits |-> bitsPerStatus, list |-> bits]
                 Rec == [bits : {bitsPerStatus}, list : Bytes]
      <4>1. tokens' = Append(tokens, token) /\ size' = size /\ bits' = bits
        BY <2>3 DEF NewStatusListToken
      <4>2. tokens \in Seq(Rec) /\ token \in Rec
        BY DEF TypeOK
      <4>3. /\ Len(tokens) \in Nat /\ DOMAIN tokens = 1..Len(tokens)
            /\ DOMAIN tokens' = 1..(Len(tokens) + 1)
            /\ \A k \in 1..Len(tokens) : tokens'[k] = tokens[k]
            /\ tokens'[Len(tokens) + 1] = token
        BY <4>1, <4>2
      <4> DEFINE T(t) == [i \in 0..(size - 1) |-> StatusAt(t.list, t.bits, i)]
                 len == Len(tokens)
      <4>4. Published' = [k \in 1..(len + 1) |-> T(tokens'[k])]
        BY <4>1, <4>3 DEF Published, TableOf
      <4>5. Published = [k \in 1..len |-> T(tokens[k])]
        BY <4>3 DEF Published, TableOf
      <4>6. table = T(token)
        BY DEF TableOf
      <4> HIDE DEF T, token, table
      <4>7. Append(Published, table) = [k \in 1..(len + 1) |-> IF k = len + 1 THEN table ELSE Published[k]]
        BY <4>3, <4>5, SMT
      <4>8. ASSUME NEW k \in 1..(len + 1)
            PROVE  T(tokens'[k]) = IF k = len + 1 THEN table ELSE Published[k]
        BY <4>3, <4>5, <4>6
      <4> QED BY <4>4, <4>7, <4>8
    <3> QED BY <3>1, <3>2, <3>3 DEF Registry!Publish
  <2>4. CASE UNCHANGED vars
    BY <2>4 DEF vars, Registry!vars, TableOf, Published
  <2> QED BY <2>1, <2>2, <2>3, <2>4 DEF Next, Registry!Next
<1> QED BY <1>1, <1>2, TypeCorrect, PTL DEF Spec, PackedTable, Registry!Spec

(***************************************************************************)
(* A status that was set is read back, over any value that was there.      *)
(***************************************************************************)
THEOREM WritesAreRead == Spec => []SetIsRead
<1>1. TypeOK => SetIsRead
  <2> SUFFICES ASSUME TypeOK, NEW i \in Indexes, NEW value \in Values,
                      InRange(i, size), value \subseteq 0..(bitsPerStatus - 1)
               PROVE  StatusAt(WithStatus(bits, bitsPerStatus, i, value), bitsPerStatus, i) = value
    BY DEF SetIsRead
  <2> DEFINE w == bitsPerStatus
             m == NumBytes(size, w)
  <2>1. i \in 0..(size - 1) /\ i \in Nat /\ size \in Nat /\ w \in BitsPerStatus
    BY ArgumentsAreIntegers, SMT DEF InRange, TypeOK
  <2>2. /\ m \in Nat /\ ByteIndex(i, w) \in 0..(m - 1)
        /\ bits \in PackedBytes(m) /\ value \in SUBSET (0..(w - 1))
    BY <2>1, NumBytesNat, SlotAllocated DEF TypeOK, Bytes, PackedBytes
  <2> QED BY <2>1, <2>2, SetThenGet
<1> QED BY <1>1, TypeCorrect, PTL

-----------------------------------------------------------------------------
(* The unused bits behind the last entry. *)
PaddingClear(bytes) ==
  \A j \in Nat : /\ j >= size
                 /\ ByteIndex(j, bitsPerStatus) \in 0..(NumBytes(size, bitsPerStatus) - 1)
                 => StatusAt(bytes, bitsPerStatus, j) = {}

AllPaddingClear ==
  PaddingClear(bits) /\ \A k \in 1..Len(tokens) : PaddingClear(tokens[k].list)

LEMMA PaddingStaysClear == Spec => []AllPaddingClear
<1>1. Init => AllPaddingClear
  <2> SUFFICES ASSUME Init PROVE AllPaddingClear OBVIOUS
  <2>1. 0..(NumBytes(size, bitsPerStatus) - 1) = {} /\ 1..Len(tokens) = {}
    BY SMT DEF Init, NumBytes
  <2> QED BY <2>1 DEF AllPaddingClear, PaddingClear
<1>2. TypeOK /\ AllPaddingClear /\ [Next]_vars => AllPaddingClear'
  <2> SUFFICES ASSUME TypeOK, AllPaddingClear, [Next]_vars PROVE AllPaddingClear' OBVIOUS
  <2>1. ASSUME NEW n \in Sizes, NEW w \in Widths, NewStatusList(n, w) PROVE AllPaddingClear'
    <3>1. \A j \in Nat : ByteIndex(j, w) \in 0..(NumBytes(n, w) - 1) => StatusAt(bits', w, j) = {}
      BY <2>1 DEF NewStatusList, AllocatedBytes, StatusAt
    <3>2. tokens' = <<>> /\ 1..Len(<<>>) = {}
      BY <2>1, SMT DEF NewStatusList, TypeOK
    <3> QED BY <2>1, <3>1, <3>2 DEF NewStatusList, AllPaddingClear, PaddingClear
  <2>2. ASSUME NEW i \in Indexes, NEW value \in Values, SetStatus(i, value) PROVE AllPaddingClear'
    <3> DEFINE w == bitsPerStatus
               m == NumBytes(size, w)
    <3>1. i \in 0..(size - 1) /\ i \in Nat /\ size \in Nat /\ w \in BitsPerStatus
      BY <2>2, ArgumentsAreIntegers, SMT DEF SetStatus, InRange, TypeOK
    <3>2. /\ m \in Nat /\ i \in Nat /\ ByteIndex(i, w) \in 0..(m - 1)
          /\ bits \in PackedBytes(m) /\ value \in SUBSET (0..(w - 1))
      BY <2>2, <3>1, NumBytesNat, SlotAllocated DEF SetStatus, TypeOK, Bytes, PackedBytes
    <3>3. ASSUME NEW j \in Nat, j >= size, ByteIndex(j, w) \in 0..(m - 1)
          PROVE  StatusAt(bits', w, j) = {}
      <4>1. StatusAt(bits', w, j) = IF j = i THEN value ELSE StatusAt(bits, w, j)
        BY <2>2, <3>1, <3>2, <3>3, SetThenGet DEF SetStatus
      <4>2. j # i
        BY <3>1, <3>3, SMT
      <4> QED BY <3>3, <4>1, <4>2 DEF AllPaddingClear, PaddingClear
    <3> QED BY <2>2, <3>3 DEF SetStatus, AllPaddingClear, PaddingClear
  <2>3. ASSUME NewStatusListToken PROVE AllPaddingClear'
    <3>1. /\ Len(tokens) \in Nat /\ Len(tokens') = Len(tokens) + 1
          /\ \A k \in 1..Len(tokens) : tokens'[k] = tokens[k]
          /\ tokens'[Len(tokens) + 1].list = bits
      <4> DEFINE token == [bits |-> bitsPerStatus, list |-> bits]
                 Rec == [bits : {bitsPerStatus}, list : Bytes]
      <4>1. tokens' = Append(tokens, token) /\ token.list = bits
        BY <2>3 DEF NewStatusListToken
      <4>2. tokens \in Seq(Rec) /\ token \in Rec
        BY DEF TypeOK
      <4> HIDE DEF token, Rec
      <4> QED BY <4>1, <4>2
    <3>2. ASSUME NEW k \in 1..Len(tokens') PROVE PaddingClear(tokens'[k].list)
      BY <3>1, <3>2, SMT DEF AllPaddingClear
    <3> QED BY <2>3, <3>2 DEF NewStatusListToken, AllPaddingClear, PaddingClear
  <2>4. CASE UNCHANGED vars
    BY <2>4 DEF vars, AllPaddingClear, PaddingClear
  <2> QED BY <2>1, <2>2, <2>3, <2>4 DEF Next
<1> QED BY <1>1, <1>2, TypeCorrect, PTL DEF Spec

(***************************************************************************)
(* CheckStatus is exact: it answers with the published status of every     *)
(* entry, and being wrong about the size of the list leads to an error or  *)
(* to an index that the list does not have, never to a wrong status.       *)
(***************************************************************************)
THEOREM ChecksAreExact == Spec => []ChecksExact
<1>1. TypeOK /\ AllPaddingClear => ChecksExact
  <2> SUFFICES ASSUME TypeOK, AllPaddingClear,
                      NEW k \in DOMAIN tokens, NEW i \in Indexes, NEW n \in ListSizes \cup {size}
               PROVE  LET answer == CheckStatus(tokens[k], i, n)
                      IN  /\ InRange(i, size) => Exact(k, i) /\ answer \in {"error", CheckStatus(tokens[k], i, size)}
                          /\ ~InRange(i, size) => answer \in {"error", "valid"}
                          /\ ~InRange(i, size) /\ n = size => answer = "error"
    BY DEF ChecksExact
  <2> DEFINE w == bitsPerStatus
             t == tokens[k]
             m == NumBytes(size, w)
             answer == CheckStatus(t, i, n)
  <2>1. /\ t.bits = w /\ t.list \in PackedBytes(m) /\ k \in 1..Len(tokens)
        /\ size \in Nat /\ w \in BitsPerStatus /\ i \in Int /\ n \in Nat
    <3>1. k \in 1..Len(tokens) /\ t \in [bits : {w}, list : Bytes]
      <4> DEFINE Rec == [bits : {w}, list : Bytes]
      <4>1. tokens \in Seq(Rec)
        BY DEF TypeOK
      <4> HIDE DEF Rec
      <4>2. k \in 1..Len(tokens) /\ tokens[k] \in Rec
        BY <4>1
      <4> QED BY <4>2 DEF Rec
    <3>2. t.bits = w /\ t.list \in PackedBytes(m)
      BY <3>1 DEF Bytes, PackedBytes
    <3>3. size \in Nat /\ w \in BitsPerStatus /\ i \in Int /\ n \in Nat
      BY ArgumentsAreIntegers DEF TypeOK
    <3> QED BY <3>1, <3>2, <3>3
  <2>2. m \in Nat /\ NumBytes(n, w) \in Nat
    BY <2>1, NumBytesNat
  <2>3. DOMAIN t.list = 0..(m - 1)
    BY <2>1 DEF PackedBytes
  <2>4. Decodes(t, n) => m >= NumBytes(n, w)
    <3> HIDE DEF m
    <3>1. NumBytes(n, w) > m => m \in 0..(NumBytes(n, w) - 1) /\ m \notin 0..(m - 1)
      BY <2>2
    <3> QED BY <2>1, <2>2, <2>3, <3>1 DEF Decodes, AllocatedBytes
  <2>5. Decodes(t, size)
    BY <2>1, <2>2, <2>3 DEF Decodes, AllocatedBytes
  <2>6. CASE InRange(i, size)
    <3>1. CheckStatus(t, i, size) = IF StatusAt(t.list, w, i) = StatusValid THEN "valid" ELSE "revoked"
      BY <2>1, <2>5, <2>6 DEF CheckStatus
    <3>2. i \in 0..(size - 1)
      BY <2>1, <2>6 DEF InRange
    <3>3. Published[k][i] = StatusAt(t.list, w, i)
      BY <2>1, <3>2 DEF Published, TableOf
    <3>4. answer \in {"error", CheckStatus(t, i, size)}
      BY <2>5, <2>6 DEF CheckStatus
    <3> QED BY <2>6, <3>1, <3>3, <3>4 DEF Exact
  <2>7. CASE ~InRange(i, size)
    <3>1. ASSUME Decodes(t, n), InRange(i, n) PROVE answer = "valid"
      <4>1. i \in Nat /\ i \in 0..(n - 1) /\ i >= size
        BY <2>1, <2>7, <3>1 DEF InRange
      <4>2. ByteIndex(i, w) \in 0..(NumBytes(n, w) - 1)
        BY <2>1, <4>1, SlotAllocated
      <4>3. ByteIndex(i, w) \in 0..(m - 1)
        BY <2>2, <2>4, <3>1, <4>2
      <4>4. StatusAt(t.list, w, i) = {}
        BY <2>1, <4>1, <4>3 DEF AllPaddingClear, PaddingClear
      <4> QED BY <2>1, <3>1, <4>4 DEF CheckStatus, StatusValid
    <3>2. ~(Decodes(t, n) /\ InRange(i, n)) => answer = "error"
      BY DEF CheckStatus
    <3>3. n = size => answer = "error"
      BY <2>7, <3>2
    <3> QED BY <2>7, <3>1, <3>2, <3>3
  <2> QED BY <2>6, <2>7
<1> QED BY <1>1, TypeCorrect, PaddingStaysClear, PTL
=============================================================================
