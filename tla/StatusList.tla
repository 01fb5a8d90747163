----------------------------- MODULE StatusList -----------------------------
(***************************************************************************)
(* statuslist.StatusList: statuses of 1, 2, 4 or 8 bits packed into bytes, *)
(* the tokens that carry a copy of the bytes, and sdjwtvc.CheckStatus,     *)
(* with which a verifier looks a credential up in a token.                 *)
(*                                                                         *)
(* A byte is the set of its bits that are one, and so is a status: the     *)
(* code's masks and shifts are set operations.  DEFLATE and base64url are  *)
(* each other's inverse, so a token holds the bytes; its claims are        *)
(* authentic and are read by verifiers at any later time.                  *)
(***************************************************************************)
EXTENDS Integers, Sequences

CONSTANTS Sizes, Widths,   \* arguments of NewStatusList
          Indexes, Values, \* arguments of SetStatus and GetStatus
          ListSizes,       \* listSize, as verifiers know it
          MaxTokens        \* bound: tokens published

ASSUME ArgumentsAreIntegers ==
  /\ Sizes \subseteq Int /\ Widths \subseteq Int /\ Indexes \subseteq Int
  /\ ListSizes \subseteq Nat   \* checkVCStatus refuses other sizes
  /\ MaxTokens \in Nat

VARIABLES size, bitsPerStatus, bits,  \* the StatusList; size 0 before it exists
          tokens                      \* the tokens published, oldest first

vars == <<size, bitsPerStatus, bits, tokens>>

BitsPerStatus == {1, 2, 4, 8}
Bit == 0..7
StatusValid == {}

NumBytes(n, w) == (n * w + 7) \div 8

(* Bug: a byte that is not full is not counted. *)
NumBytesRoundedDown(n, w) == (n * w) \div 8

(* What NewStatusList allocates and Decode expects. *)
AllocatedBytes(n, w) == NumBytes(n, w)

ByteIndex(i, w) == i \div (8 \div w)
BitOffset(i, w) == (i % (8 \div w)) * w

-----------------------------------------------------------------------------
Shifted(value, offset) == {b + offset : b \in value}

(* GetStatus, of bytes that hold statuses of w bits, for an index in range. *)
StatusAt(bytes, w, i) ==
  {b \in 0..(w - 1) : b + BitOffset(i, w) \in bytes[ByteIndex(i, w)]}

(* Bug: the old value is not cleared. *)
WithStatusOred(bytes, w, i, value) ==
  [bytes EXCEPT ![ByteIndex(i, w)] = @ \cup Shifted(value, BitOffset(i, w))]

(* Bug: everything else in the byte is lost. *)
WithStatusOver(bytes, w, i, value) ==
  [bytes EXCEPT ![ByteIndex(i, w)] = Shifted(value, BitOffset(i, w))]

(* The mask clears the old value of entry i, and the new one is put in. *)
WithStatus(bytes, w, i, value) ==
  LET mask == Shifted(0..(w - 1), BitOffset(i, w))
  IN  [bytes EXCEPT ![ByteIndex(i, w)] = (@ \ mask) \cup Shifted(value, BitOffset(i, w))]

-----------------------------------------------------------------------------
Init == size = 0 /\ bitsPerStatus = 1 /\ bits = [k \in {} |-> {}] /\ tokens = <<>>

(* Other arguments are an error and give no list. *)
NewStatusList(n, w) ==
  /\ size = 0 /\ n > 0 /\ w \in BitsPerStatus
  /\ size' = n /\ bitsPerStatus' = w
  /\ bits' = [k \in 0..(AllocatedBytes(n, w) - 1) |-> {}]
  /\ UNCHANGED tokens

InRange(i, n) == 0 <= i /\ i < n

(* An index or a value out of range is an error and changes nothing. *)
SetStatus(i, value) ==
  /\ size > 0 /\ InRange(i, size)
  /\ value \subseteq 0..(bitsPerStatus - 1)
  /\ bits' = WithStatus(bits, bitsPerStatus, i, value)
  /\ UNCHANGED <<size, bitsPerStatus, tokens>>

(* NewStatusListToken, or SetStatusList on a token: Encode, and sign. *)
NewStatusListToken ==
  /\ size > 0 /\ Len(tokens) < MaxTokens
  /\ tokens' = Append(tokens, [bits |-> bitsPerStatus, list |-> bits])
  /\ UNCHANGED <<size, bitsPerStatus, bits>>

Next ==
  \/ \E n \in Sizes, w \in Widths : NewStatusList(n, w)
  \/ \E i \in Indexes, value \in Values : SetStatus(i, value)
  \/ NewStatusListToken

Spec == Init /\ [][Next]_vars

-----------------------------------------------------------------------------
(* The verifier, who knows a token and believes the list to have n entries. *)

(* Decode fails if there are too few bytes for n entries. *)
Decodes(token, n) == 0..(AllocatedBytes(n, token.bits) - 1) \subseteq DOMAIN token.list

(* Bug: only the status 1, StatusInvalid, is taken for revoked. *)
CheckStatusInvalidOnly(token, i, n) ==
  IF ~Decodes(token, n) \/ ~InRange(i, n) THEN "error"
  ELSE IF StatusAt(token.list, token.bits, i) # {0} THEN "valid" ELSE "revoked"

(* CheckStatus for a payload whose "status.status_list.idx" is i. *)
CheckStatus(token, i, n) ==
  IF ~Decodes(token, n) \/ ~InRange(i, n) THEN "error"
  ELSE IF StatusAt(token.list, token.bits, i) = StatusValid THEN "valid" ELSE "revoked"

-----------------------------------------------------------------------------
(* The table that a StatusList stands for. *)
TableOf(bytes, w) == [i \in 0..(size - 1) |-> StatusAt(bytes, w, i)]

Published == [k \in DOMAIN tokens |-> TableOf(tokens[k].list, tokens[k].bits)]

Registry == INSTANCE StatusRegistry
              WITH Status <- SUBSET Bit,
                   table <- TableOf(bits, bitsPerStatus), published <- Published

Bytes == [0..(NumBytes(size, bitsPerStatus) - 1) -> SUBSET Bit]

(* Values have their types, and the bytes are as many as the entries need. *)
TypeOK ==
  /\ size \in Nat /\ bitsPerStatus \in BitsPerStatus
  /\ bits \in Bytes
  /\ tokens \in Seq([bits : {bitsPerStatus}, list : Bytes])
  /\ size = 0 => tokens = <<>>

(***************************************************************************)
(* The packed bytes are a table: setting one status leaves every other one *)
(* as it was, also those in the same byte, and the tokens published.       *)
(***************************************************************************)
PackedTable == Registry!Spec

(* SetStatus would be read back by GetStatus, whatever is there now. *)
SetIsRead ==
  \A i \in Indexes, value \in Values :
    InRange(i, size) /\ value \subseteq 0..(bitsPerStatus - 1)
      => StatusAt(WithStatus(bits, bitsPerStatus, i, value), bitsPerStatus, i) = value

(* An entry of the list, read from a token, for a verifier that knows its size. *)
Exact(k, i) ==
  CheckStatus(tokens[k], i, size) = IF Published[k][i] = StatusValid THEN "valid" ELSE "revoked"

(***************************************************************************)
(* A verifier that knows the size of the list gets the published status of *)
(* every entry, and an error for every other index.  One that is wrong     *)
(* about the size gets no wrong answer about an entry: an error if it      *)
(* believes the list shorter or much longer, and at worst "valid" for an   *)
(* index behind the last entry, in the unused bits of the last byte.       *)
(***************************************************************************)
ChecksExact ==
  \A k \in DOMAIN tokens, i \in Indexes, n \in ListSizes \cup {size} :
    LET answer == CheckStatus(tokens[k], i, n)
    IN  /\ InRange(i, size) => Exact(k, i) /\ answer \in {"error", CheckStatus(tokens[k], i, size)}
        /\ ~InRange(i, size) => answer \in {"error", "valid"}
        /\ ~InRange(i, size) /\ n = size => answer = "error"
=============================================================================
