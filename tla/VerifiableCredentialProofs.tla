---------------------- MODULE VerifiableCredentialProofs ----------------------
(***************************************************************************)
(* For all configurations, claims, options, frames, requests and lists:    *)
(* what is issued well is accepted, revoked VCs are refused, and           *)
(* withholding disclosures helps nobody.                                   *)
(***************************************************************************)
EXTENDS VerifiableCredential, TLAPS

(* The callers' frames change in nothing but their decoys. *)
FramesKept ==
  /\ DOMAIN frames = DOMAIN Frames
  /\ \A f \in DOMAIN Frames :
       frames[f].sd = Frames[f].sd /\ frames[f].keys = Frames[f].keys

(* What VCIssuer never makes disclosable, and what it has checked. *)
MadeByIssuer(v) ==
  /\ v.sd \cap ClaimsNotSelectivelyDisclosable = {}
  /\ v.exp \in Int /\ v.nbf \in Int /\ v.idx \in Int
  /\ "vct" \in v.names /\ v.vct # ""
  /\ "vct#integrity" \in v.names => IntegrityValid(v)
  /\ "status" \in v.names => StatusClaimValid(v)

IssuedWell ==
  \A v \in issued : v.sd \subseteq v.names /\ (v.typ = TypeHeader => MadeByIssuer(v))

VCInv == now \in Int /\ FramesKept /\ IssuedWell

-----------------------------------------------------------------------------
(* The fields of a signed SD-JWT. *)
LEMMA SignedFields ==
  ASSUME NEW config, NEW typ, NEW input, NEW adds, NEW frame, NEW o
  PROVE  LET v == Signed(config, typ, input, adds, frame, o)
         IN  /\ v.typ = typ /\ v.names \ {"cnf"} = ((input.names \ input.malformed) \cup adds) \ {"cnf"}
             /\ v.sd = frame.sd \cap v.names
             /\ v.vct = o.vct /\ v.integrity = o.integrity
             /\ v.idx = o.idx /\ v.uri = o.uri
             /\ v.exp = o.exp /\ v.nbf = o.nbf
BY DEF Signed, Disclosable

(* A frame that VCIssuer accepts makes none of the reserved claims disclosable, *)
(* and a claim that the options did not add is not one that the VC needs.       *)
LEMMA IssuedByVCIssuer ==
  ASSUME VCInv, NEW config \in Issuers, NEW input \in Claims,
         NEW f \in DOMAIN Frames, NEW o \in Options,
         NEW frame, frame.sd = frames[f].sd,
         OptionsAllowed(o), FrameAllowed(frames[f])
  PROVE  LET v == Signed(config, TypeHeader, input, Added(config, o), frame, o)
         IN  v.sd \subseteq v.names /\ MadeByIssuer(v)
<1> DEFINE v == Signed(config, TypeHeader, input, Added(config, o), frame, o)
<1>1. /\ v.names \ {"cnf"} = ((input.names \ input.malformed) \cup Added(config, o)) \ {"cnf"}
      /\ v.sd = frame.sd \cap v.names
      /\ v.vct = o.vct /\ v.integrity = o.integrity /\ v.idx = o.idx /\ v.uri = o.uri
      /\ v.exp = o.exp /\ v.nbf = o.nbf
  BY SignedFields
<1>2. v.sd \cap ClaimsNotSelectivelyDisclosable = {}
  BY <1>1, ArgumentsTyped DEF VCInv, FramesKept, FrameAllowed
<1>3. "vct" \in v.names BY <1>1 DEF Added
<1>4. /\ "vct#integrity" \in v.names => "vct#integrity" \in o.adds
      /\ "status" \in v.names => "status" \in o.adds
  <2>1. input.names \cap ClaimsNotSelectivelyDisclosable = input.malformed BY ArgumentsTyped
  <2> QED BY <1>1, <2>1 DEF Added, ClaimsNotSelectivelyDisclosable
<1>5. o.exp \in Int /\ o.nbf \in Int /\ o.idx \in Int BY ArgumentsTyped DEF VCIssueOptions
<1> QED BY <1>1, <1>2, <1>3, <1>4, <1>5 DEF MadeByIssuer, OptionsAllowed, IntegrityValid, StatusClaimValid

LEMMA Initially == Init => VCInv
<1> SUFFICES ASSUME Init PROVE VCInv OBVIOUS
<1>1. now \in Int /\ frames = Frames /\ issued = {} BY DEF Init
<1> QED BY <1>1 DEF VCInv, FramesKept, IssuedWell

LEMMA Inductive == VCInv /\ [Next]_vars => VCInv'
<1> SUFFICES ASSUME VCInv, [Next]_vars PROVE VCInv' OBVIOUS
<1> USE DEF VCInv
<1>1. ASSUME UNCHANGED <<frames, issued>>, now' = now \/ now' = now + 1 PROVE VCInv'
  <2>1. now' \in Int BY <1>1
  <2>2. frames' = frames /\ issued' = issued BY <1>1
  <2> QED BY <2>1, <2>2, Zenon DEF FramesKept, IssuedWell, MadeByIssuer, IntegrityValid, StatusClaimValid
<1>2. ASSUME NEW config \in Issuers, NEW input \in Claims, NEW f \in DOMAIN Frames,
             NEW o \in Options, IssueVC(config, input, f, o)
      PROVE  VCInv'
  <2> DEFINE decoys == IF o.decoys > 0 THEN o.decoys ELSE frames[f].decoys
             frame == [frames[f] EXCEPT !.decoys = decoys]
             v == Signed(config, TypeHeader, input, Added(config, o), frame, o)
  <2>1. /\ OptionsAllowed(o) /\ FrameAllowed(frames[f])
        /\ frames' = [frames EXCEPT ![f] = frame]
        /\ issued' = issued \/ issued' = issued \cup {v}
        /\ now' = now
    BY <1>2 DEF IssueVC
  <2>2. frame.sd = frames[f].sd /\ frame.keys = frames[f].keys
    BY ArgumentsTyped DEF FramesKept, DisclosureFrame
  <2>3. FramesKept' BY <2>1, <2>2 DEF FramesKept
  <2> HIDE DEF frame
  <2>4. v.sd \subseteq v.names /\ MadeByIssuer(v)
    BY <2>1, <2>2, IssuedByVCIssuer
  <2> HIDE DEF v
  <2>5. IssuedWell' BY <2>1, <2>4 DEF IssuedWell, MadeByIssuer
  <2> QED BY <2>1, <2>3, <2>5
<1>3. ASSUME NEW config \in Issuers, NEW input \in Claims, NEW f \in DOMAIN Frames,
             NEW o \in Options, IssuePlain(config, input, f, o)
      PROVE  VCInv'
  <2> DEFINE v == Signed(config, "sd+jwt", input, Added(config, o), frames[f], o)
  <2>1. issued' = issued \cup {v} /\ frames' = frames /\ now' = now
    BY <1>3 DEF IssuePlain
  <2>2. v.typ # TypeHeader /\ v.sd \subseteq v.names BY SignedFields DEF TypeHeader
  <2> HIDE DEF v
  <2> QED BY <2>1, <2>2 DEF FramesKept, IssuedWell, MadeByIssuer
<1>4. ASSUME Tick \/ StatusListStep PROVE UNCHANGED <<frames, issued>> /\ (now' = now \/ now' = now + 1)
  BY <1>4 DEF Tick, StatusListStep
<1>5. ASSUME NEW q \in Requests, NEW v \in issued, NEW d \in Disclosed, NEW k \in TokenIds, NEW kb,
             VerifySDJWTVC(q, v, d, k) \/ VerifySDJWTVCWithKeyBinding(q, v, d, kb, k)
      PROVE  UNCHANGED <<now, frames, issued>>
  BY <1>5 DEF VerifySDJWTVC, VerifySDJWTVCWithKeyBinding
<1> QED BY <1>1, <1>2, <1>3, <1>4, <1>5 DEF Next, vars

LEMMA Invariant == Spec => []VCInv
<1> QED BY Initially, Inductive, PTL DEF Spec

-----------------------------------------------------------------------------
(* A result of the plain verifier is about what it was given. *)
LEMMA ResultFields ==
  ASSUME NEW q, NEW v, NEW d, NEW a, NEW b
  PROVE  Base!Result(q, v, d, a, b).cred = v /\ Base!Result(q, v, d, a, b).disclosed = d
BY DEF Base!Result

LEMMA VerifyResultOf ==
  ASSUME NEW q, NEW v, NEW d, NEW r \in Base!VerifyResult(q, v, d)
  PROVE  r.cred = v /\ r.disclosed = d /\ Base!Genuine(q.options, v, d)
<1>1. Base!Genuine(q.options, v, d) /\ \E a, b : r = Base!Result(q, v, d, a, b)
  BY Zenon DEF Base!VerifyResult
<1> QED BY <1>1, ResultFields

LEMMA KbResultOf ==
  ASSUME NEW q, NEW v, NEW d, NEW kb, NEW r \in Base!KbResult(q, v, d, kb)
  PROVE  r.cred = v /\ r.disclosed = d /\ Base!Genuine(q.options, v, d)
<1>1. Base!Genuine(q.options, v, d) /\ \E a, b : r = Base!Result(q, v, d, a, b)
  BY Zenon DEF Base!KbResult
<1> QED BY <1>1, ResultFields

(* The VC verifier looks at the same SD-JWT. *)
LEMMA PassedOf ==
  ASSUME NEW q, NEW v, NEW d, NEW kb, NEW k,
         VCVerified(q, v, d, k) # {} \/ VCKbVerified(q, v, d, kb, k) # {}
  PROVE  /\ Base!Genuine(q.options, v, d)
         /\ TypeValid(v) /\ ClaimsValid(q, v, d) /\ StatusChecked(q, v, d, k)
<1>1. PICK r \in Base!VerifyResult(q, v, d) \cup Base!KbResult(q, v, d, kb) :
        TypeValid(r.cred) /\ ClaimsValid(q, r.cred, r.disclosed)
          /\ StatusChecked(q, r.cred, r.disclosed, k)
  BY DEF VCVerified, VCKbVerified, VCResult
<1>2. r.cred = v /\ r.disclosed = d /\ Base!Genuine(q.options, v, d)
  BY VerifyResultOf, KbResultOf
<1> QED BY <1>1, <1>2, Zenon

(* And that is all that it asks. *)
LEMMA PassesIf ==
  ASSUME NEW q, NEW v, NEW d, NEW k,
         Base!Genuine(q.options, v, d),
         TypeValid(v), ClaimsValid(q, v, d), StatusChecked(q, v, d, k)
  PROVE  VCVerified(q, v, d, k) = Base!VerifyResult(q, v, d) /\ VCVerified(q, v, d, k) # {}
<1>1. \A r \in Base!VerifyResult(q, v, d) :
        TypeValid(r.cred) /\ ClaimsValid(q, r.cred, r.disclosed)
          /\ StatusChecked(q, r.cred, r.disclosed, k)
  <2> SUFFICES ASSUME NEW r \in Base!VerifyResult(q, v, d)
               PROVE  TypeValid(r.cred) /\ ClaimsValid(q, r.cred, r.disclosed)
                        /\ StatusChecked(q, r.cred, r.disclosed, k)
    OBVIOUS
  <2>1. r.cred = v /\ r.disclosed = d BY VerifyResultOf
  <2> QED BY <2>1, Zenon
<1>2. VCVerified(q, v, d, k) = Base!VerifyResult(q, v, d)
  BY <1>1 DEF VCVerified, VCResult
<1>3. Base!VerifyResult(q, v, d) # {} BY DEF Base!VerifyResult
<1> QED BY <1>2, <1>3

(***************************************************************************)
(* Nobody gets a VC past a verifier that checks the status with a token    *)
(* in which it is revoked: "status" is in the payload of every VC that has *)
(* one, whatever is disclosed, and a lookup with a wrong size gives no     *)
(* other status.                                                           *)
(***************************************************************************)
THEOREM RevokedAreRefused == Spec => []RevokedIsRefused
<1>1. VCInv => RevokedIsRefused
  <2> SUFFICES ASSUME VCInv,
                      NEW v \in issued, NEW q \in Requests, NEW d \in Disclosed,
                      NEW k \in DOMAIN tokens,
                      v.typ = TypeHeader, "status" \in v.names, v.idx \in 0..(size - 1),
                      List!Published[k][v.idx] # List!StatusValid, q.checkStatus
               PROVE  /\ VCVerified(q, v, d, k) = {}
                      /\ \A kb \in Answers(q, v, d) : VCKbVerified(q, v, d, {kb}, k) = {}
    BY DEF RevokedIsRefused
  <2>1. "status" \in Base!Payload(v, d)
    BY DEF VCInv, IssuedWell, MadeByIssuer, ClaimsNotSelectivelyDisclosable, Base!Payload
  <2>2. List!CheckStatus(tokens[k], v.idx, q.listSize) # "valid"
    BY DEF List!CheckStatus, List!Published, List!TableOf
  <2>3. ~StatusChecked(q, v, d, k) BY <2>1, <2>2 DEF StatusChecked
  <2> QED BY <2>3, PassedOf
<1> QED BY <1>1, Invariant, PTL

(***************************************************************************)
(* Withholding gets nothing past VerifySDJWTVC: what it checks is either   *)
(* never disclosable, because only VCIssuer signs with the type of VCs, or *)
(* is required.                                                            *)
(***************************************************************************)
THEOREM WithholdingFutile == Spec => []WithholdingIsNoHelp
<1>1. VCInv => WithholdingIsNoHelp
  <2> SUFFICES ASSUME VCInv,
                      NEW v \in issued, NEW q \in Requests, NEW d \in Disclosed, NEW k \in TokenIds,
                      VCVerified(q, v, d, k) # {},
                      "aud" \in v.sd /\ q.options.expectedAudience # ""
                        => "aud" \in q.options.required
               PROVE  VCVerified(q, v, v.sd, k) # {}
    BY DEF WithholdingIsNoHelp
  <2>1. /\ Base!Genuine(q.options, v, d)
        /\ TypeValid(v) /\ ClaimsValid(q, v, d) /\ StatusChecked(q, v, d, k)
    BY PassedOf
  <2>2. v.sd \subseteq v.names /\ v.sd \cap ClaimsNotSelectivelyDisclosable = {}
    BY <2>1 DEF VCInv, IssuedWell, MadeByIssuer, TypeValid
  <2>3. /\ Base!Payload(v, d) \subseteq Base!Payload(v, v.sd)
        /\ \A n \in ClaimsNotSelectivelyDisclosable :
             n \in Base!Payload(v, v.sd) => n \in Base!Payload(v, d)
        /\ "aud" \in Base!Payload(v, v.sd) \ v.sd => "aud" \in Base!Payload(v, d)
    BY <2>1, <2>2 DEF Base!Payload, Base!Genuine
  <2>4. Base!Genuine(q.options, v, v.sd)
    <3>1. "exp" \in ClaimsNotSelectivelyDisclosable /\ "nbf" \in ClaimsNotSelectivelyDisclosable
      BY DEF ClaimsNotSelectivelyDisclosable
    <3>2. Base!SeenClaimsValid(q.options, v, v.sd)
      BY <2>1, <2>3, <3>1 DEF Base!Genuine, Base!ClaimsValid, Base!SeenClaimsValid
    <3> QED BY <2>1, <2>3, <3>2 DEF Base!Genuine, Base!ClaimsValid
  <2>5. ClaimsValid(q, v, v.sd) /\ StatusChecked(q, v, v.sd, k)
    BY <2>1, <2>3 DEF ClaimsValid, StatusChecked, ClaimsNotSelectivelyDisclosable
  <2> QED BY <2>1, <2>4, <2>5, PassesIf
<1> QED BY <1>1, Invariant, PTL

-----------------------------------------------------------------------------
(* What the verifier of q makes of the answer of h, if it is given just now. *)
LEMMA AnswerValid ==
  ASSUME now \in Int, NEW q \in Requests, NEW v, NEW d, NEW h,
         "cnf" \in Base!Payload(v, d)
  PROVE  Base!KbValid(q, v, d, Answer(q, v, d, h, now)) <=> h \in v.cnf
<1> DEFINE kb == Answer(q, v, d, h, now)
<1>1. /\ kb.key = h /\ kb.audience = q.audience /\ kb.nonce = q.nonce /\ kb.iat = now
      /\ kb.sdHash = Base!HashSDJWT(v, d, Base!StatedAlg(v))
  BY DEF Answer
<1>2. Base!HolderKeys(v, d) = v.cnf BY DEF Base!HolderKeys
<1>3. q.maxAge > 0 => now - kb.iat <= q.maxAge BY <1>1, ArgumentsTyped
<1>4. Base!KbValid(q, v, d, kb) <=> kb.key \in v.cnf
  <2> HIDE DEF kb
  <2> QED BY <1>1, <1>2, <1>3, Zenon DEF Base!KbValid
<1> QED BY <1>1, <1>4, Zenon

(***************************************************************************)
(* The key of a VC cannot be withheld: whoever could present some of a VC  *)
(* without key binding is bound to the holder's key with it.               *)
(***************************************************************************)
THEOREM HoldersAreBound == Spec => []HolderIsBound
<1>1. VCInv => HolderIsBound
  <2> SUFFICES ASSUME VCInv,
                      NEW v \in issued, NEW q \in Requests, NEW d \in Disclosed,
                      NEW k \in TokenIds, NEW h \in Key,
                      "cnf" \in v.names, v.cnf # {}, Base!RequirementValid(q),
                      NEW r \in VCVerified(q, v, d, k), r.valid
               PROVE  \E s \in VCKbVerified(q, v, d, {Answer(q, v, d, h, now)}, k) :
                        s.valid <=> h \in v.cnf
    BY DEF HolderIsBound
  <2> DEFINE kb == Answer(q, v, d, h, now)
             kbValid == \A j \in {kb} : Base!KbValid(q, v, d, j)
             shown == q.claims \subseteq Base!Payload(v, d)
             s == Base!Result(q, v, d, {kbValid}, kbValid /\ shown)
  <2>1. /\ Base!Genuine(q.options, v, d)
        /\ TypeValid(v) /\ ClaimsValid(q, v, d) /\ StatusChecked(q, v, d, k)
    BY PassedOf
  <2>2. "cnf" \in Base!Payload(v, d) /\ Base!HolderKeys(v, d) # {}
    BY <2>1 DEF VCInv, IssuedWell, MadeByIssuer, TypeValid, ClaimsNotSelectivelyDisclosable,
       Base!Payload, Base!HolderKeys
  <2>3. shown
    <3>1. r \in Base!VerifyResult(q, v, d) BY DEF VCVerified, VCResult
    <3>2. r = Base!Result(q, v, d, {}, shown) BY <2>1, <3>1, Zenon DEF Base!VerifyResult
    <3>3. Base!Result(q, v, d, {}, shown).valid = shown BY Zenon DEF Base!Result
    <3> QED BY <3>2, <3>3, Zenon
  <2>4. s.valid = (kbValid /\ shown) BY Zenon DEF Base!Result
  <2>5. kbValid <=> h \in v.cnf
    <3>1. now \in Int BY DEF VCInv
    <3>2. Base!KbValid(q, v, d, kb) <=> h \in v.cnf BY <2>2, <3>1, AnswerValid
    <3> QED BY <3>2, Zenon
  <2>6. s \in Base!KbResult(q, v, d, {kb}) BY <2>1, <2>2, Zenon DEF Base!KbResult
  <2>7. s.cred = v /\ s.disclosed = d BY Zenon DEF Base!Result
  <2>8. TypeValid(s.cred) /\ ClaimsValid(q, s.cred, s.disclosed)
          /\ StatusChecked(q, s.cred, s.disclosed, k)
    BY <2>1, <2>7, Zenon
  <2> HIDE DEF s
  <2>9. s \in VCKbVerified(q, v, d, {kb}, k) BY <2>6, <2>8 DEF VCKbVerified, VCResult
  <2> QED BY <2>3, <2>4, <2>5, <2>9, Zenon
<1> QED BY <1>1, Invariant, PTL

-----------------------------------------------------------------------------
(* The list of the issuer behaves like the list of StatusList alone.  SL is *)
(* List again, with what has been proved of it.                             *)
SL == INSTANCE StatusListProofs

LEMMA ListArguments == SL!ArgumentsAreIntegers
BY ArgumentsTyped DEF SL!ArgumentsAreIntegers

LEMMA SameStep == List!Next => SL!Next
<1> USE DEF List!BitsPerStatus, SL!BitsPerStatus
<1>1. ASSUME NEW n \in Sizes, NEW w \in Widths, List!NewStatusList(n, w)
      PROVE  SL!NewStatusList(n, w)
  BY <1>1 DEF List!NewStatusList, SL!NewStatusList, List!AllocatedBytes, SL!AllocatedBytes,
     List!NumBytes, SL!NumBytes
<1>2. ASSUME NEW i \in Indexes, NEW value \in Values, List!SetStatus(i, value)
      PROVE  SL!SetStatus(i, value)
  BY <1>2 DEF List!SetStatus, SL!SetStatus, List!InRange, SL!InRange, List!WithStatus, SL!WithStatus,
     List!Shifted, SL!Shifted, List!BitOffset, SL!BitOffset, List!ByteIndex, SL!ByteIndex
<1>3. List!NewStatusListToken => SL!NewStatusListToken
  BY DEF List!NewStatusListToken, SL!NewStatusListToken
<1> QED BY <1>1, <1>2, <1>3 DEF List!Next, SL!Next

LEMMA ListTyped == Spec => []SL!TypeOK
<1>1. Init => SL!Init BY DEF Init, List!Init, SL!Init
<1>2. [Next]_vars => [SL!Next]_(SL!vars)
  <2> SUFFICES ASSUME [Next]_vars PROVE List!Next \/ UNCHANGED list
    BY SameStep DEF list, SL!vars
  <2>1. ASSUME NEW config \in Issuers, NEW input \in Claims, NEW f \in DOMAIN Frames,
               NEW o \in Options, IssueVC(config, input, f, o) \/ IssuePlain(config, input, f, o)
        PROVE  UNCHANGED list
    BY <2>1 DEF IssueVC, IssuePlain
  <2>2. ASSUME NEW q \in Requests, NEW v \in issued, NEW d \in Disclosed, NEW k \in TokenIds, NEW kb,
               VerifySDJWTVC(q, v, d, k) \/ VerifySDJWTVCWithKeyBinding(q, v, d, kb, k)
        PROVE  UNCHANGED list
    BY <2>2 DEF VerifySDJWTVC, VerifySDJWTVCWithKeyBinding
  <2>3. Tick => UNCHANGED list BY DEF Tick
  <2>4. StatusListStep => List!Next BY DEF StatusListStep
  <2> QED BY <2>1, <2>2, <2>3, <2>4 DEF Next, vars
<1>3. SL!Spec => []SL!TypeOK BY SL!TypeCorrect, ListArguments, PTL
<1> QED BY <1>1, <1>2, <1>3, PTL DEF Spec, SL!Spec

(* An entry that is published as valid is found to be valid. *)
LEMMA ValidIsFound ==
  ASSUME SL!TypeOK, NEW k \in DOMAIN tokens, NEW i \in 0..(size - 1),
         List!Published[k][i] = List!StatusValid
  PROVE  size > 0 /\ List!CheckStatus(tokens[k], i, size) = "valid"
<1> DEFINE w == bitsPerStatus
           Rec == [bits : {w}, list : SL!Bytes]
           m == SL!NumBytes(size, w)
<1>1. tokens \in Seq(Rec) /\ size \in Nat /\ w \in SL!BitsPerStatus BY DEF SL!TypeOK
<1>2. tokens[k] \in Rec
  <2> HIDE DEF Rec
  <2> QED BY <1>1
<1>3. tokens[k].bits = w /\ DOMAIN tokens[k].list = 0..(m - 1) BY <1>2 DEF SL!Bytes
<1>4. List!AllocatedBytes(size, w) = m
  BY DEF List!AllocatedBytes, List!NumBytes, SL!NumBytes
<1>5. List!Decodes(tokens[k], size) BY <1>3, <1>4, Zenon DEF List!Decodes
<1>6. List!InRange(i, size) /\ size > 0 BY <1>1 DEF List!InRange
<1>7. List!StatusAt(tokens[k].list, tokens[k].bits, i) = List!StatusValid
  BY DEF List!Published, List!TableOf
<1> QED BY <1>5, <1>6, <1>7 DEF List!CheckStatus

(***************************************************************************)
(* What VCIssuer issues well, VerifySDJWTVC accepts: the claims that it    *)
(* needs cannot be withheld, times that the plain verifier accepts are in  *)
(* the period with any clock skew, and a status published as valid is      *)
(* found in the token.                                                     *)
(***************************************************************************)
THEOREM IssuedAreAccepted == Spec => []IssuedIsAccepted
<1>1. VCInv /\ SL!TypeOK => IssuedIsAccepted
  <2> SUFFICES ASSUME VCInv, SL!TypeOK,
                      NEW v \in issued, NEW q \in Requests, NEW d \in Disclosed, NEW k \in TokenIds,
                      v.typ = TypeHeader, v.malformed = {},
                      q.clock = {}, ~q.options.allowExpired,
                      q.checkStatus /\ "status" \in v.names =>
                        /\ k \in DOMAIN tokens /\ q.listSize = size /\ v.idx < size
                        /\ List!Published[k][v.idx] = List!StatusValid
               PROVE  /\ VCVerified(q, v, d, k) = Base!VerifyResult(q, v, d)
                      /\ \A kb \in Answers(q, v, d) :
                           VCKbVerified(q, v, d, {kb}, k) = Base!KbResult(q, v, d, {kb})
    BY DEF IssuedIsAccepted
  <2>1. MadeByIssuer(v) /\ v.sd \subseteq v.names BY DEF VCInv, IssuedWell
  <2> DEFINE skew == q.clockSkew
  <2>2. v.exp \in Int /\ v.nbf \in Int /\ now \in Int /\ skew \in Nat /\ Clock(q) = now
    BY <2>1, ArgumentsTyped DEF VCInv, MadeByIssuer, Clock
  <2>3. ASSUME Base!Genuine(q.options, v, d)
        PROVE  TypeValid(v) /\ ClaimsValid(q, v, d) /\ StatusChecked(q, v, d, k)
    <3>1. Base!Payload(v, d) \subseteq v.names BY <2>1, <2>3 DEF Base!Payload, Base!Genuine
    <3>2. "vct" \in Base!Payload(v, d) /\ v.vct # ""
      BY <2>1 DEF MadeByIssuer, Base!Payload, ClaimsNotSelectivelyDisclosable
    <3>3. ASSUME "nbf" \in Base!Payload(v, d) PROVE v.nbf <= Clock(q) + skew
      <4>1. v.nbf <= now BY <2>3, <3>3 DEF Base!Genuine, Base!ClaimsValid, Base!SeenClaimsValid
      <4> HIDE DEF skew
      <4> QED BY <2>2, <4>1
    <3>4. ASSUME "exp" \in Base!Payload(v, d) PROVE v.exp >= Clock(q) - skew
      <4>1. now <= v.exp BY <2>3, <3>4 DEF Base!Genuine, Base!ClaimsValid, Base!SeenClaimsValid
      <4> HIDE DEF skew
      <4> QED BY <2>2, <4>1
    <3>5. /\ "vct#integrity" \in Base!Payload(v, d) => IntegrityValid(v)
          /\ "status" \in Base!Payload(v, d) => StatusClaimValid(v)
      BY <2>1, <3>1 DEF MadeByIssuer
    <3>6. ClaimsValid(q, v, d) BY <3>2, <3>3, <3>4, <3>5 DEF ClaimsValid
    <3>7. ASSUME q.checkStatus, "status" \in Base!Payload(v, d)
          PROVE  /\ k \in DOMAIN tokens /\ q.listSize > 0
                 /\ List!CheckStatus(tokens[k], v.idx, q.listSize) = "valid"
      <4>1. /\ k \in DOMAIN tokens /\ q.listSize = size /\ v.idx < size
            /\ List!Published[k][v.idx] = List!StatusValid
        BY <3>1, <3>7
      <4> DEFINE i == v.idx
      <4>2. i \in Int /\ i >= 0 /\ i < size BY <2>1, <3>5, <3>7, <4>1 DEF StatusClaimValid, MadeByIssuer
      <4>3. size \in Nat BY DEF SL!TypeOK
      <4>4. i \in 0..(size - 1)
        <5> HIDE DEF i
        <5> QED BY <4>2, <4>3
      <4> QED BY <4>1, <4>4, ValidIsFound
    <3> QED BY <3>6, <3>7 DEF StatusChecked, TypeValid
  <2>4. \A r \in Base!VerifyResult(q, v, d) :
          TypeValid(r.cred) /\ ClaimsValid(q, r.cred, r.disclosed)
            /\ StatusChecked(q, r.cred, r.disclosed, k)
    <3> SUFFICES ASSUME NEW r \in Base!VerifyResult(q, v, d)
                 PROVE  TypeValid(r.cred) /\ ClaimsValid(q, r.cred, r.disclosed)
                          /\ StatusChecked(q, r.cred, r.disclosed, k)
      OBVIOUS
    <3>1. r.cred = v /\ r.disclosed = d /\ Base!Genuine(q.options, v, d) BY VerifyResultOf
    <3> QED BY <2>3, <3>1, Zenon
  <2>5. ASSUME NEW kb
        PROVE  \A r \in Base!KbResult(q, v, d, {kb}) :
                 TypeValid(r.cred) /\ ClaimsValid(q, r.cred, r.disclosed)
                   /\ StatusChecked(q, r.cred, r.disclosed, k)
    <3> SUFFICES ASSUME NEW r \in Base!KbResult(q, v, d, {kb})
                 PROVE  TypeValid(r.cred) /\ ClaimsValid(q, r.cred, r.disclosed)
                          /\ StatusChecked(q, r.cred, r.disclosed, k)
      OBVIOUS
    <3>1. r.cred = v /\ r.disclosed = d /\ Base!Genuine(q.options, v, d) BY KbResultOf
    <3> QED BY <2>3, <3>1, Zenon
  <2> QED BY <2>4, <2>5 DEF VCVerified, VCKbVerified, VCResult
<1> QED BY <1>1, Invariant, ListTyped, PTL

-----------------------------------------------------------------------------
(* The types of what is neither KeyBinding's nor StatusList's. *)
FramesTyped ==
  /\ frames \in [DOMAIN Frames -> DisclosureFrame]
  /\ \A f \in DOMAIN Frames : frames[f] = [Frames[f] EXCEPT !.decoys = frames[f].decoys]

IssuedTyped ==
  /\ issued \subseteq IssuedVC
  /\ \A v \in issued : v.sd \subseteq v.names /\ v.names \cap v.malformed = {}

VerdictTyped == \A r \in verdict : r.cred \in issued /\ r.disclosed \subseteq r.cred.sd

TInv == now \in 0..MaxTime /\ FramesTyped /\ IssuedTyped /\ VerdictTyped

LEMMA ListTypes == SL!TypeOK => List!TypeOK
BY DEF SL!TypeOK, List!TypeOK, SL!Bytes, List!Bytes, SL!NumBytes, List!NumBytes, SL!Bit, List!Bit,
   SL!BitsPerStatus, List!BitsPerStatus

LEMMA AddedAreNames ==
  ASSUME NEW config \in Issuers, NEW o \in Options
  PROVE  Added(config, o) \subseteq Name
<1>1. o.adds \subseteq ClaimsNotSelectivelyDisclosable \cup {"sub"}
  <2>1. o \in VCIssueOptions BY ArgumentsTyped
  <2> QED BY <2>1 DEF VCIssueOptions, ClaimsNotSelectivelyDisclosable
<1>2. {"vct", "iat", "iss", "sub"} \cup ClaimsNotSelectivelyDisclosable \subseteq Name
  BY ArgumentsTyped DEF ClaimsNotSelectivelyDisclosable
<1> QED BY <1>1, <1>2 DEF Added

LEMMA SignedTyped ==
  ASSUME NEW config \in Issuers, NEW typ \in {TypeHeader, "sd+jwt"}, NEW input \in Claims,
         NEW o \in Options, NEW frame, frame.decoys \in Nat, Signable(config, input)
  PROVE  LET v == Signed(config, typ, input, Added(config, o), frame, o)
         IN  v \in IssuedVC /\ v.sd \subseteq v.names /\ v.names \cap v.malformed = {}
<1> DEFINE adds == Added(config, o)
           badKey == {n \in {"cnf"} \cap adds : o.key = "null"}
           names == ((input.names \ input.malformed) \cup adds) \ badKey
           malformed == (input.malformed \ adds) \cup badKey
           sd == Disclosable(frame, names)
           v == Signed(config, typ, input, adds, frame, o)
<1>1. config \in IssuerConfig /\ input \in Input /\ o \in VCIssueOptions BY ArgumentsTyped
<1>2. config.signer \in Party /\ config.id \in Party \cup {""} /\ config.alg \in Base!Algorithm
  BY <1>1 DEF IssuerConfig, Signable
<1>3. input.names \subseteq Name /\ input.aud \in SUBSET Party
      /\ input.malformed \subseteq ClaimsNotSelectivelyDisclosable
  BY <1>1 DEF Input
<1>4. /\ o.vct \in {"", "type"} /\ o.integrity \in {"well-formed", "malformed"} /\ o.exp \in Int
      /\ o.nbf \in Int /\ o.cnf \in SUBSET Key /\ o.idx \in Int /\ o.uri \in {"", StatusURI}
  BY <1>1 DEF VCIssueOptions
<1>5. names \subseteq Name BY <1>3, AddedAreNames
<1>6. "cnf" \in ClaimsNotSelectivelyDisclosable BY DEF ClaimsNotSelectivelyDisclosable
<1>7. malformed \subseteq ClaimsNotSelectivelyDisclosable /\ names \cap malformed = {}
  BY <1>3, <1>6
<1>8. sd \subseteq names BY DEF Disclosable
<1>9. v = [signer |-> config.signer, iss |-> config.id, alg |-> config.alg, typ |-> typ,
           names |-> names, malformed |-> malformed, sd |-> sd,
           aud |-> input.aud, exp |-> o.exp, nbf |-> o.nbf, cnf |-> o.cnf,
           vct |-> o.vct, integrity |-> o.integrity, idx |-> o.idx, uri |-> o.uri,
           decoys |-> frame.decoys]
  BY DEF Signed
<1> HIDE DEF adds, badKey, names, malformed, sd
<1> DEFINE decoys == frame.decoys
<1>10. v \in IssuedVC
  <2>1. /\ names \in SUBSET Name /\ sd \in SUBSET Name
        /\ malformed \in SUBSET ClaimsNotSelectivelyDisclosable
    BY <1>5, <1>7, <1>8
  <2>2. decoys \in Nat /\ typ \in {TypeHeader, "sd+jwt"} OBVIOUS
  <2> HIDE DEF v, decoys
  <2>3. v = [signer |-> config.signer, iss |-> config.id, alg |-> config.alg, typ |-> typ,
             names |-> names, malformed |-> malformed, sd |-> sd,
             aud |-> input.aud, exp |-> o.exp, nbf |-> o.nbf, cnf |-> o.cnf,
             vct |-> o.vct, integrity |-> o.integrity, idx |-> o.idx, uri |-> o.uri,
             decoys |-> decoys]
    BY <1>9 DEF decoys
  <2> QED BY <1>2, <1>3, <1>4, <2>1, <2>2, <2>3 DEF IssuedVC
<1>11. v.sd = sd /\ v.names = names /\ v.malformed = malformed BY <1>9
<1> HIDE DEF v
<1>12. v \in IssuedVC /\ v.sd \subseteq v.names /\ v.names \cap v.malformed = {}
  BY <1>7, <1>8, <1>10, <1>11
<1> QED BY <1>12 DEF v, adds

LEMMA TypesStep == TInv /\ [Next]_vars => TInv'
<1> SUFFICES ASSUME TInv, [Next]_vars PROVE TInv' OBVIOUS
<1> USE DEF TInv
<1>1. ASSUME UNCHANGED <<now, verdict, frames, issued>> PROVE TInv'
  BY <1>1, Zenon DEF FramesTyped, IssuedTyped, VerdictTyped
<1>2. CASE Tick
  <2>1. now' \in 0..MaxTime BY <1>2, ArgumentsTyped DEF Tick
  <2>2. verdict' = verdict /\ frames' = frames /\ issued' = issued BY <1>2 DEF Tick
  <2>3. FramesTyped' /\ IssuedTyped' /\ VerdictTyped' BY <2>2, Zenon DEF FramesTyped, IssuedTyped, VerdictTyped
  <2> QED BY <2>1, <2>3
<1>3. ASSUME NEW config \in Issuers, NEW input \in Claims, NEW f \in DOMAIN Frames,
             NEW o \in Options, IssueVC(config, input, f, o)
      PROVE  TInv'
  <2> DEFINE decoys == IF o.decoys > 0 THEN o.decoys ELSE frames[f].decoys
             frame == [frames[f] EXCEPT !.decoys = decoys]
             v == Signed(config, TypeHeader, input, Added(config, o), frame, o)
  <2>1. /\ frames' = [frames EXCEPT ![f] = frame] /\ now' = now /\ verdict' = verdict
        /\ issued' = IF ~Signable(config, input) THEN issued ELSE issued \cup {v}
    BY <1>3 DEF IssueVC
  <2>2. frames[f] \in DisclosureFrame /\ decoys \in Nat
    BY ArgumentsTyped DEF FramesTyped, VCIssueOptions, DisclosureFrame
  <2> HIDE DEF decoys
  <2>3. frame \in DisclosureFrame /\ frame.decoys = decoys BY <2>2 DEF DisclosureFrame
  <2>4. frame = [Frames[f] EXCEPT !.decoys = frame.decoys]
    <3>1. frames[f] = [Frames[f] EXCEPT !.decoys = frames[f].decoys] BY DEF FramesTyped
    <3>2. Frames[f] \in DisclosureFrame BY ArgumentsTyped
    <3> QED BY <2>2, <2>3, <3>1, <3>2 DEF DisclosureFrame
  <2> HIDE DEF frame
  <2>5. FramesTyped' BY <2>1, <2>3, <2>4 DEF FramesTyped
  <2>6. Signable(config, input) =>
          v \in IssuedVC /\ v.sd \subseteq v.names /\ v.names \cap v.malformed = {}
    BY <2>2, <2>3, SignedTyped
  <2> HIDE DEF v
  <2>7. IssuedTyped' /\ issued \subseteq issued' BY <2>1, <2>6 DEF IssuedTyped
  <2>8. VerdictTyped' BY <2>1, <2>7 DEF VerdictTyped
  <2> QED BY <2>1, <2>5, <2>7, <2>8
<1>4. ASSUME NEW config \in Issuers, NEW input \in Claims, NEW f \in DOMAIN Frames,
             NEW o \in Options, IssuePlain(config, input, f, o)
      PROVE  TInv'
  <2> DEFINE v == Signed(config, "sd+jwt", input, Added(config, o), frames[f], o)
  <2>1. /\ frames' = frames /\ now' = now /\ verdict' = verdict
        /\ issued' = issued \cup {v} /\ Signable(config, input)
    BY <1>4 DEF IssuePlain
  <2>2. frames[f].decoys \in Nat BY DEF FramesTyped, DisclosureFrame
  <2>3. v \in IssuedVC /\ v.sd \subseteq v.names /\ v.names \cap v.malformed = {}
    BY <2>1, <2>2, SignedTyped
  <2> HIDE DEF v
  <2>4. FramesTyped' BY <2>1, Zenon DEF FramesTyped
  <2>5. IssuedTyped' /\ issued \subseteq issued' BY <2>1, <2>3 DEF IssuedTyped
  <2>6. VerdictTyped' BY <2>1, <2>5 DEF VerdictTyped
  <2> QED BY <2>1, <2>4, <2>5, <2>6
<1>5. ASSUME NEW q \in Requests, NEW v \in issued, NEW d \in Disclosed, NEW k \in TokenIds, NEW kb,
             VerifySDJWTVC(q, v, d, k) \/ VerifySDJWTVCWithKeyBinding(q, v, d, kb, k)
      PROVE  TInv'
  <2>1. /\ now' = now /\ frames' = frames /\ issued' = issued
        /\ verdict' \subseteq Base!VerifyResult(q, v, d) \cup Base!KbResult(q, v, d, kb)
    BY <1>5 DEF VerifySDJWTVC, VerifySDJWTVCWithKeyBinding, VCVerified, VCKbVerified, VCResult
  <2>2. \A r \in verdict' : r.cred = v /\ r.disclosed = d /\ Base!Genuine(q.options, v, d)
    BY <2>1, VerifyResultOf, KbResultOf
  <2>3. VerdictTyped' BY <2>1, <2>2 DEF VerdictTyped, Base!Genuine
  <2>4. FramesTyped' /\ IssuedTyped' BY <2>1, Zenon DEF FramesTyped, IssuedTyped
  <2> QED BY <2>1, <2>3, <2>4
<1>6. StatusListStep => UNCHANGED <<now, verdict, frames, issued>> BY DEF StatusListStep
<1>7. UNCHANGED vars => UNCHANGED <<now, verdict, frames, issued>> BY DEF vars
<1> QED BY <1>1, <1>2, <1>3, <1>4, <1>5, <1>6, <1>7 DEF Next

(* Values keep their types, whatever is issued, revoked and verified, and frames *)
(* change in nothing but their decoys.                                           *)
THEOREM TypeCorrect == Spec => []TypeOK
<1>1. Init => TInv
  <2> SUFFICES ASSUME Init PROVE TInv OBVIOUS
  <2>1. now = 0 /\ verdict = {} /\ frames = Frames /\ issued = {} BY DEF Init
  <2>2. FramesTyped BY <2>1, ArgumentsTyped DEF FramesTyped, DisclosureFrame
  <2> QED BY <2>1, <2>2, ArgumentsTyped DEF TInv, IssuedTyped, VerdictTyped
<1>2. TInv /\ SL!TypeOK => TypeOK
  BY ListTypes DEF TInv, TypeOK, FramesTyped, IssuedTyped, VerdictTyped
<1> QED BY <1>1, <1>2, TypesStep, ListTyped, PTL DEF Spec
=============================================================================
