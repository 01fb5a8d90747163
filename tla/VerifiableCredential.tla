------------------------- MODULE VerifiableCredential -------------------------
(***************************************************************************)
(* SD-JWT VCs from issue to revocation: VCIssuer.Issue, called again and   *)
(* again with frames that belong to the caller, the issuer's status list,  *)
(* and VerifySDJWTVC with and without key binding.                         *)
(*                                                                         *)
(* A VC is a credential of KeyBinding with more fields, and is verified by *)
(* the operators of KeyBinding first; its status is looked up in tokens of *)
(* StatusList, whose variables and actions are used as they are.  There is *)
(* one status list, so a token is of the list that a credential names.     *)
(* The plain issuer signs with the same keys.                              *)
(*                                                                         *)
(* A claim inside a claim is a name of its own.                            *)
(***************************************************************************)
EXTENDS Integers, Sequences, FiniteSets

CONSTANTS Name, Key, Party, Nonce, Disclosed, MaxTime,  \* as in KeyBinding
          Sizes, Widths, Indexes, Values, ListSizes, MaxTokens, \* as in StatusList
          Issuers,   \* configurations of VCIssuer
          Claims,    \* claims to issue
          Options,   \* VCIssueOptions
          Frames,    \* the callers' frames as they made them
          Requests,  \* requests of verifiers, and VCVerificationOptions
          MaxIssued  \* bound: SD-JWTs issued

TypeHeader == "dc+sd-jwt"
StatusURI == "https://issuer.example/status"

ClaimsNotSelectivelyDisclosable ==
  {"iss", "nbf", "exp", "cnf", "vct", "vct#integrity", "status"}

IssuerConfig == [id : Party \cup {""}, signer : Party, alg : STRING]

(* The claims to be signed; those in malformed have a value of the wrong type *)
(* for a VC.  A claim that options can add is here only if it is malformed:   *)
(* well-formed, it would be no different from one that Issue adds.            *)
Input == [names : SUBSET Name, malformed : SUBSET ClaimsNotSelectivelyDisclosable,
          aud : SUBSET Party]

(* adds has the claims that the options ask for; exp, nbf, cnf and so on mean *)
(* something only if in adds.  key is what the holder's key is as JSON.       *)
VCIssueOptions ==
  [vct : {"", "type"}, adds : SUBSET {"vct#integrity", "sub", "nbf", "exp", "cnf", "status"},
   integrity : {"well-formed", "malformed"}, exp : Int, nbf : Int,
   cnf : SUBSET Key, key : {"object", "null", "unreadable"}, idx : Int, uri : {"", StatusURI}, decoys : Nat]

(* sd has the claims of SD at all levels, keys the top-level ones in SD and   *)
(* Nested; decoys is the top-level SDDecoy.  A nil frame is one with nothing. *)
DisclosureFrame ==
  [sd : SUBSET Name, keys : SUBSET Name, decoys : Nat, nestedDecoys : BOOLEAN]

ASSUME ArgumentsTyped ==
  /\ ClaimsNotSelectivelyDisclosable \cup {"iat", "sub"} \subseteq Name
  /\ Issuers \subseteq IssuerConfig /\ Claims \subseteq Input
  /\ \A c \in Claims : c.names \cap ClaimsNotSelectivelyDisclosable = c.malformed
  /\ Options \subseteq VCIssueOptions
  /\ Frames \in [DOMAIN Frames -> DisclosureFrame]
  /\ \A f \in DOMAIN Frames :
       Frames[f].sd \cap ClaimsNotSelectivelyDisclosable \subseteq Frames[f].keys
  /\ \A q \in Requests : q.clockSkew \in Nat /\ q.maxAge \in Int
  /\ Sizes \subseteq Int /\ Widths \subseteq Int /\ Indexes \subseteq Int
  /\ ListSizes \subseteq Nat /\ MaxTokens \in Nat
  /\ MaxTime \in Nat /\ MaxIssued \in Nat

VARIABLES now, verdict,                       \* as in KeyBinding
          size, bitsPerStatus, bits, tokens,  \* as in StatusList
          frames,                             \* the callers' frames as they are
          issued

list == <<size, bitsPerStatus, bits, tokens>>
vars == <<now, verdict, list, frames, issued>>

Base == INSTANCE KeyBinding
          WITH Credentials <- {}, Options <- {}, Sessions <- {}, Skew <- 0, MaxKBs <- 0,
               wallet <- [h \in {} |-> h], kbs <- {}

List == INSTANCE StatusList

Init == now = 0 /\ verdict = {} /\ List!Init /\ frames = Frames /\ issued = {}

Tick == now < MaxTime /\ now' = now + 1 /\ UNCHANGED <<verdict, list, frames, issued>>

StatusListStep == List!Next /\ UNCHANGED <<now, verdict, frames, issued>>

-----------------------------------------------------------------------------
(* Bug: only the claims about time may not be disclosable. *)
FrameLeavesDates(frame) == frame.keys \cap {"exp", "nbf"} = {}

(* validateSDFrameTopLevel *)
FrameAllowed(frame) == frame.keys \cap ClaimsNotSelectivelyDisclosable = {}

HasSDClaims(frame) == frame.sd # {}
HasDecoys(frame) == frame.decoys > 0 \/ frame.nestedDecoys

(* validateIntegrityMetadata and validateStatusClaim, of options and of VCs. *)
IntegrityValid(x) == x.integrity = "well-formed"
StatusClaimValid(x) == x.idx >= 0 /\ x.uri # ""

(* Bug: what the verifier will check is not looked at. *)
OptionsNamed(o) == o.vct # "" /\ ("cnf" \in o.adds => o.key # "unreadable")

(* The options that Issue accepts. *)
OptionsAllowed(o) ==
  /\ o.vct # ""
  /\ "vct#integrity" \in o.adds => IntegrityValid(o)
  /\ "status" \in o.adds => StatusClaimValid(o)
  /\ "cnf" \in o.adds => o.key # "unreadable"

(* Bug: a frame's claims count as disclosable though there are no such claims. *)
NamedDisclosable(frame, names) == frame.sd

(* The claims that packObject makes disclosable. *)
Disclosable(frame, names) == frame.sd \cap names

(***************************************************************************)
(* The SD-JWT that IssueWithFrame signs: all of input, but the claims that *)
(* Issue added are of its own making, and well-formed except for a key     *)
(* null, which passes for an object here but not in VCs.                   *)
(***************************************************************************)
Signed(config, typ, input, adds, frame, o) ==
  LET badKey == {n \in {"cnf"} \cap adds : o.key = "null"}
      names == ((input.names \ input.malformed) \cup adds) \ badKey
  IN  [signer |-> config.signer, iss |-> config.id, alg |-> config.alg, typ |-> typ,
       names |-> names, malformed |-> (input.malformed \ adds) \cup badKey,
       sd |-> Disclosable(frame, names),
       aud |-> input.aud, exp |-> o.exp, nbf |-> o.nbf, cnf |-> o.cnf,
       vct |-> o.vct, integrity |-> o.integrity, idx |-> o.idx, uri |-> o.uri,
       decoys |-> frame.decoys]

(* What IssueWithFrame requires. *)
Signable(config, input) ==
  config.alg \in Base!Algorithm /\ input.names \cap {"_sd", "_sd_alg", "..."} = {}

(* The issuer adds iss if it has an id, and vct and iat always. *)
Added(config, o) ==
  {"vct", "iat"} \cup o.adds \cup {n \in {"iss"} : config.id # ""}

(***************************************************************************)
(* VCIssuer.Issue.  The number of decoys is written into the caller's      *)
(* frame, where it stays, also if the signing of the SD-JWT then fails.    *)
(***************************************************************************)
IssueVC(config, input, f, o) ==
  LET decoys == IF o.decoys > 0 THEN o.decoys ELSE frames[f].decoys
      frame == [frames[f] EXCEPT !.decoys = decoys]
  IN  /\ Cardinality(issued) < MaxIssued
      /\ OptionsAllowed(o)
      /\ FrameAllowed(frames[f])
      /\ HasSDClaims(frames[f]) \/ (~HasDecoys(frames[f]) /\ o.decoys = 0)
      /\ frames' = [frames EXCEPT ![f] = frame]
      /\ issued' = IF ~Signable(config, input) THEN issued
                   ELSE issued \cup {Signed(config, TypeHeader, input, Added(config, o), frame, o)}
      /\ UNCHANGED <<now, verdict, list>>

(* issuer.IssueWithFrame with another type, by the same signer: the same      *)
(* claims may be in the SD-JWT and any of them disclosable.                   *)
IssuePlain(config, input, f, o) ==
  /\ Cardinality(issued) < MaxIssued
  /\ Signable(config, input) /\ input.malformed = {} /\ o.key = "object"
  /\ issued' = issued \cup {Signed(config, "sd+jwt", input, Added(config, o), frames[f], o)}
  /\ UNCHANGED <<now, verdict, list, frames>>

-----------------------------------------------------------------------------
(* The verifier's clock for the VC, which may be set to a time of its own. *)
Clock(q) == IF q.clock = {} THEN now ELSE CHOOSE t \in q.clock : TRUE

(* Bug: any type will do. *)
AnyType(v) == TRUE

TypeValid(v) == v.typ = TypeHeader

(* The claims whose values must be of the right type. *)
Checked(q) ==
  ClaimsNotSelectivelyDisclosable
    \ ({n \in {"nbf"} : q.skipNotBefore} \cup {n \in {"exp"} : q.skipExpiration})

(* ValidateVCWithOptions, of the processed payload of v with d disclosed. *)
ClaimsValid(q, v, d) ==
  LET payload == Base!Payload(v, d)
  IN  /\ "vct" \in payload /\ v.vct # ""
      /\ v.malformed \cap Checked(q) = {}
      /\ "vct#integrity" \in payload => IntegrityValid(v)
      /\ "status" \in payload => StatusClaimValid(v)
      /\ "nbf" \in payload \cap Checked(q) => v.nbf <= Clock(q) + q.clockSkew
      /\ "exp" \in payload \cap Checked(q) => v.exp >= Clock(q) - q.clockSkew

(* checkVCStatus, with token k; no token if k is 0. *)
StatusChecked(q, v, d, k) ==
  q.checkStatus /\ "status" \in Base!Payload(v, d)
    => /\ k \in DOMAIN tokens /\ q.listSize > 0
       /\ List!CheckStatus(tokens[k], v.idx, q.listSize) = "valid"

(* The result of the plain verifier stands if the VC passes, else it is an error. *)
VCResult(results, q, k) ==
  {r \in results :
     TypeValid(r.cred) /\ ClaimsValid(q, r.cred, r.disclosed)
       /\ StatusChecked(q, r.cred, r.disclosed, k)}

VCVerified(q, v, d, k) == VCResult(Base!VerifyResult(q, v, d), q, k)

VCKbVerified(q, v, d, kb, k) == VCResult(Base!KbResult(q, v, d, kb), q, k)

VerifySDJWTVC(q, v, d, k) ==
  /\ verdict' = VCVerified(q, v, d, k)
  /\ UNCHANGED <<now, list, frames, issued>>

VerifySDJWTVCWithKeyBinding(q, v, d, kb, k) ==
  /\ verdict' = VCKbVerified(q, v, d, kb, k)
  /\ UNCHANGED <<now, list, frames, issued>>

(* The answers of holders to q, as CreateKeyBindingJWT makes them: which KB-JWT *)
(* arrives with which SD-JWT is the subject of KeyBinding.                      *)
Answer(q, v, d, h, t) ==
  [key |-> h, iat |-> t, audience |-> q.audience, nonce |-> q.nonce,
   sdHash |-> Base!HashSDJWT(v, d, Base!StatedAlg(v))]

Answers(q, v, d) == {Answer(q, v, d, h, t) : h \in Key, t \in 0..now}

-----------------------------------------------------------------------------
TokenIds == 0..MaxTokens

Next ==
  \/ Tick
  \/ StatusListStep
  \/ \E config \in Issuers, input \in Claims, f \in DOMAIN Frames, o \in Options :
       IssueVC(config, input, f, o) \/ IssuePlain(config, input, f, o)
  \/ \E q \in Requests, v \in issued, d \in Disclosed, k \in TokenIds :
       \/ VerifySDJWTVC(q, v, d, k)
       \/ \E kb \in Base!AtMostOne(Answers(q, v, d)) :
            VerifySDJWTVCWithKeyBinding(q, v, d, kb, k)

Spec == Init /\ [][Next]_vars

-----------------------------------------------------------------------------
IssuedVC ==
  [signer : Party, iss : Party \cup {""}, alg : Base!Algorithm, typ : {TypeHeader, "sd+jwt"},
   names : SUBSET Name, malformed : SUBSET ClaimsNotSelectivelyDisclosable,
   sd : SUBSET Name, aud : SUBSET Party, exp : Int, nbf : Int, cnf : SUBSET Key,
   vct : {"", "type"}, integrity : {"well-formed", "malformed"}, idx : Int,
   uri : {"", StatusURI}, decoys : Nat]

(* Values have their types, and frames are as their owners made them but for   *)
(* the decoys; the disclosures of an SD-JWT are of claims that it has.         *)
TypeOK ==
  /\ now \in 0..MaxTime
  /\ List!TypeOK
  /\ frames \in [DOMAIN Frames -> DisclosureFrame]
  /\ \A f \in DOMAIN Frames : frames[f] = [Frames[f] EXCEPT !.decoys = frames[f].decoys]
  /\ issued \subseteq IssuedVC
  /\ \A v \in issued : v.sd \subseteq v.names /\ v.names \cap v.malformed = {}
  /\ \A r \in verdict : r.cred \in issued /\ r.disclosed \subseteq r.cred.sd

(***************************************************************************)
(* VCIssuer and VerifySDJWTVC agree: of what VCIssuer issued from claims   *)
(* whose values are of the right types, by whatever frame and with         *)
(* whatever options it accepted but the holder's key null, the VC verifier *)
(* refuses nothing that the plain verifier accepts, as long as the clock   *)
(* is the same and the status is not checked or published as valid.        *)
(***************************************************************************)
IssuedIsAccepted ==
  \A v \in issued, q \in Requests, d \in Disclosed, k \in TokenIds :
    /\ v.typ = TypeHeader /\ v.malformed = {}
    /\ q.clock = {} /\ ~q.options.allowExpired
    /\ q.checkStatus /\ "status" \in v.names =>
         /\ k \in DOMAIN tokens /\ q.listSize = size /\ v.idx < size
         /\ List!Published[k][v.idx] = List!StatusValid
    => /\ VCVerified(q, v, d, k) = Base!VerifyResult(q, v, d)
       /\ \A kb \in Answers(q, v, d) :
            VCKbVerified(q, v, d, {kb}, k) = Base!KbResult(q, v, d, {kb})

(***************************************************************************)
(* A VC whose status in a token is not valid is refused with that token by *)
(* every verifier that checks the status, with or without key binding,     *)
(* whatever is disclosed of the VC and whatever the verifier believes the  *)
(* size of the list to be.                                                 *)
(***************************************************************************)
RevokedIsRefused ==
  \A v \in issued, q \in Requests, d \in Disclosed, k \in DOMAIN tokens :
    /\ v.typ = TypeHeader /\ "status" \in v.names /\ v.idx \in 0..(size - 1)
    /\ List!Published[k][v.idx] # List!StatusValid
    /\ q.checkStatus
    => /\ VCVerified(q, v, d, k) = {}
       /\ \A kb \in Answers(q, v, d) : VCKbVerified(q, v, d, {kb}, k) = {}

(***************************************************************************)
(* Withholding disclosures does not get anything past VerifySDJWTVC, also  *)
(* not SD-JWTs that the plain issuer signed with the same key: what passes *)
(* with some disclosures passes with all of them.  The exception is aud,   *)
(* which may be disclosable and is then checked only if it is required.    *)
(***************************************************************************)
WithholdingIsNoHelp ==
  \A v \in issued, q \in Requests, d \in Disclosed, k \in TokenIds :
    /\ VCVerified(q, v, d, k) # {}
    /\ "aud" \in v.sd /\ q.options.expectedAudience # "" => "aud" \in q.options.required
    => VCVerified(q, v, v.sd, k) # {}

(***************************************************************************)
(* A VC with the holder's key is bound to it in every presentation: if     *)
(* VerifySDJWTVC accepts some selection of disclosures, then so does       *)
(* VerifySDJWTVCWithKeyBinding with the holder's answer, as long as the    *)
(* answer is fresh, and never with the answer of anyone else.              *)
(***************************************************************************)
HolderIsBound ==
  \A v \in issued, q \in Requests, d \in Disclosed, k \in TokenIds, h \in Key :
    /\ "cnf" \in v.names /\ v.cnf # {} /\ Base!RequirementValid(q)
    /\ \E r \in VCVerified(q, v, d, k) : r.valid
    => \E r \in VCKbVerified(q, v, d, {Answer(q, v, d, h, now)}, k) : r.valid <=> h \in v.cnf

(***************************************************************************)
(* sdjwtvc.go:492: "AllowedClockSkew is the allowed clock skew for time    *)
(* validation": a VC that is within it of its period is not refused, where *)
(* it would be accepted in its period.                                     *)
(***************************************************************************)
SkewIsAllowed ==
  \A v \in issued, q \in Requests :
    /\ v.typ = TypeHeader /\ v.malformed = {} /\ "aud" \notin v.names
    /\ q.clock = {} /\ ~q.checkStatus /\ v.signer = q.options.issuer
    /\ q.options.trusted = {} /\ q.options.required = {}
    /\ "nbf" \in v.names => v.nbf <= now + q.clockSkew
    /\ "exp" \in v.names => v.exp >= now - q.clockSkew
    => VCVerified(q, v, v.sd, 0) # {}
=============================================================================
