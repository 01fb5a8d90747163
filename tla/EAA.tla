--------------------------------- MODULE EAA ----------------------------------
(***************************************************************************)
(* ETSI electronic attestations of attributes: NewEAAIssuer,               *)
(* EAAIssuer.Issue with frames that belong to the caller, and ValidateEAA  *)
(* of what Verifier.Verify and VerifyWithKeyBinding return.                *)
(*                                                                         *)
(* An EAA is a credential of KeyBinding with more fields and is verified   *)
(* by the operators of KeyBinding first.  AsVC reads it as the VC of       *)
(* VerifiableCredential that it also is.  Nothing checks the frame, so     *)
(* also the members of cnf, status and subAttrs may be disclosable: such a *)
(* member is a name of its own, with the claims that it is in as Above it. *)
(***************************************************************************)
EXTENDS Integers, FiniteSets

CONSTANTS Name, Key, Party, Nonce, Disclosed, MaxTime,  \* as in KeyBinding
          Configs,   \* configurations of EAA issuers
          Claims,    \* attested attributes: the claims to issue
          Options,   \* EAAIssueOptions
          Frames,    \* the callers' frames as they made them
          Requests,  \* requests of verifiers, and EAAValidationOptions
          MaxIssuers, \* bound: issuers made
          MaxIssued  \* bound: EAAs issued

Qualified == {"qeaa", "pub-eaa"}
EAACategory == Qualified \cup {"regular", ""}

EAAClaimsNotSelectivelyDisclosable ==
  {"iss", "vct", "vct#integrity", "jti", "nbf", "exp", "category", "issuing_authority",
   "issuing_country", "iss_reg_id", "adm_nbf", "adm_exp", "cnf", "status", "oneTime", "shortLived"}

CertificateMember == {"cnf.x5c", "cnf.x5u", "cnf.x5t#S256"}
CnfMember == {"cnf.jwk"} \cup CertificateMember

(* The members that the validators look at.  cnf.jwk.x stands for those of a  *)
(* JWK without which it is no key, status.uri for the four that ETSI requires *)
(* and subAttrs.attrs for those required of every subject.                    *)
Member == CnfMember \cup {"cnf.jwk.x", "status.uri", "status.status_list", "subAttrs.attrs"}

(* Says that cnf.x5t#S256 is "", which is a string, but of no use. *)
EmptyThumbprint == "cnf.x5t#S256 empty"

Above(n) ==
  CASE n \in CnfMember \cup {EmptyThumbprint} -> {"cnf"}
    [] n = "cnf.jwk.x" -> {"cnf", "cnf.jwk"}
    [] n \in {"status.uri", "status.status_list"} -> {"status"}
    [] n = "subAttrs.attrs" -> {"subAttrs"}
    [] OTHER -> {}

Inside(S) == {n \in Member \cup {EmptyThumbprint} : Above(n) \cap S # {}}

Certificate == {"own", "signers"}

NilFrame == "nil"

(* identity has those of the claims about the issuer that are configured.  A  *)
(* certificate or a chain, known by its first certificate, may be missing, and *)
(* a chain may be of any certificate.                                         *)
EAAIssuerConfig ==
  [category : EAACategory, id : Party \cup {""},
   identity : SUBSET {"issuing_authority", "issuing_country", "iss_reg_id"},
   signer : Party, alg : STRING, url : BOOLEAN, certificate : SUBSET Certificate, chain : SUBSET Certificate,
   signerCertificate : SUBSET Certificate, signerChain : SUBSET Certificate]

Malformable ==
  {"adm_nbf", "adm_exp", "subAttrs", "cnf", "status", "status.status_list", EmptyThumbprint}
    \cup CnfMember

(* The names of the caller's claims and their members, which of them have a *)
(* value of the wrong type, and the category.                               *)
Attributes ==
  [names : SUBSET Name, malformed : SUBSET Malformable, category : Qualified \cup {"other"}]

(* given has the options that are set, by the names of their claims.  admNbf, *)
(* admExp and cnf, the key in a JWK, stand for the caller's claims as well.   *)
EAAIssueOptions ==
  [given : SUBSET {"vct", "vct#integrity", "jti", "nbf", "exp", "sub", "also_known_as", "adm_nbf",
                   "adm_exp", "status", "oneTime", "shortLived", "subAttrs"},
   integrity : {"well-formed", "malformed"}, nbf : Int, exp : Int, admNbf : Int, admExp : Int,
   key : {"none", "object", "null", "unreadable"}, cnf : SUBSET Key, certificate : BOOLEAN,
   url : BOOLEAN, subAttrsComplete : BOOLEAN, decoys : Nat]

ASSUME EAAArgumentsTyped ==
  /\ Configs \subseteq EAAIssuerConfig /\ Claims \subseteq Attributes
  /\ \A c \in Claims :
       /\ \A n \in c.names \cup c.malformed : Above(n) \subseteq c.names \ c.malformed
       /\ c.malformed \subseteq c.names \cup {EmptyThumbprint} /\ "aud" \notin c.names
  /\ Options \subseteq EAAIssueOptions
  /\ Frames \in [DOMAIN Frames -> [sd : SUBSET Name, decoys : Nat]]
  /\ \A q \in Requests : {q.skew, q.clockSkew} \subseteq Nat /\ q.clock \cup {q.maxAge} \subseteq Int
                         /\ q.claims \cap Member = {}
  /\ EAAClaimsNotSelectivelyDisclosable \cup {"iat", "sub", "also_known_as", "subAttrs"} \cup Member
       \subseteq Name
  /\ MaxTime \in Nat /\ MaxIssuers \in Nat /\ MaxIssued \in Nat

VARIABLES now, verdict, \* as in KeyBinding
          issuers,      \* the EAAIssuer values
          frames,       \* the callers' frames as they are
          issued

vars == <<now, verdict, issuers, frames, issued>>

Base == INSTANCE KeyBinding
          WITH Credentials <- {}, Options <- {}, Sessions <- {}, Skew <- 0, MaxKBs <- 0,
               wallet <- [h \in {} |-> h], kbs <- {}

Init == now = 0 /\ verdict = {} /\ issuers = {} /\ frames = Frames /\ issued = {}

Tick == now < MaxTime /\ now' = now + 1 /\ UNCHANGED <<verdict, issuers, frames, issued>>

-----------------------------------------------------------------------------
(* What is not configured is taken from the signer. *)
WithCertificate(config) ==
  [config EXCEPT !.certificate = IF @ = {} THEN config.signerCertificate ELSE @,
                 !.chain = IF @ = {} THEN config.signerChain ELSE @]

(* Bug: the fields that only qualified issuers need are not looked at. *)
HasId(config) == config.id # ""

(* validateEAAIssuerConfig *)
ConfigValid(config) ==
  /\ config.id # ""
  /\ config.category \in Qualified =>
       {"issuing_authority", "issuing_country"} \subseteq config.identity
         /\ config.url /\ config.certificate # {}

NewEAAIssuer(config) ==
  /\ Cardinality(issuers) < MaxIssuers
  /\ ConfigValid(WithCertificate(config))
  /\ issuers' = issuers \cup {WithCertificate(config)}
  /\ UNCHANGED <<now, verdict, frames, issued>>

(* buildX509Headers *)
Headers(config) ==
  IF config.category \in Qualified
    THEN [x5u |-> config.url, thumbprint |-> config.certificate,
          x5c |-> IF config.chain # {} THEN config.chain ELSE config.certificate]
    ELSE [x5u |-> FALSE, thumbprint |-> {}, x5c |-> {}]

-----------------------------------------------------------------------------
(* Bug: the claims that ETSI requires of qualified EAAs are not. *)
OptionsOfRegular(config, o) ==
  /\ {"vct", "vct#integrity", "jti", "nbf", "exp"} \subseteq o.given
  /\ o.given \cap {"sub", "also_known_as"} # {}
  /\ "adm_nbf" \in o.given <=> "adm_exp" \in o.given
  /\ "subAttrs" \in o.given => o.subAttrsComplete

(* validateIssueOptions *)
OptionsValid(config, o) ==
  /\ {"vct", "vct#integrity", "jti", "nbf", "exp"} \subseteq o.given
  /\ o.given \cap {"sub", "also_known_as"} # {}
  /\ "adm_nbf" \in o.given <=> "adm_exp" \in o.given
  /\ config.category \in Qualified => "status" \in o.given
  /\ "subAttrs" \in o.given => o.subAttrsComplete

HasCNF(o) == o.key # "none" \/ o.certificate

CertificateMembers(o) ==
  CASE ~o.certificate -> {}
    [] o.certificate /\ o.url -> {"cnf.x5u", "cnf.x5t#S256"}
    [] OTHER -> {"cnf.x5c"}

(* Bug: a certificate takes the place of the key. *)
CNFOfOne(o) ==
  IF o.certificate THEN CertificateMembers(o)
    ELSE {m \in {"cnf.jwk", "cnf.jwk.x"} : o.key = "object"}

(* The members that buildCNFClaim writes; a key that is not JSON is left out, *)
(* a key null is not.                                                         *)
BuildCNFClaim(o) ==
  {m \in {"cnf.jwk", "cnf.jwk.x"} : o.key = "object"} \cup {m \in {"cnf.jwk"} : o.key = "null"}
    \cup CertificateMembers(o)

(* The claims that Issue writes, over those of the caller. *)
Added(config, o) ==
  {"iss", "iat"} \cup o.given \cup config.identity
    \cup {n \in {"category"} : config.category \in Qualified} \cup {n \in {"cnf"} : HasCNF(o)}

(* Bug: a frame's claims count as disclosable though there are no such claims. *)
NamedDisclosable(frame, names) == frame.sd

(* The claims and members that packObject makes disclosable. *)
Disclosable(frame, names) == frame.sd \cap names

(* With the members of what Issue writes; its subAttrs are of a type in Go of *)
(* which packObject makes no member disclosable.                              *)
MembersAdded(config, o) ==
  BuildCNFClaim(o) \cup {n \in {"status.uri"} : "status" \in Added(config, o)}

(* The EAA that IssueWithFrame signs.  No code has input and options. *)
Signed(config, input, frame, o) ==
  LET adds == Added(config, o)
      names == (input.names \ Inside(adds)) \cup adds \cup MembersAdded(config, o)
  IN  [signer |-> config.signer, iss |-> config.id, alg |-> config.alg,
       names |-> names, sd |-> Disclosable(frame, names),
       malformed |-> (input.malformed \ (adds \cup Inside(adds)))
                       \cup {m \in {"cnf.jwk"} : o.key = "null"},
       exp |-> o.exp, nbf |-> o.nbf, aud |-> {}, admNbf |-> o.admNbf, admExp |-> o.admExp,
       integrity |-> o.integrity, cnf |-> IF "cnf.jwk.x" \in names THEN o.cnf ELSE {},
       category |-> IF "category" \in adds THEN config.category ELSE input.category,
       headers |-> Headers(config), config |-> config, input |-> input, options |-> o]

(***************************************************************************)
(* EAAIssuer.Issue.  The frame is not looked at; the number of decoys is   *)
(* written into it, where it stays, also if signing then fails.  In place  *)
(* of a nil frame there is a new one in each call.                         *)
(***************************************************************************)
Issue(config, input, f, o) ==
  /\ Cardinality(issued) < MaxIssued
  /\ OptionsValid(config, o)
  /\ frames' = IF f = NilFrame \/ o.decoys = 0 THEN frames
                 ELSE [frames EXCEPT ![f].decoys = o.decoys]
  /\ issued' = IF config.alg \in Base!Algorithm /\ input.names \cap {"_sd", "_sd_alg", "..."} = {}
                 THEN issued \cup {Signed(config, input, frames[f], o)} ELSE issued
  /\ UNCHANGED <<now, verdict, issuers>>

-----------------------------------------------------------------------------
(* The processed payload: what is inside of what is withheld is not there. *)
Shown(e, d) == {n \in Base!Payload(e, d) : Above(n) \subseteq Base!Payload(e, d)}

(* A disclosure whose digest is in one that is withheld is not used: an error. *)
Connected(e, d) == \A n \in d : Above(n) \subseteq Base!Payload(e, d)

(* KeyBinding's verifier, of EAAs with such members.  extractHolderPublicKey *)
(* needs the whole key in cnf.                                               *)
VerifyResult(q, e, d) == {r \in Base!VerifyResult(q, e, d) : Connected(e, d)}

KbResult(q, e, d, kb) ==
  {r \in Base!KbResult(q, e, d, kb) :
     Connected(e, d) /\ {"cnf.jwk", "cnf.jwk.x"} \subseteq Shown(e, d)}

(* The validator's clock, which may be set to a time of its own. *)
Clock(q) == IF q.clock = {} THEN now ELSE CHOOSE t \in q.clock : TRUE

Within(q, first, last) == first <= Clock(q) + q.skew /\ last >= Clock(q) - q.skew

(* Bug: an EAA is of a subject or a pseudonym, and not of both. *)
OneSubjectPresent(payload) ==
  /\ {"vct", "vct#integrity", "iss", "jti", "nbf", "exp"} \subseteq payload
  /\ Cardinality(payload \cap {"sub", "also_known_as"}) = 1

RequiredPresent(payload) ==
  /\ {"vct", "vct#integrity", "iss", "jti", "nbf", "exp"} \subseteq payload
  /\ payload \cap {"sub", "also_known_as"} # {}

(* Bug: an EAA without a category may be of any. *)
CategoryIfPresent(q, e, payload) ==
  q.category \cap Qualified # {} /\ "category" \in payload => e.category \in q.category

(* ExpectedCategory, which need not be set. *)
CategoryExpected(q, e, payload) ==
  /\ q.category \cap Qualified # {} => "category" \in payload /\ e.category \in q.category
  /\ "regular" \in q.category => "category" \notin payload

QualifiedComplete(e, payload) ==
  "category" \in payload /\ e.category \in Qualified =>
    {"issuing_authority", "issuing_country", "status"} \subseteq payload

DatesValid(q, e, payload) ==
  /\ q.skipNotBefore \/ e.nbf <= Clock(q) + q.skew
  /\ q.skipExpiration \/ e.exp >= Clock(q) - q.skew
  /\ "adm_nbf" \in payload <=> "adm_exp" \in payload
  /\ "adm_nbf" \in payload /\ ~q.skipAdministrative =>
       {"adm_nbf", "adm_exp"} \cap e.malformed = {} /\ Within(q, e.admNbf, e.admExp)

(* Bug: a cnf without any key will do. *)
CNFConsistent(e, payload) ==
  /\ "cnf.x5c" \in payload => {"cnf.x5u", "cnf.x5t#S256"} \cap payload = {}
  /\ "cnf.x5u" \in payload => "cnf.x5t#S256" \in payload
  /\ "cnf.x5t#S256" \notin payload \cap e.malformed

(* validateEAACNF: of jwk, x5c and x5u it is enough that they are there. *)
CNFValid(e, payload) ==
  /\ "cnf.x5c" \in payload => {"cnf.x5u", "cnf.x5t#S256"} \cap payload = {}
  /\ "cnf.x5u" \in payload => "cnf.x5t#S256" \in payload
  /\ "cnf.x5t#S256" \notin payload \cap e.malformed
  /\ {"cnf.jwk", "cnf.x5c", "cnf.x5u"} \cap payload # {}

(* validateEAAStatus, validateSubAttrs and validateEAACNF *)
StructuresValid(e, payload) ==
  /\ {"status", "subAttrs", "cnf"} \cap payload \cap e.malformed = {}
  /\ "status" \in payload => "status.uri" \in payload
  /\ "subAttrs" \in payload => "subAttrs.attrs" \notin e.sd \ payload
  /\ "cnf" \in payload => CNFValid(e, payload)

(* ValidateEAA, of the processed payload of e with d disclosed. *)
ValidateEAA(q, e, d) ==
  LET payload == Shown(e, d)
  IN  /\ RequiredPresent(payload) /\ CategoryExpected(q, e, payload)
      /\ QualifiedComplete(e, payload) /\ DatesValid(q, e, payload) /\ StructuresValid(e, payload)

EAAVerified(q, e, d) == {r \in VerifyResult(q, e, d) : ValidateEAA(q, r.cred, r.disclosed)}

EAAKbVerified(q, e, d, kb) == {r \in KbResult(q, e, d, kb) : ValidateEAA(q, r.cred, r.disclosed)}

VerifyEAA(q, e, d) == verdict' = EAAVerified(q, e, d) /\ UNCHANGED <<now, issuers, frames, issued>>

VerifyEAAWithKeyBinding(q, e, d, kb) ==
  verdict' = EAAKbVerified(q, e, d, kb) /\ UNCHANGED <<now, issuers, frames, issued>>

(* The answers of holders to q: which KB-JWT arrives with which SD-JWT is the *)
(* subject of KeyBinding.                                                     *)
Answer(q, e, d, h, t) ==
  [key |-> h, iat |-> t, audience |-> q.audience, nonce |-> q.nonce,
   sdHash |-> Base!HashSDJWT(e, d, Base!StatedAlg(e))]

-----------------------------------------------------------------------------
(* validateCNFClaim: only the first that is there of jwk, x5c and x5u counts, *)
(* and it must have the right type.                                           *)
CNFValidForVC(e, payload) ==
  \/ "cnf.jwk" \in payload \ e.malformed
  \/ "cnf.jwk" \notin payload /\ "cnf.x5c" \in payload \ e.malformed
  \/ /\ {"cnf.jwk", "cnf.x5c"} \cap payload = {} /\ {"cnf.x5u", "cnf.x5t#S256"} \subseteq payload
     /\ {"cnf.x5u", EmptyThumbprint} \cap e.malformed = {}

StatusValidForVC(e, payload) == "status.status_list" \in payload \ e.malformed

(***************************************************************************)
(* What ValidateVCWithOptions sees in an EAA with d disclosed: a status or *)
(* a cnf that is of no use to it is malformed.                             *)
(***************************************************************************)
AsVC(e, d) ==
  LET payload == Shown(e, d)
  IN  [names |-> e.names, sd |-> e.sd, vct |-> "type", integrity |-> e.integrity,
       nbf |-> e.nbf, exp |-> e.exp, idx |-> 0, uri |-> "uri",
       malformed |-> payload \cap (e.malformed
                                    \cup {n \in {"status"} : ~StatusValidForVC(e, payload)}
                                    \cup {n \in {"cnf"} : ~CNFValidForVC(e, payload)})]

VC == INSTANCE VerifiableCredential
        WITH Sizes <- {}, Widths <- {}, Indexes <- {}, Values <- {}, ListSizes <- {}, MaxTokens <- 0,
             Issuers <- {}, size <- 0, bitsPerStatus <- 1, bits <- {}, tokens <- {}

-----------------------------------------------------------------------------
Next ==
  \/ Tick
  \/ \E config \in Configs : NewEAAIssuer(config)
  \/ \E config \in issuers, input \in Claims, f \in DOMAIN Frames, o \in Options :
       Issue(config, input, f, o)
  \/ \E q \in Requests, e \in issued, d \in Disclosed :
       \/ VerifyEAA(q, e, d)
       \/ \E kb \in Base!AtMostOne({Answer(q, e, d, h, now) : h \in Key}) :
            VerifyEAAWithKeyBinding(q, e, d, kb)

Spec == Init /\ [][Next]_vars

-----------------------------------------------------------------------------
IssuedEAA ==
  [signer : Party, iss : Party, alg : Base!Algorithm, names : SUBSET Name, sd : SUBSET Name,
   malformed : SUBSET Malformable, exp : Int, nbf : Int, aud : {{}}, admNbf : Int, admExp : Int,
   integrity : {"well-formed", "malformed"}, cnf : SUBSET Key,
   category : Qualified \cup {"other"},
   headers : [x5u : BOOLEAN, thumbprint : SUBSET Certificate, x5c : SUBSET Certificate],
   config : EAAIssuerConfig, input : Claims, options : Options]

(* Values have their types, and frames are as their owners made them but for  *)
(* the decoys; the disclosures of an EAA are of claims that it has.           *)
TypeOK ==
  /\ now \in 0..MaxTime
  /\ issuers \subseteq EAAIssuerConfig
  /\ frames \in [DOMAIN Frames -> [sd : SUBSET Name, decoys : Nat]]
  /\ \A f \in DOMAIN Frames : frames[f].sd = Frames[f].sd
  /\ issued \subseteq IssuedEAA
  /\ \A e \in issued : e.sd \subseteq e.names /\ e.config \in issuers
  /\ \A r \in verdict : r.cred \in issued /\ r.disclosed \subseteq r.cred.sd

Sound(e) ==
  /\ e.input.names \cap EAAClaimsNotSelectivelyDisclosable = {} /\ e.input.malformed = {}
  /\ e.options.key = "unreadable" => e.options.certificate

(***************************************************************************)
(* EAAIssuer.Issue and ValidateEAA agree: an EAA of any issuer, with any   *)
(* options that were accepted and any frame, whose claims are attributes   *)
(* and whose key, if there is one, can be read, passes ValidateEAA         *)
(* whenever it passes the plain verifier, is expected of its issuer's      *)
(* category, is in its administrative period, and shows the reserved       *)
(* claims with all their members, the subject, and all of subAttrs if any. *)
(***************************************************************************)
IssuedIsAccepted ==
  \A e \in issued, q \in Requests, d \in Disclosed :
    /\ Sound(e) /\ q.clock = {} /\ ~q.options.allowExpired
    /\ q.category \subseteq {e.config.category}
    /\ {n \in e.sd \cap (EAAClaimsNotSelectivelyDisclosable \cup Member) :
          Above(n) \subseteq Base!Payload(e, d)} \subseteq d
    /\ {"sub", "also_known_as"} \cap Base!Payload(e, d) # {}
    /\ "adm_nbf" \in e.names => q.skipAdministrative \/ (e.admNbf <= now /\ now <= e.admExp)
    => /\ EAAVerified(q, e, d) = VerifyResult(q, e, d)
       /\ \A h \in Key : LET kb == {Answer(q, e, d, h, now)}
                         IN  EAAKbVerified(q, e, d, kb) = KbResult(q, e, d, kb)

(***************************************************************************)
(* An EAA of a qualified trust service provider or public body is complete *)
(* whatever the caller's claims and options: it has the category of its    *)
(* issuer, the claims that ETSI requires of the category, and in its       *)
(* header the certificate's URL, thumbprint and chain.  The chain is of    *)
(* the certificate with this thumbprint, unless the configuration has, or  *)
(* has inherited from its signer, the chain of another certificate.        *)
(***************************************************************************)
QualifiedIsComplete ==
  \A e \in issued :
    e.config.category \in Qualified =>
      /\ {"category", "issuing_authority", "issuing_country", "status", "jti", "vct#integrity"}
           \subseteq e.names
      /\ e.category = e.config.category
      /\ e.headers.x5u /\ e.headers.thumbprint # {} /\ e.headers.x5c # {}
      /\ e.headers.x5c # e.headers.thumbprint => e.config.chain \notin {{}, e.config.certificate}

(***************************************************************************)
(* A verifier that expects a category is not deceived by what the caller   *)
(* claimed or by a selection of disclosures, with two exceptions: an EAA   *)
(* is accepted as qualified or from a public body only if its issuer is    *)
(* that, or is regular and left a category of the caller's in place; and   *)
(* as regular only if its issuer is not qualified, or the frame made the   *)
(* category disclosable and it is withheld.                                *)
(***************************************************************************)
CategoryIsIssuers ==
  \A e \in issued, q \in Requests, d \in Disclosed, h \in Key :
    EAAVerified(q, e, d) \cup EAAKbVerified(q, e, d, {Answer(q, e, d, h, now)}) # {} =>
      /\ q.category \cap Qualified # {} =>
           \/ e.config.category \in q.category
           \/ e.config.category \notin Qualified /\ "category" \in e.input.names
      /\ "regular" \in q.category => e.config.category \notin Qualified \/ "category" \in e.sd \ d

(***************************************************************************)
(* Withholding disclosures does not get an EAA past ValidateEAA that it    *)
(* refuses as a whole, if none of the claims that must not be disclosable  *)
(* is, and no member of cnf about a certificate, whose members exclude     *)
(* each other; and if subAttrs, which may be, was not written by the       *)
(* caller in a form that ValidateEAA refuses.                              *)
(***************************************************************************)
WithholdingIsNoHelp ==
  \A e \in issued, q \in Requests, d \in Disclosed :
    /\ e.sd \cap (EAAClaimsNotSelectivelyDisclosable \cup CertificateMember) = {}
    /\ "subAttrs" \notin e.malformed
    /\ EAAVerified(q, e, d) # {}
    => EAAVerified(q, e, e.sd) # {}

(***************************************************************************)
(* An EAA issued for a holder's key, also together with a certificate, is  *)
(* bound to this key: wherever it is accepted, key binding is accepted     *)
(* from the holder and from nobody else, if what the frame made            *)
(* disclosable of cnf and the key in it is disclosed, and otherwise from   *)
(* nobody.  An EAA that is issued for a certificate only, or a key that    *)
(* cannot be read, is bound to none.                                       *)
(***************************************************************************)
HolderIsBound ==
  \A e \in issued, q \in Requests, d \in Disclosed, h \in Key :
    /\ HasCNF(e.options) /\ Base!RequirementValid(q)
    /\ \E r \in EAAVerified(q, e, d) : r.valid
    => ((\E r \in EAAKbVerified(q, e, d, {Answer(q, e, d, h, now)}) : r.valid)
          <=> /\ e.options.key = "object" /\ h \in e.options.cnf
              /\ e.sd \cap {"cnf", "cnf.jwk", "cnf.jwk.x"} \subseteq d)

(***************************************************************************)
(* etsi_eaa.go:4: the EAA "profiles SD-JWT VC".  What ValidateEAA accepts  *)
(* is a VC to VerifySDJWTVC with the same skew or more, whatever is        *)
(* withheld, also of cnf, but for what ETSI has differently: a status that *)
(* is not also of a status list, an integrity that is not checked, and     *)
(* members of cnf of which the type is not checked, like a key null.       *)
(***************************************************************************)
EAAsAreVCs ==
  \A e \in issued, q \in Requests, d \in Disclosed :
    /\ EAAVerified(q, e, d) # {} /\ q.skew <= q.clockSkew /\ e.integrity = "well-formed"
    /\ "status" \in Shown(e, d) => StatusValidForVC(e, Shown(e, d))
    /\ "cnf" \in Shown(e, d) => e.malformed \cap ({EmptyThumbprint} \cup (CnfMember \cap Shown(e, d))) = {}
    => VC!ClaimsValid(q, AsVC(e, d), d)

(***************************************************************************)
(* etsi_eaa.go:888: "ETSI EAA specific claims that MUST NOT be selectively *)
(* disclosed".                                                             *)
(***************************************************************************)
ReservedStaysVisible ==
  \A e \in issued : e.sd \cap EAAClaimsNotSelectivelyDisclosable = {}
=============================================================================
