------------------------------ MODULE EAAProofs -------------------------------
(***************************************************************************)
(* For all configurations, attributes, options, frames and requests: what  *)
(* EAAIssuer issues is complete, keeps its category and is bound to its    *)
(* holder, withholding disclosures helps nobody, and ValidateEAA agrees.   *)
(***************************************************************************)
EXTENDS EAA, TLAPS

(* What NewEAAIssuer has checked. *)
MadeByNew(config) ==
  config \in EAAIssuerConfig /\ ConfigValid(config)

(* What Issue has checked, and made of it. *)
MadeByIssue(e) ==
  LET adds == Added(e.config, e.options)
  IN  /\ MadeByNew(e.config) /\ e.input \in Claims /\ e.options \in Options
      /\ OptionsValid(e.config, e.options)
      /\ e.names = (e.input.names \ Inside(adds)) \cup adds \cup MembersAdded(e.config, e.options)
      /\ e.sd \subseteq e.names
      /\ e.malformed = (e.input.malformed \ (adds \cup Inside(adds)))
                         \cup {m \in {"cnf.jwk"} : e.options.key = "null"}
      /\ e.nbf = e.options.nbf /\ e.exp = e.options.exp
      /\ e.admNbf = e.options.admNbf /\ e.admExp = e.options.admExp
      /\ e.headers = Headers(e.config)
      /\ e.category = IF "category" \in adds THEN e.config.category ELSE e.input.category
      /\ e.cnf = IF "cnf.jwk.x" \in e.names THEN e.options.cnf ELSE {}

EAAInv ==
  /\ now \in Int
  /\ \A config \in issuers : MadeByNew(config)
  /\ \A e \in issued : MadeByIssue(e)

-----------------------------------------------------------------------------
LEMMA ConfigMade ==
  ASSUME NEW c \in Configs, ConfigValid(WithCertificate(c))
  PROVE  MadeByNew(WithCertificate(c))
<1>1. c \in EAAIssuerConfig BY EAAArgumentsTyped
<1>2. WithCertificate(c) \in EAAIssuerConfig BY <1>1 DEF WithCertificate, EAAIssuerConfig
<1> QED BY <1>2 DEF MadeByNew

LEMMA SignedMade ==
  ASSUME NEW config, MadeByNew(config), NEW input \in Claims, NEW frame, NEW o \in Options,
         OptionsValid(config, o)
  PROVE  MadeByIssue(Signed(config, input, frame, o))
<1> DEFINE e == Signed(config, input, frame, o)
           adds == Added(config, o)
<1>1. /\ e.config = config /\ e.input = input /\ e.options = o
      /\ e.names = (input.names \ Inside(adds)) \cup adds \cup MembersAdded(config, o)
      /\ e.sd = frame.sd \cap e.names
      /\ e.malformed = (input.malformed \ (adds \cup Inside(adds))) \cup {m \in {"cnf.jwk"} : o.key = "null"}
      /\ e.nbf = o.nbf /\ e.exp = o.exp /\ e.admNbf = o.admNbf /\ e.admExp = o.admExp
      /\ e.headers = Headers(config)
      /\ e.category = IF "category" \in adds THEN config.category ELSE input.category
      /\ e.cnf = IF "cnf.jwk.x" \in e.names THEN o.cnf ELSE {}
  BY DEF Signed, Disclosable
<1> SUFFICES MadeByIssue(e) OBVIOUS
<1> HIDE DEF e
<1> QED BY <1>1 DEF MadeByIssue

LEMMA Initially == Init => EAAInv
BY DEF Init, EAAInv

LEMMA Inductive == EAAInv /\ [Next]_vars => EAAInv'
<1> SUFFICES ASSUME EAAInv, [Next]_vars PROVE EAAInv' OBVIOUS
<1> USE DEF EAAInv
<1>1. ASSUME UNCHANGED <<issuers, issued>>, now' = now \/ now' = now + 1 PROVE EAAInv'
  <2>1. now' \in Int BY <1>1
  <2> QED BY <1>1, <2>1
<1>2. ASSUME NEW config \in Configs, NewEAAIssuer(config) PROVE EAAInv'
  <2>1. /\ issuers' = issuers \cup {WithCertificate(config)}
        /\ ConfigValid(WithCertificate(config)) /\ UNCHANGED <<now, issued>>
    BY <1>2 DEF NewEAAIssuer
  <2> QED BY <2>1, ConfigMade
<1>3. ASSUME NEW config \in issuers, NEW input \in Claims, NEW f \in DOMAIN Frames,
             NEW o \in Options, Issue(config, input, f, o)
      PROVE  EAAInv'
  <2> DEFINE e == Signed(config, input, frames[f], o)
  <2>1. /\ issued' = issued \cup {e} \/ issued' = issued
        /\ OptionsValid(config, o) /\ UNCHANGED <<now, issuers>>
    BY <1>3 DEF Issue
  <2>2. MadeByIssue(e) BY <2>1, SignedMade
  <2> HIDE DEF e
  <2> QED BY <2>1, <2>2
<1>4. ASSUME Tick PROVE UNCHANGED <<issuers, issued>> /\ now' = now + 1 BY <1>4 DEF Tick
<1>5. ASSUME NEW q \in Requests, NEW e \in issued, NEW d \in Disclosed, NEW kb,
             VerifyEAA(q, e, d) \/ VerifyEAAWithKeyBinding(q, e, d, kb)
      PROVE  UNCHANGED <<now, issuers, issued>>
  BY <1>5 DEF VerifyEAA, VerifyEAAWithKeyBinding
<1> QED BY <1>1, <1>2, <1>3, <1>4, <1>5 DEF Next, vars

LEMMA Invariant == Spec => []EAAInv
<1> QED BY Initially, Inductive, PTL DEF Spec

-----------------------------------------------------------------------------
(***************************************************************************)
(* What a qualified issuer signs has what its category requires, whatever  *)
(* the caller's claims and options, and in its header one certificate and  *)
(* the chain that the configuration has, else the certificate itself.      *)
(***************************************************************************)
THEOREM QualifiedAreComplete == Spec => []QualifiedIsComplete
<1>1. EAAInv => QualifiedIsComplete
  <2> SUFFICES ASSUME EAAInv, NEW e \in issued, e.config.category \in Qualified
               PROVE  /\ {"category", "issuing_authority", "issuing_country", "status", "jti", "vct#integrity"}
                           \subseteq e.names
                      /\ e.category = e.config.category
                      /\ e.headers.x5u /\ e.headers.thumbprint # {} /\ e.headers.x5c # {}
                      /\ e.headers.x5c # e.headers.thumbprint =>
                           e.config.chain \notin {{}, e.config.certificate}
    BY DEF QualifiedIsComplete
  <2>1. MadeByIssue(e) BY DEF EAAInv
  <2>2. /\ ConfigValid(e.config) /\ OptionsValid(e.config, e.options)
        /\ Added(e.config, e.options) \subseteq e.names
        /\ "category" \in Added(e.config, e.options) => e.category = e.config.category
        /\ e.headers = Headers(e.config)
    BY <2>1 DEF MadeByIssue, MadeByNew
  <2>3. "category" \in Added(e.config, e.options) BY DEF Added
  <2>4. {"issuing_authority", "issuing_country"} \subseteq e.config.identity
          /\ e.config.url /\ e.config.certificate # {}
    BY <2>2 DEF ConfigValid
  <2>5. {"status", "jti", "vct#integrity"} \subseteq e.options.given BY <2>2 DEF OptionsValid
  <2>6. /\ e.headers.x5u = e.config.url /\ e.headers.thumbprint = e.config.certificate
        /\ e.headers.x5c = IF e.config.chain # {} THEN e.config.chain ELSE e.config.certificate
    BY <2>2 DEF Headers
  <2>7. {"category", "issuing_authority", "issuing_country", "status", "jti", "vct#integrity"} \subseteq e.names
    BY <2>2, <2>3, <2>4, <2>5 DEF Added
  <2> QED BY <2>2, <2>3, <2>4, <2>6, <2>7
<1> QED BY <1>1, Invariant, PTL

-----------------------------------------------------------------------------
(* A result of the plain verifier is about what it was given. *)
LEMMA BaseResultOf ==
  ASSUME NEW q, NEW e, NEW d, NEW kb, NEW r \in Base!VerifyResult(q, e, d) \cup Base!KbResult(q, e, d, kb)
  PROVE  r.cred = e /\ r.disclosed = d /\ Base!Genuine(q.options, e, d)
<1>1. Base!Genuine(q.options, e, d) /\ \E a, b : r = Base!Result(q, e, d, a, b)
  <2>1. CASE r \in Base!VerifyResult(q, e, d) BY <2>1, Zenon DEF Base!VerifyResult
  <2>2. CASE r \in Base!KbResult(q, e, d, kb) BY <2>2, Zenon DEF Base!KbResult
  <2> QED BY <2>1, <2>2
<1>2. ASSUME NEW a, NEW b
      PROVE  Base!Result(q, e, d, a, b).cred = e /\ Base!Result(q, e, d, a, b).disclosed = d
  BY DEF Base!Result
<1> QED BY <1>1, <1>2, Zenon

LEMMA ResultOf ==
  ASSUME NEW q, NEW e, NEW d, NEW kb, NEW r \in VerifyResult(q, e, d) \cup KbResult(q, e, d, kb)
  PROVE  /\ r.cred = e /\ r.disclosed = d
         /\ Base!Genuine(q.options, e, d) /\ Connected(e, d)
<1>1. r \in Base!VerifyResult(q, e, d) \cup Base!KbResult(q, e, d, kb) /\ Connected(e, d)
  BY DEF VerifyResult, KbResult
<1> QED BY <1>1, BaseResultOf

LEMMA PassedOf ==
  ASSUME NEW q, NEW e, NEW d, NEW kb, EAAVerified(q, e, d) \cup EAAKbVerified(q, e, d, kb) # {}
  PROVE  Base!Genuine(q.options, e, d) /\ Connected(e, d) /\ ValidateEAA(q, e, d)
<1>1. PICK r \in VerifyResult(q, e, d) \cup KbResult(q, e, d, kb) :
        ValidateEAA(q, r.cred, r.disclosed)
  BY DEF EAAVerified, EAAKbVerified
<1>2. r.cred = e /\ r.disclosed = d /\ Base!Genuine(q.options, e, d) /\ Connected(e, d)
  BY ResultOf
<1> QED BY <1>1, <1>2, Zenon

LEMMA PassesIf ==
  ASSUME NEW q, NEW e, NEW d,
         Base!Genuine(q.options, e, d) /\ Connected(e, d) => ValidateEAA(q, e, d)
  PROVE  /\ EAAVerified(q, e, d) = VerifyResult(q, e, d)
         /\ \A kb : EAAKbVerified(q, e, d, kb) = KbResult(q, e, d, kb)
<1>1. ASSUME NEW kb, NEW r \in VerifyResult(q, e, d) \cup KbResult(q, e, d, kb)
      PROVE  ValidateEAA(q, r.cred, r.disclosed)
  <2>1. r.cred = e /\ r.disclosed = d /\ Base!Genuine(q.options, e, d) /\ Connected(e, d) BY ResultOf
  <2> QED BY <2>1, Zenon
<1>2. EAAVerified(q, e, d) = VerifyResult(q, e, d)
  <2>1. \A r \in VerifyResult(q, e, d) \cup KbResult(q, e, d, {}) : ValidateEAA(q, r.cred, r.disclosed)
    BY <1>1
  <2> QED BY <2>1 DEF EAAVerified
<1> QED BY <1>1, <1>2 DEF EAAKbVerified

-----------------------------------------------------------------------------
(* Which names are inside which. *)
LEMMA AboveOf ==
  /\ \A n \in CnfMember \cup {EmptyThumbprint} : Above(n) = {"cnf"}
  /\ Above("cnf.jwk.x") = {"cnf", "cnf.jwk"}
  /\ Above("status.uri") = {"status"} /\ Above("status.status_list") = {"status"}
  /\ Above("subAttrs.attrs") = {"subAttrs"}
  /\ \A n : n \notin Member \cup {EmptyThumbprint} => Above(n) = {}
BY DEF Above, Member, CnfMember, CertificateMember, EmptyThumbprint

(* The claims of which this module speaks are not members. *)
TopLevel ==
  EAAClaimsNotSelectivelyDisclosable \cup {"iat", "sub", "also_known_as", "subAttrs", "aud"}

LEMMA TopLevelAbove == \A n \in TopLevel : n \notin Member \cup {EmptyThumbprint} /\ Above(n) = {}
<1>1. TopLevel \cap (Member \cup {EmptyThumbprint}) = {}
  BY DEF TopLevel, EAAClaimsNotSelectivelyDisclosable, Member, CnfMember, CertificateMember, EmptyThumbprint
<1> QED BY <1>1, AboveOf

LEMMA AddedTopLevel ==
  ASSUME NEW config \in EAAIssuerConfig, NEW o \in EAAIssueOptions
  PROVE  /\ Added(config, o) \subseteq TopLevel \ {"aud"}
         /\ MembersAdded(config, o) \subseteq Member
         /\ "category" \in Added(config, o) <=> config.category \in Qualified
         /\ "cnf" \in Added(config, o) <=> HasCNF(o)
<1>1. /\ config.identity \subseteq {"issuing_authority", "issuing_country", "iss_reg_id"}
      /\ o.given \subseteq {"vct", "vct#integrity", "jti", "nbf", "exp", "sub", "also_known_as",
             "adm_nbf", "adm_exp", "status", "oneTime", "shortLived", "subAttrs"}
  BY Zenon DEF EAAIssuerConfig, EAAIssueOptions
<1>2. CertificateMembers(o) \subseteq Member
  BY Zenon DEF CertificateMembers, Member, CnfMember, CertificateMember
<1>3. Added(config, o) \subseteq TopLevel \ {"aud"}
  BY <1>1 DEF Added, TopLevel, EAAClaimsNotSelectivelyDisclosable
<1>4. MembersAdded(config, o) \subseteq Member
  BY <1>2 DEF MembersAdded, BuildCNFClaim, Member, CnfMember
<1>5. "category" \in Added(config, o) <=> config.category \in Qualified BY <1>1 DEF Added
<1>6. "cnf" \in Added(config, o) <=> HasCNF(o) BY <1>1 DEF Added
<1> QED BY <1>3, <1>4, <1>5, <1>6

(* What is known of every EAA: which claims the issuer's options can add, and *)
(* that what is inside of something is there with it.                         *)
LEMMA ClaimsOf ==
  ASSUME EAAInv, NEW e \in issued
  PROVE  /\ e.sd \subseteq e.names /\ "aud" \notin e.names
         /\ {"vct", "vct#integrity", "iss", "jti", "nbf", "exp"} \subseteq e.names
         /\ "category" \in Added(e.config, e.options) <=> e.config.category \in Qualified
         /\ "cnf" \in Added(e.config, e.options) <=> HasCNF(e.options)
         /\ e.malformed \subseteq Malformable
         /\ \A n \in TopLevel : n \in e.names <=> n \in e.input.names \cup Added(e.config, e.options)
<1> DEFINE adds == Added(e.config, e.options)
<1>1. MadeByIssue(e) BY DEF EAAInv
<1>2. /\ e.config \in EAAIssuerConfig /\ e.input \in Attributes /\ e.options \in EAAIssueOptions
      /\ "aud" \notin e.input.names
  BY <1>1, EAAArgumentsTyped DEF MadeByIssue, MadeByNew
<1>3. e.input.malformed \subseteq Malformable BY <1>2, Zenon DEF Attributes
<1>4. /\ adds \subseteq TopLevel \ {"aud"} /\ MembersAdded(e.config, e.options) \subseteq Member
      /\ "category" \in adds <=> e.config.category \in Qualified
      /\ "cnf" \in adds <=> HasCNF(e.options)
  BY <1>2, AddedTopLevel
<1>5. {"vct", "vct#integrity", "iss", "jti", "nbf", "exp"} \subseteq adds
  BY <1>1 DEF MadeByIssue, OptionsValid, Added
<1>6. /\ e.names = (e.input.names \ Inside(adds)) \cup adds \cup MembersAdded(e.config, e.options)
      /\ e.sd \subseteq e.names
      /\ e.malformed \subseteq e.input.malformed \cup {"cnf.jwk"}
  BY <1>1 DEF MadeByIssue
<1>7. Inside(adds) \subseteq Member \cup {EmptyThumbprint} BY DEF Inside
<1> HIDE DEF adds
<1>8. \A n \in TopLevel : n \in e.names <=> n \in e.input.names \cup adds
  BY <1>4, <1>6, <1>7, TopLevelAbove
<1>9. "aud" \in TopLevel BY DEF TopLevel
<1>10. e.malformed \subseteq Malformable BY <1>3, <1>6 DEF Malformable, CnfMember
<1> QED BY <1>2, <1>4, <1>5, <1>6, <1>8, <1>9, <1>10 DEF adds

LEMMA InsideIsWithin ==
  ASSUME EAAInv, NEW e \in issued
  PROVE  \A n \in e.names : Above(n) \subseteq e.names
<1> DEFINE adds == Added(e.config, e.options)
           o == e.options
<1>1. MadeByIssue(e) BY DEF EAAInv
<1>2. \A n \in e.input.names : Above(n) \subseteq e.input.names
  BY <1>1, EAAArgumentsTyped DEF MadeByIssue
<1>3. "cnf" \in adds <=> HasCNF(o) BY ClaimsOf
<1>4. /\ e.names = (e.input.names \ Inside(adds)) \cup adds \cup MembersAdded(e.config, o)
      /\ adds \subseteq TopLevel /\ MembersAdded(e.config, o) \subseteq Member
  BY <1>1, EAAArgumentsTyped, AddedTopLevel DEF MadeByIssue, MadeByNew
<1> SUFFICES ASSUME NEW n \in e.names PROVE Above(n) \subseteq e.names OBVIOUS
<1>5. CASE n \in adds BY <1>4, <1>5, TopLevelAbove
<1>6. CASE n \in MembersAdded(e.config, o)
  <2>1. CASE n = "status.uri" /\ "status" \in adds BY <1>4, <2>1, AboveOf
  <2>2. CASE n \in CertificateMembers(o)
    <3>1. o.certificate = TRUE /\ n \in CnfMember
      <4>1. o.certificate \in BOOLEAN
        BY <1>1, EAAArgumentsTyped, Zenon DEF MadeByIssue, EAAIssueOptions
      <4> QED BY <2>2, <4>1, Zenon DEF CertificateMembers, CnfMember, CertificateMember
    <3>2. "cnf" \in adds BY <1>3, <3>1 DEF HasCNF
    <3> QED BY <1>4, <3>1, <3>2, AboveOf
  <2>3. CASE n \in {"cnf.jwk", "cnf.jwk.x"} /\ o.key \in {"object", "null"}
    <3>1. "cnf" \in adds BY <1>3, <2>3 DEF HasCNF
    <3>2. "cnf.jwk" \in MembersAdded(e.config, o) BY <2>3 DEF MembersAdded, BuildCNFClaim
    <3>3. Above(n) \subseteq {"cnf", "cnf.jwk"} BY <2>3, AboveOf DEF CnfMember
    <3> QED BY <1>4, <3>1, <3>2, <3>3
  <2> QED BY <1>6, <2>1, <2>2, <2>3 DEF MembersAdded, BuildCNFClaim
<1>7. CASE n \in e.input.names \ Inside(adds)
  <2>1. Above(n) \subseteq e.input.names BY <1>2, <1>7
  <2>2. n \in Member \cup {EmptyThumbprint} => Above(n) \cap adds = {} BY <1>7 DEF Inside
  <2>3. CASE Above(n) = {} BY <2>3
  <2>4. CASE Above(n) \subseteq TopLevel
    BY <1>4, <2>1, <2>4, TopLevelAbove DEF Inside
  <2>5. CASE n = "cnf.jwk.x"
    <3>1. "cnf" \in e.input.names /\ "cnf.jwk" \in e.input.names /\ "cnf" \notin adds
      BY <2>1, <2>2, <2>5, AboveOf DEF Member
    <3>2. "cnf.jwk" \notin Inside(adds) BY <3>1, AboveOf DEF Inside, CnfMember
    <3>3. "cnf" \notin Inside(adds) BY TopLevelAbove DEF Inside, TopLevel, EAAClaimsNotSelectivelyDisclosable
    <3> QED BY <1>4, <2>5, <3>1, <3>2, <3>3, AboveOf
  <2>6. Above(n) = {} \/ Above(n) \subseteq TopLevel \/ n = "cnf.jwk.x"
    BY DEF Above, TopLevel, EAAClaimsNotSelectivelyDisclosable
  <2> QED BY <2>3, <2>4, <2>5, <2>6
<1> QED BY <1>4, <1>5, <1>6, <1>7

(* What is not inside of anything is shown if it is in the payload. *)
LEMMA TopLevelShown ==
  ASSUME NEW e, NEW d
  PROVE  /\ Shown(e, d) \subseteq Base!Payload(e, d)
         /\ \A n \in TopLevel : n \in Shown(e, d) <=> n \in Base!Payload(e, d)
BY TopLevelAbove DEF Shown

(***************************************************************************)
(* A verifier that expects a category gets it from issuers of that         *)
(* category, whatever a presentation withholds: a qualified issuer's       *)
(* category replaces the caller's, so a false one is the caller's of a     *)
(* regular issuer, and a missing one is withheld.                          *)
(***************************************************************************)
THEOREM CategoriesAreTrue == Spec => []CategoryIsIssuers
<1>1. EAAInv => CategoryIsIssuers
  <2> SUFFICES ASSUME EAAInv, NEW e \in issued, NEW q \in Requests, NEW d \in Disclosed, NEW h \in Key,
                      EAAVerified(q, e, d) \cup EAAKbVerified(q, e, d, {Answer(q, e, d, h, now)}) # {}
               PROVE  /\ q.category \cap Qualified # {} =>
                           \/ e.config.category \in q.category
                           \/ e.config.category \notin Qualified /\ "category" \in e.input.names
                      /\ "regular" \in q.category =>
                           e.config.category \notin Qualified \/ "category" \in e.sd \ d
    BY DEF CategoryIsIssuers
  <2>1. d \subseteq e.sd /\ CategoryExpected(q, e, Shown(e, d))
    BY PassedOf DEF Base!Genuine, ValidateEAA
  <2>2. "category" \in Added(e.config, e.options) => e.category = e.config.category
    BY DEF EAAInv, MadeByIssue
  <2>3. /\ "category" \in Added(e.config, e.options) <=> e.config.category \in Qualified
        /\ "category" \in TopLevel
        /\ "category" \in e.names <=> "category" \in e.input.names \cup Added(e.config, e.options)
    BY ClaimsOf DEF TopLevel, EAAClaimsNotSelectivelyDisclosable
  <2>4. "category" \in Shown(e, d) <=> "category" \in (e.names \ e.sd) \cup d
    BY <2>3, TopLevelShown DEF Base!Payload
  <2>5. e.sd \subseteq e.names BY ClaimsOf
  <2> QED BY <2>1, <2>2, <2>3, <2>4, <2>5 DEF CategoryExpected
<1> QED BY <1>1, Invariant, PTL

(***************************************************************************)
(* Withholding gets nothing past ValidateEAA: it looks at claims that must *)
(* not be disclosable, and of the others it asks only that one be there.   *)
(***************************************************************************)
THEOREM WithholdingFutile == Spec => []WithholdingIsNoHelp
<1>1. EAAInv => WithholdingIsNoHelp
  <2> SUFFICES ASSUME EAAInv, NEW e \in issued, NEW q \in Requests, NEW d \in Disclosed,
                      e.sd \cap (EAAClaimsNotSelectivelyDisclosable \cup CertificateMember) = {},
                      "subAttrs" \notin e.malformed, EAAVerified(q, e, d) # {}
               PROVE  EAAVerified(q, e, e.sd) # {}
    BY DEF WithholdingIsNoHelp
  <2> DEFINE shown == Shown(e, d)
             whole == Shown(e, e.sd)
  <2>1. Base!Genuine(q.options, e, d) /\ ValidateEAA(q, e, d)
    <3>1. EAAVerified(q, e, d) \cup EAAKbVerified(q, e, d, {}) # {} OBVIOUS
    <3> QED BY <3>1, PassedOf
  <2>2. /\ e.sd \subseteq e.names /\ "aud" \notin e.names
        /\ \A n \in e.names : Above(n) \subseteq e.names
    BY ClaimsOf, InsideIsWithin
  <2>3. /\ Base!Payload(e, d) \subseteq Base!Payload(e, e.sd) /\ Base!Payload(e, e.sd) = e.names
        /\ \A n \in EAAClaimsNotSelectivelyDisclosable \cup CertificateMember :
             n \in Base!Payload(e, e.sd) <=> n \in Base!Payload(e, d)
        /\ "aud" \notin Base!Payload(e, e.sd)
    BY <2>1, <2>2 DEF Base!Payload, Base!Genuine
  <2>4. whole = e.names /\ Connected(e, e.sd) BY <2>2, <2>3 DEF Shown, Connected
  <2>5. {"iss", "exp", "nbf"} \subseteq EAAClaimsNotSelectivelyDisclosable
    BY DEF EAAClaimsNotSelectivelyDisclosable
  <2>6. Base!Genuine(q.options, e, e.sd)
    <3>1. Base!SeenClaimsValid(q.options, e, e.sd)
      BY <2>1, <2>3, <2>5 DEF Base!Genuine, Base!ClaimsValid, Base!SeenClaimsValid
    <3> QED BY <2>1, <2>3, <3>1 DEF Base!Genuine, Base!ClaimsValid
  <2>7. ValidateEAA(q, e, e.sd)
    <3>1. /\ {"category", "issuing_authority", "issuing_country", "status", "adm_nbf", "adm_exp", "cnf"}
                \subseteq EAAClaimsNotSelectivelyDisclosable
          /\ EAAClaimsNotSelectivelyDisclosable \subseteq TopLevel
          /\ CertificateMember \subseteq CnfMember
          /\ RequiredPresent(shown) /\ CategoryExpected(q, e, shown) /\ QualifiedComplete(e, shown)
          /\ DatesValid(q, e, shown) /\ StructuresValid(e, shown)
      BY <2>1 DEF ValidateEAA, EAAClaimsNotSelectivelyDisclosable, TopLevel, CnfMember
    <3>2. shown \subseteq whole BY <2>3, <2>4 DEF Shown
    <3>3. \A n \in {"category", "issuing_authority", "issuing_country", "status", "adm_nbf", "adm_exp", "cnf"} :
            n \in whole <=> n \in shown
      BY <2>3, <2>4, <3>1, TopLevelShown
    <3>4. "cnf" \in shown => \A n \in CertificateMember : n \in whole <=> n \in shown
      <4>1. \A n \in CertificateMember : Above(n) = {"cnf"} BY <3>1, AboveOf
      <4> QED BY <2>3, <2>4, <3>2, <4>1 DEF Shown
    <3>5. e.sd \subseteq whole BY <2>2, <2>4
    <3> HIDE DEF shown, whole
    <3>6. RequiredPresent(whole) BY <3>1, <3>2 DEF RequiredPresent
    <3>7. CategoryExpected(q, e, whole) /\ QualifiedComplete(e, whole)
      BY <3>1, <3>3 DEF CategoryExpected, QualifiedComplete
    <3>8. DatesValid(q, e, whole) BY <3>1, <3>3 DEF DatesValid
    <3>9. "cnf" \in whole => CNFValid(e, whole)
      BY <3>1, <3>2, <3>3, <3>4 DEF StructuresValid, CNFValid, CertificateMember
    <3>10. StructuresValid(e, whole) BY <3>1, <3>2, <3>3, <3>5, <3>9 DEF StructuresValid
    <3> QED BY <3>6, <3>7, <3>8, <3>10 DEF ValidateEAA, whole
  <2>8. VerifyResult(q, e, e.sd) # {} BY <2>4, <2>6 DEF VerifyResult, Base!VerifyResult
  <2> QED BY <2>7, <2>8, PassesIf
<1> QED BY <1>1, Invariant, PTL

-----------------------------------------------------------------------------
(* What the verifier of q makes of the answer of h, if it is given just now. *)
LEMMA AnswerValid ==
  ASSUME now \in Int, NEW q \in Requests, NEW e, NEW d, NEW h,
         "cnf" \in Base!Payload(e, d)
  PROVE  Base!KbValid(q, e, d, Answer(q, e, d, h, now)) <=> h \in e.cnf
<1> DEFINE kb == Answer(q, e, d, h, now)
<1>1. /\ kb.key = h /\ kb.audience = q.audience /\ kb.nonce = q.nonce /\ kb.iat = now
      /\ kb.sdHash = Base!HashSDJWT(e, d, Base!StatedAlg(e))
  BY DEF Answer
<1>2. Base!HolderKeys(e, d) = e.cnf BY DEF Base!HolderKeys
<1>3. q.maxAge > 0 => now - kb.iat <= q.maxAge BY <1>1, EAAArgumentsTyped
<1>4. Base!KbValid(q, e, d, kb) <=> kb.key \in e.cnf
  <2> HIDE DEF kb
  <2> QED BY <1>1, <1>2, <1>3, Zenon DEF Base!KbValid
<1> QED BY <1>1, <1>4, Zenon

(* The key that an issued cnf has, and where it is. *)
LEMMA KeyOf ==
  ASSUME EAAInv, NEW e \in issued, HasCNF(e.options)
  PROVE  /\ \A h : h \in e.cnf <=> e.options.key = "object" /\ h \in e.options.cnf
         /\ e.options.key = "object" => {"cnf", "cnf.jwk", "cnf.jwk.x"} \subseteq e.names
<1> DEFINE adds == Added(e.config, e.options)
           members == MembersAdded(e.config, e.options)
<1>1. MadeByIssue(e) /\ "cnf" \in adds BY ClaimsOf DEF EAAInv
<1>2. /\ e.names = (e.input.names \ Inside(adds)) \cup adds \cup members
      /\ e.cnf = IF "cnf.jwk.x" \in e.names THEN e.options.cnf ELSE {}
  BY <1>1 DEF MadeByIssue
<1>3. "cnf.jwk.x" \in Inside(adds) BY <1>1, AboveOf DEF Inside, Member
<1>4. "cnf.jwk.x" \notin adds
  <2>1. adds \subseteq TopLevel
    BY <1>1, EAAArgumentsTyped, AddedTopLevel DEF MadeByIssue, MadeByNew
  <2> QED BY <2>1, TopLevelAbove DEF Member
<1>5. /\ "cnf.jwk.x" \in members <=> e.options.key = "object"
      /\ e.options.key = "object" => "cnf.jwk" \in members
  <2>1. CertificateMembers(e.options) \subseteq CertificateMember
    BY Zenon DEF CertificateMembers, CertificateMember
  <2> QED BY <2>1 DEF MembersAdded, BuildCNFClaim, CertificateMember
<1> HIDE DEF adds, members
<1> QED BY <1>1, <1>2, <1>3, <1>4, <1>5

(***************************************************************************)
(* An EAA issued for a key is bound to this key and to no other, with or   *)
(* without a certificate next to it, wherever the key is shown; one        *)
(* without a readable key to none.                                         *)
(***************************************************************************)
THEOREM HoldersAreBound == Spec => []HolderIsBound
<1>1. EAAInv => HolderIsBound
  <2> SUFFICES ASSUME EAAInv, NEW e \in issued, NEW q \in Requests, NEW d \in Disclosed, NEW h \in Key,
                      HasCNF(e.options), Base!RequirementValid(q),
                      NEW r \in EAAVerified(q, e, d), r.valid
               PROVE  (\E s \in EAAKbVerified(q, e, d, {Answer(q, e, d, h, now)}) : s.valid)
                        <=> /\ e.options.key = "object" /\ h \in e.options.cnf
                            /\ e.sd \cap {"cnf", "cnf.jwk", "cnf.jwk.x"} \subseteq d
    BY DEF HolderIsBound
  <2> DEFINE kb == Answer(q, e, d, h, now)
             kbValid == \A j \in {kb} : Base!KbValid(q, e, d, j)
             claimed == q.claims \subseteq Base!Payload(e, d)
             s == Base!Result(q, e, d, {kbValid}, kbValid /\ claimed)
             payload == Base!Payload(e, d)
             key == {"cnf", "cnf.jwk", "cnf.jwk.x"}
  <2>1. Base!Genuine(q.options, e, d) /\ Connected(e, d) /\ ValidateEAA(q, e, d) /\ claimed
    <3>1. r \in Base!VerifyResult(q, e, d) BY DEF EAAVerified, VerifyResult
    <3>2. claimed
      <4>1. r = Base!Result(q, e, d, {}, claimed) BY <3>1, Zenon DEF Base!VerifyResult
      <4>2. ASSUME NEW b PROVE Base!Result(q, e, d, {}, b).valid = b BY Zenon DEF Base!Result
      <4> QED BY <4>1, <4>2, Zenon
    <3>3. EAAVerified(q, e, d) \cup EAAKbVerified(q, e, d, {}) # {} OBVIOUS
    <3> QED BY <3>2, <3>3, PassedOf, Zenon
  <2>2. /\ e.sd \subseteq e.names /\ d \subseteq e.sd
        /\ h \in e.cnf <=> e.options.key = "object" /\ h \in e.options.cnf
        /\ e.options.key = "object" => key \subseteq e.names
    BY <2>1, ClaimsOf, KeyOf DEF Base!Genuine
  <2>3. {"cnf.jwk", "cnf.jwk.x"} \subseteq Shown(e, d) <=> key \subseteq payload
    <3>1. Above("cnf.jwk") = {"cnf"} /\ Above("cnf.jwk.x") = {"cnf", "cnf.jwk"}
      BY AboveOf DEF CnfMember
    <3> QED BY <3>1 DEF Shown
  <2>4. EAAKbVerified(q, e, d, {kb}) = {t \in Base!KbResult(q, e, d, {kb}) : key \subseteq payload}
    <3>1. EAAKbVerified(q, e, d, {kb}) = KbResult(q, e, d, {kb}) BY <2>1, PassesIf
    <3> QED BY <2>1, <2>3, <3>1 DEF KbResult
  <2>5. s.valid = (kbValid /\ claimed) BY Zenon DEF Base!Result
  <2>6. CASE ~(key \subseteq payload)
    <3>1. EAAKbVerified(q, e, d, {kb}) = {} BY <2>4, <2>6
    <3>2. ~(e.options.key = "object" /\ e.sd \cap key \subseteq d)
      BY <2>2, <2>6 DEF Base!Payload
    <3> HIDE DEF kb
    <3> QED BY <3>1, <3>2 DEF kb
  <2>7. CASE key \subseteq payload
    <3>1. kbValid <=> h \in e.cnf
      <4>1. now \in Int BY DEF EAAInv
      <4>2. Base!KbValid(q, e, d, kb) <=> h \in e.cnf BY <2>7, <4>1, AnswerValid
      <4> QED BY <4>2, Zenon
    <3>2. Base!HolderKeys(e, d) = e.cnf BY <2>7 DEF Base!HolderKeys
    <3>3. Base!KbResult(q, e, d, {kb}) = IF e.cnf # {} THEN {s} ELSE {}
      <4>1. {kb} # {} OBVIOUS
      <4> QED BY <2>1, <3>2, <4>1, Zenon DEF Base!KbResult
    <3>4. e.sd \cap key \subseteq d BY <2>7 DEF Base!Payload
    <3> HIDE DEF s, kbValid, claimed, kb, key, payload
    <3>5. (\E t \in EAAKbVerified(q, e, d, {kb}) : t.valid) <=> h \in e.cnf
      <4>1. CASE e.cnf = {} BY <2>4, <3>3, <4>1
      <4>2. CASE e.cnf # {}
        <5>1. EAAKbVerified(q, e, d, {kb}) = {s} BY <2>4, <2>7, <3>3, <4>2
        <5> QED BY <2>1, <2>5, <3>1, <5>1, Zenon
      <4> QED BY <4>1, <4>2
    <3> QED BY <2>2, <3>4, <3>5 DEF kb, key
  <2> QED BY <2>6, <2>7
<1> QED BY <1>1, Invariant, PTL

-----------------------------------------------------------------------------
(* A cnf that has a key or a certificate has the members that belong together. *)
LEMMA BuiltCNFValid ==
  ASSUME NEW e, NEW payload, NEW o \in EAAIssueOptions, HasCNF(o),
         \A n \in CnfMember : n \in payload <=> n \in BuildCNFClaim(o),
         "cnf.x5t#S256" \notin e.malformed, o.key = "unreadable" => o.certificate
  PROVE  CNFValid(e, payload)
<1>1. o.key \in {"none", "object", "null", "unreadable"} BY DEF EAAIssueOptions
<1>2. o.certificate \in BOOLEAN /\ o.url \in BOOLEAN BY Zenon DEF EAAIssueOptions
<1>3. \/ ~o.certificate /\ CertificateMembers(o) = {}
      \/ o.certificate /\ CertificateMembers(o) \in {{"cnf.x5c"}, {"cnf.x5u", "cnf.x5t#S256"}}
  BY <1>2, Zenon DEF CertificateMembers
<1>4. /\ "cnf.jwk" \in payload <=> "cnf.jwk" \in BuildCNFClaim(o)
      /\ \A n \in CertificateMember : n \in payload <=> n \in CertificateMembers(o)
  BY DEF BuildCNFClaim, CnfMember, CertificateMember
<1> HIDE DEF CertificateMembers
<1>5. CASE ~o.certificate /\ CertificateMembers(o) = {}
  BY <1>1, <1>4, <1>5 DEF HasCNF, BuildCNFClaim, CNFValid, CertificateMember
<1>6. CASE o.certificate /\ CertificateMembers(o) = {"cnf.x5c"}
  BY <1>4, <1>6 DEF CNFValid, CertificateMember
<1>7. CASE o.certificate /\ CertificateMembers(o) = {"cnf.x5u", "cnf.x5t#S256"}
  BY <1>4, <1>7 DEF CNFValid, CertificateMember
<1> QED BY <1>3, <1>5, <1>6, <1>7

(***************************************************************************)
(* EAAIssuer.Issue lets nothing through that ValidateEAA then refuses, as  *)
(* long as the caller's claims have none of the names that ETSI reserves   *)
(* and the key can be read; dates are in their periods with any skew.      *)
(***************************************************************************)
THEOREM IssuedAreAccepted == Spec => []IssuedIsAccepted
<1>1. EAAInv /\ QualifiedIsComplete => IssuedIsAccepted
  <2> SUFFICES ASSUME EAAInv, QualifiedIsComplete,
                      NEW e \in issued, NEW q \in Requests, NEW d \in Disclosed,
                      Sound(e), q.clock = {}, ~q.options.allowExpired,
                      q.category \subseteq {e.config.category},
                      \A n \in e.sd \cap (EAAClaimsNotSelectivelyDisclosable \cup Member) :
                        Above(n) \subseteq Base!Payload(e, d) => n \in d,
                      {"sub", "also_known_as"} \cap Base!Payload(e, d) # {},
                      "adm_nbf" \in e.names => q.skipAdministrative \/ (e.admNbf <= now /\ now <= e.admExp)
               PROVE  /\ EAAVerified(q, e, d) = VerifyResult(q, e, d)
                      /\ \A h \in Key : LET kb == {Answer(q, e, d, h, now)}
                                        IN  EAAKbVerified(q, e, d, kb) = KbResult(q, e, d, kb)
    BY DEF IssuedIsAccepted
  <2> DEFINE payload == Base!Payload(e, d)
             shown == Shown(e, d)
             adds == Added(e.config, e.options)
             o == e.options
             skew == q.skew
  <2>1. /\ MadeByIssue(e) /\ o \in EAAIssueOptions /\ skew \in Nat
        /\ now \in Int /\ Clock(q) = now
    BY EAAArgumentsTyped DEF EAAInv, MadeByIssue, Clock
  <2>2. /\ e.names = (e.input.names \ Inside(adds)) \cup adds \cup MembersAdded(e.config, o)
        /\ e.malformed \subseteq {"cnf.jwk"} /\ OptionsValid(e.config, o)
        /\ "category" \in adds => e.category = e.config.category
        /\ e.nbf = o.nbf /\ e.exp = o.exp /\ e.admNbf = o.admNbf /\ e.admExp = o.admExp
        /\ o.nbf \in Int /\ o.exp \in Int /\ o.admNbf \in Int /\ o.admExp \in Int
    BY <2>1 DEF MadeByIssue, Sound, EAAIssueOptions
  <2>3. /\ "category" \in adds <=> e.config.category \in Qualified
        /\ "cnf" \in adds <=> HasCNF(o)
        /\ {"vct", "vct#integrity", "iss", "jti", "nbf", "exp"} \subseteq e.names
        /\ e.sd \subseteq e.names
        /\ \A n \in TopLevel : n \in e.names <=> n \in e.input.names \cup adds
    BY ClaimsOf
  <2>4. SUFFICES ASSUME Base!Genuine(q.options, e, d) PROVE ValidateEAA(q, e, d)
    BY PassesIf
  <2>5. \A n \in EAAClaimsNotSelectivelyDisclosable : n \in shown <=> n \in adds
    <3>1. e.input.names \cap EAAClaimsNotSelectivelyDisclosable = {} BY DEF Sound
    <3>2. \A n \in EAAClaimsNotSelectivelyDisclosable : n \in TopLevel /\ Above(n) = {}
      BY TopLevelAbove DEF TopLevel
    <3> QED BY <2>3, <2>4, <3>1, <3>2, TopLevelShown DEF Base!Payload, Base!Genuine
  <2>6. /\ {"vct", "vct#integrity", "iss", "jti", "nbf", "exp", "category", "issuing_authority",
              "issuing_country", "adm_nbf", "adm_exp", "status", "cnf"}
             \subseteq EAAClaimsNotSelectivelyDisclosable
        /\ e.input.names \cap EAAClaimsNotSelectivelyDisclosable = {}
    BY DEF EAAClaimsNotSelectivelyDisclosable, Sound
  <2>7. RequiredPresent(shown)
    <3>1. {"sub", "also_known_as"} \cap shown # {} BY TopLevelShown DEF TopLevel
    <3>2. {"vct", "vct#integrity", "iss", "jti", "nbf", "exp"} \subseteq TopLevel BY <2>6 DEF TopLevel
    <3>3. {"vct", "vct#integrity", "iss", "jti", "nbf", "exp"} \subseteq adds BY <2>3, <2>6, <3>2
    <3> QED BY <2>5, <2>6, <3>1, <3>3 DEF RequiredPresent
  <2>8. CategoryExpected(q, e, shown)
    BY <2>2, <2>3, <2>5, <2>6 DEF CategoryExpected, Qualified
  <2>9. QualifiedComplete(e, shown)
    <3>1. e.config.category \in Qualified => {"issuing_authority", "issuing_country", "status"} \subseteq e.names
      BY DEF QualifiedIsComplete
    <3>2. {"issuing_authority", "issuing_country", "status"} \subseteq TopLevel
      BY <2>6 DEF TopLevel
    <3> QED BY <2>2, <2>3, <2>5, <2>6, <3>1, <3>2 DEF QualifiedComplete
  <2>10. DatesValid(q, e, shown)
    <3>1. {"nbf", "exp"} \subseteq payload BY <2>7, TopLevelShown DEF RequiredPresent
    <3>2. e.nbf <= now /\ now <= e.exp
      BY <2>4, <3>1 DEF Base!Genuine, Base!ClaimsValid, Base!SeenClaimsValid
    <3>3. "adm_nbf" \in shown <=> "adm_exp" \in shown
      <4>1. "adm_nbf" \in adds <=> "adm_exp" \in adds
        <5>1. "adm_nbf" \in o.given <=> "adm_exp" \in o.given BY <2>2 DEF OptionsValid
        <5>2. e.config.identity \subseteq {"issuing_authority", "issuing_country", "iss_reg_id"}
          BY <2>1, Zenon DEF MadeByIssue, MadeByNew, EAAIssuerConfig
        <5> QED BY <5>1, <5>2 DEF Added
      <4> QED BY <2>5, <2>6, <4>1
    <3>4. "adm_nbf" \in shown => "adm_nbf" \in e.names BY <2>2, <2>5, <2>6
    <3>5. e.nbf <= Clock(q) + skew /\ e.exp >= Clock(q) - skew
      <4> HIDE DEF skew
      <4> QED BY <2>1, <2>2, <3>2
    <3>6. "adm_nbf" \in shown /\ ~q.skipAdministrative => Within(q, e.admNbf, e.admExp)
      <4> SUFFICES ASSUME "adm_nbf" \in shown, ~q.skipAdministrative
                   PROVE  e.admNbf <= Clock(q) + skew /\ e.admExp >= Clock(q) - skew
        BY DEF Within
      <4>1. e.admNbf <= now /\ now <= e.admExp BY <3>4
      <4> HIDE DEF skew
      <4> QED BY <2>1, <2>2, <4>1
    <3> HIDE DEF shown
    <3> QED BY <2>2, <3>3, <3>5, <3>6 DEF DatesValid
  <2>11. StructuresValid(e, shown)
    <3>1. \A n \in Member : Above(n) \subseteq payload => (n \in shown <=> n \in e.names)
      BY <2>3, <2>4 DEF Shown, Base!Payload, Base!Genuine
    <3>2. "status" \in shown => "status.uri" \in shown
      <4>1. ASSUME "status" \in shown PROVE "status.uri" \in e.names
        BY <2>2, <2>5, <2>6, <4>1 DEF MembersAdded
      <4>2. "status" \in shown => Above("status.uri") \subseteq payload
        BY AboveOf, TopLevelShown
      <4> QED BY <3>1, <4>1, <4>2 DEF Member
    <3>3. "subAttrs" \in shown => "subAttrs.attrs" \notin e.sd \ shown
      <4>1. "subAttrs" \in shown => Above("subAttrs.attrs") \subseteq payload
        BY AboveOf, TopLevelShown
      <4> QED BY <2>3, <3>1, <4>1 DEF Member
    <3>4. ASSUME "cnf" \in shown PROVE CNFValid(e, shown)
      <4>1. HasCNF(o) /\ "cnf" \in adds BY <2>3, <2>5, <2>6, <3>4
      <4>2. \A n \in CnfMember : n \in shown <=> n \in e.names
        BY <3>1, <3>4, AboveOf, TopLevelShown DEF Member
      <4>3. \A n \in CnfMember : n \in e.names <=> n \in BuildCNFClaim(o)
        <5>1. \A n \in CnfMember : n \in Inside(adds) BY <4>1, AboveOf DEF Inside, Member
        <5>2. \A n \in CnfMember : n \notin adds
          <6>1. adds \subseteq TopLevel BY <2>1, AddedTopLevel DEF MadeByIssue, MadeByNew
          <6> QED BY <6>1, TopLevelAbove DEF Member
        <5>3. \A n \in CnfMember : n \in MembersAdded(e.config, o) <=> n \in BuildCNFClaim(o)
          BY DEF MembersAdded, CnfMember, CertificateMember
        <5> QED BY <2>2, <5>1, <5>2, <5>3
      <4>4. o.key = "unreadable" => o.certificate BY DEF Sound
      <4> HIDE DEF shown, adds
      <4>5. \A n \in CnfMember : n \in shown <=> n \in BuildCNFClaim(o) BY <4>2, <4>3
      <4>6. "cnf.x5t#S256" \notin e.malformed BY <2>2
      <4> QED BY <2>1, <4>1, <4>4, <4>5, <4>6, BuiltCNFValid
    <3>5. {"status", "subAttrs", "cnf"} \cap e.malformed = {} BY <2>2
    <3> QED BY <3>2, <3>3, <3>4, <3>5 DEF StructuresValid
  <2> QED BY <2>7, <2>8, <2>9, <2>10, <2>11 DEF ValidateEAA
<1> QED BY <1>1, Invariant, QualifiedAreComplete, PTL

(***************************************************************************)
(* The two validators agree: what ValidateEAA accepts passes the checks of *)
(* VerifySDJWTVC, also if parts of cnf are withheld, but for the status,   *)
(* the integrity and members of cnf whose types ValidateEAA ignores.       *)
(***************************************************************************)
THEOREM EAAsPassAsVCs == Spec => []EAAsAreVCs
<1>1. EAAInv => EAAsAreVCs
  <2> SUFFICES ASSUME EAAInv, NEW e \in issued, NEW q \in Requests, NEW d \in Disclosed,
                      EAAVerified(q, e, d) # {}, q.skew <= q.clockSkew, e.integrity = "well-formed",
                      "status" \in Shown(e, d) => StatusValidForVC(e, Shown(e, d)),
                      "cnf" \in Shown(e, d) =>
                        e.malformed \cap ({EmptyThumbprint} \cup (CnfMember \cap Shown(e, d))) = {}
               PROVE  VC!ClaimsValid(q, AsVC(e, d), d)
    BY DEF EAAsAreVCs
  <2> DEFINE v == AsVC(e, d)
             payload == Base!Payload(e, d)
             shown == Shown(e, d)
             skew == q.skew
             clockSkew == q.clockSkew
             time == Clock(q)
  <2>1. Base!Genuine(q.options, e, d) /\ ValidateEAA(q, e, d)
    <3>1. EAAVerified(q, e, d) \cup EAAKbVerified(q, e, d, {}) # {} OBVIOUS
    <3> QED BY <3>1, PassedOf
  <2>2. VC!Base!Payload(v, d) = payload /\ shown \subseteq payload
    BY TopLevelShown DEF AsVC, VC!Base!Payload, Base!Payload
  <2>3. /\ v.vct = "type" /\ v.integrity = e.integrity /\ v.nbf = e.nbf /\ v.exp = e.exp
        /\ v.idx = 0 /\ v.uri = "uri"
        /\ v.malformed = shown \cap (e.malformed
                                       \cup {n \in {"status"} : ~StatusValidForVC(e, shown)}
                                       \cup {n \in {"cnf"} : ~CNFValidForVC(e, shown)})
    BY DEF AsVC
  <2>4. "vct" \in payload BY <2>1, <2>2 DEF ValidateEAA, RequiredPresent
  <2>5. v.malformed \cap VC!Checked(q) = {}
    <3>1. e.malformed \subseteq Malformable BY ClaimsOf
    <3>2. /\ {"status", "cnf"} \cap shown \cap e.malformed = {}
          /\ "cnf" \in shown => CNFValid(e, shown)
      BY <2>1 DEF ValidateEAA, StructuresValid
    <3>3. "cnf" \in shown => CNFValidForVC(e, shown)
      <4> HIDE DEF shown
      <4> QED BY <3>2 DEF CNFValid, CNFValidForVC, CnfMember, CertificateMember, shown
    <3>4. VC!Checked(q) \cap Malformable \subseteq {"status", "cnf"}
      BY DEF VC!Checked, VC!ClaimsNotSelectivelyDisclosable, Malformable, EmptyThumbprint,
             CnfMember, CertificateMember
    <3> HIDE DEF shown
    <3>5. ASSUME NEW n \in v.malformed, n \in VC!Checked(q) PROVE FALSE
      <4>1. CASE n \in e.malformed BY <2>3, <3>1, <3>2, <3>4, <3>5, <4>1
      <4>2. CASE n = "status" /\ ~StatusValidForVC(e, shown) BY <2>3, <3>5, <4>2 DEF shown
      <4>3. CASE n = "cnf" /\ ~CNFValidForVC(e, shown) BY <2>3, <3>3, <3>5, <4>3
      <4> QED BY <2>3, <3>5, <4>1, <4>2, <4>3
    <3> QED BY <3>5
  <2>6. time = VC!Clock(q) BY DEF Clock, VC!Clock
  <2>7. /\ "nbf" \in VC!Checked(q) => v.nbf <= time + clockSkew
        /\ "exp" \in VC!Checked(q) => v.exp >= time - clockSkew
    <3> DEFINE nbf == e.nbf
               exp == e.exp
    <3>1. /\ "nbf" \in VC!Checked(q) => nbf <= time + skew
          /\ "exp" \in VC!Checked(q) => exp >= time - skew
      <4>1. /\ "nbf" \in VC!Checked(q) => ~q.skipNotBefore
            /\ "exp" \in VC!Checked(q) => ~q.skipExpiration
        BY DEF VC!Checked
      <4>2. DatesValid(q, e, shown) BY <2>1 DEF ValidateEAA
      <4> QED BY <4>1, <4>2 DEF DatesValid
    <3>2. time \in Int /\ skew \in Nat /\ clockSkew \in Nat /\ skew <= clockSkew
      BY EAAArgumentsTyped DEF EAAInv, Clock
    <3>3. nbf \in Int /\ exp \in Int
      BY EAAArgumentsTyped DEF EAAInv, MadeByIssue, EAAIssueOptions
    <3>4. v.nbf = nbf /\ v.exp = exp BY <2>3
    <3> HIDE DEF v, nbf, exp, time, skew, clockSkew
    <3> QED BY <3>1, <3>2, <3>3, <3>4
  <2>8. SUFFICES VC!ClaimsValid(q, v, d) OBVIOUS
  <2> HIDE DEF v
  <2> QED BY <2>2, <2>3, <2>4, <2>5, <2>6, <2>7 DEF VC!ClaimsValid, VC!IntegrityValid, VC!StatusClaimValid
<1> QED BY <1>1, Invariant, PTL

-----------------------------------------------------------------------------
LEMMA SignedTyped ==
  ASSUME NEW config \in EAAIssuerConfig, config.id # "", config.alg \in Base!Algorithm,
         NEW input \in Claims, NEW frame, frame.sd \subseteq Name, NEW o \in Options
  PROVE  LET e == Signed(config, input, frame, o)
         IN  e \in IssuedEAA /\ e.sd \subseteq e.names /\ e.config = config
<1> DEFINE adds == Added(config, o)
           names == (input.names \ Inside(adds)) \cup adds \cup MembersAdded(config, o)
           malformed == (input.malformed \ (adds \cup Inside(adds)))
                          \cup {m \in {"cnf.jwk"} : o.key = "null"}
           sd == Disclosable(frame, names)
           cnf == IF "cnf.jwk.x" \in names THEN o.cnf ELSE {}
           category == IF "category" \in adds THEN config.category ELSE input.category
           e == [signer |-> config.signer, iss |-> config.id, alg |-> config.alg,
                 names |-> names, sd |-> sd, malformed |-> malformed,
                 exp |-> o.exp, nbf |-> o.nbf, aud |-> {}, admNbf |-> o.admNbf, admExp |-> o.admExp,
                 integrity |-> o.integrity, cnf |-> cnf, category |-> category,
                 headers |-> Headers(config), config |-> config, input |-> input, options |-> o]
<1>1. input \in Attributes /\ o \in EAAIssueOptions BY EAAArgumentsTyped
<1>2. /\ config.signer \in Party /\ config.id \in Party
      /\ config.category \in EAACategory
      /\ config.certificate \subseteq Certificate /\ config.chain \subseteq Certificate
      /\ config.url \in BOOLEAN
  BY Zenon DEF EAAIssuerConfig
<1>3. /\ input.names \subseteq Name /\ input.malformed \subseteq Malformable
      /\ input.category \in Qualified \cup {"other"}
  BY <1>1, Zenon DEF Attributes
<1>4. /\ o.exp \in Int /\ o.nbf \in Int /\ o.admNbf \in Int /\ o.admExp \in Int
      /\ o.integrity \in {"well-formed", "malformed"} /\ o.cnf \subseteq Key
  BY <1>1, Zenon DEF EAAIssueOptions
<1>5. /\ adds \subseteq TopLevel \ {"aud"} /\ MembersAdded(config, o) \subseteq Member
      /\ "category" \in adds <=> config.category \in Qualified
  BY <1>1, AddedTopLevel
<1>6. names \subseteq Name BY <1>3, <1>5, EAAArgumentsTyped DEF TopLevel
<1>7. sd \subseteq names /\ sd \subseteq Name BY <1>6 DEF Disclosable
<1>8. cnf \subseteq Key BY <1>4
<1>9. category \in Qualified \cup {"other"} BY <1>3, <1>5
<1>10. Headers(config) \in [x5u : BOOLEAN, thumbprint : SUBSET Certificate, x5c : SUBSET Certificate]
  BY <1>2 DEF Headers
<1>11. malformed \subseteq Malformable BY <1>3 DEF Malformable, CnfMember
<1>12. Signed(config, input, frame, o) = e BY Zenon DEF Signed
<1> HIDE DEF adds, names, malformed, sd, cnf, category
<1>13. e \in IssuedEAA
  BY <1>2, <1>4, <1>6, <1>7, <1>8, <1>9, <1>10, <1>11 DEF IssuedEAA
<1>14. e.sd \subseteq e.names /\ e.config = config BY <1>7
<1> QED BY <1>12, <1>13, <1>14, Zenon

LEMMA TypeInitially == Init => TypeOK
BY EAAArgumentsTyped DEF Init, TypeOK

LEMMA TypeInductive == EAAInv /\ TypeOK /\ [Next]_vars => TypeOK'
<1> SUFFICES ASSUME EAAInv, TypeOK, [Next]_vars PROVE TypeOK' OBVIOUS
<1> USE DEF TypeOK
<1>1. CASE UNCHANGED vars BY <1>1 DEF vars
<1>2. CASE Tick BY <1>2, EAAArgumentsTyped DEF Tick
<1>3. ASSUME NEW config \in Configs, NewEAAIssuer(config) PROVE TypeOK'
  <2>1. WithCertificate(config) \in EAAIssuerConfig
    BY <1>3, ConfigMade DEF NewEAAIssuer, MadeByNew
  <2> QED BY <1>3, <2>1 DEF NewEAAIssuer
<1>4. ASSUME NEW config \in issuers, NEW input \in Claims, NEW f \in DOMAIN Frames,
             NEW o \in Options, Issue(config, input, f, o)
      PROVE  TypeOK'
  <2> DEFINE e == Signed(config, input, frames[f], o)
  <2>1. /\ frames' = frames \/ frames' = [frames EXCEPT ![f].decoys = o.decoys]
        /\ issued' = issued \/ (config.alg \in Base!Algorithm /\ issued' = issued \cup {e})
        /\ UNCHANGED <<now, verdict, issuers>>
    BY <1>4 DEF Issue
  <2>2. o.decoys \in Nat BY EAAArgumentsTyped, Zenon DEF EAAIssueOptions
  <2>3. /\ frames' \in [DOMAIN Frames -> [sd : SUBSET Name, decoys : Nat]]
        /\ \A g \in DOMAIN Frames : frames'[g].sd = Frames[g].sd
    BY <2>1, <2>2
  <2>4. config \in EAAIssuerConfig /\ config.id # "" /\ frames[f].sd \subseteq Name
    BY DEF EAAInv, MadeByNew, ConfigValid
  <2>5. ASSUME config.alg \in Base!Algorithm
        PROVE  e \in IssuedEAA /\ e.sd \subseteq e.names /\ e.config = config
    <3> HIDE DEF TypeOK
    <3> QED BY <2>4, <2>5, SignedTyped, Zenon
  <2> HIDE DEF e
  <2>6. /\ issued' \subseteq IssuedEAA
        /\ \A x \in issued' : x.sd \subseteq x.names /\ x.config \in issuers'
        /\ \A r \in verdict' : r.cred \in issued' /\ r.disclosed \subseteq r.cred.sd
    BY <2>1, <2>5
  <2> QED BY <2>1, <2>3, <2>6
<1>5. ASSUME NEW q \in Requests, NEW e \in issued, NEW d \in Disclosed, NEW kb,
             VerifyEAA(q, e, d) \/ VerifyEAAWithKeyBinding(q, e, d, kb)
      PROVE  TypeOK'
  <2>1. /\ verdict' \subseteq VerifyResult(q, e, d) \cup KbResult(q, e, d, kb)
        /\ UNCHANGED <<now, issuers, frames, issued>>
    BY <1>5 DEF VerifyEAA, VerifyEAAWithKeyBinding, EAAVerified, EAAKbVerified
  <2>2. ASSUME NEW r \in verdict' PROVE r.cred = e /\ r.disclosed \subseteq e.sd
    <3>1. r.cred = e /\ r.disclosed = d /\ Base!Genuine(q.options, e, d)
      BY <2>1, ResultOf
    <3> QED BY <3>1 DEF Base!Genuine
  <2> QED BY <2>1, <2>2
<1> QED BY <1>1, <1>2, <1>3, <1>4, <1>5 DEF Next

(***************************************************************************)
(* Values have their types, what is issued is of an issuer that was made,  *)
(* its disclosures are of its claims, and frames change only in decoys.    *)
(***************************************************************************)
THEOREM TypeCorrect == Spec => []TypeOK
<1> QED BY TypeInitially, TypeInductive, Invariant, PTL DEF Spec
=============================================================================
