------------------------------ MODULE KeyBinding ------------------------------
(***************************************************************************)
(* SD-JWTs with key binding between several holders and several sessions   *)
(* of verifiers: holder.ParseAndCreateHolder and NewHolder,                *)
(* Holder.PresentWithFrame with CreateKeyBindingJWT, Verifier.Verify and   *)
(* VerifyWithKeyBinding, and the clock.                                    *)
(*                                                                         *)
(* Nothing orders what reaches a verifier: any SD-JWT with any disclosures *)
(* may arrive with any key binding JWT made so far, in any session, late,  *)
(* again or never.                                                         *)
(*                                                                         *)
(* Credentials have flat claims, so a disclosure is the name of its claim; *)
(* how nested claims are packed, selected and processed is in Presentation *)
(* and ProcessPayload.  A JWT says who signed it and what it says.  A date *)
(* that is not a number is read like one that is absent, so it is absent.  *)
(***************************************************************************)
EXTENDS Integers, FiniteSets

CONSTANTS Name,        \* claim names
          Key,         \* keys of holders; a holder is known by its key
          Party,       \* issuers and verifiers: names, and keys of issuers
          Nonce,
          Credentials, \* issued SD-JWTs
          Options,     \* settings of verifiers, and of holders
          Sessions,    \* requests of verifiers
          Disclosed,   \* sets of disclosures that are selected or arrive
          MaxTime,     \* bound: the last second
          Skew,        \* bound: seconds by which a holder's clock is ahead
          MaxKBs       \* bound: key binding JWTs made

DefaultHashAlgorithm == "sha-256"
Algorithm == {"sha-256", "sha-384", "sha-512"}

(***************************************************************************)
(* names are all claims of a credential and sd those made selectively      *)
(* disclosable; iss, exp, nbf and aud mean something only if in names.     *)
(* cnf has the key of the claim "cnf", none if its JWK cannot be read.     *)
(***************************************************************************)
Credential ==
  [signer : Party, alg : Algorithm, names : SUBSET Name, sd : SUBSET Name,
   iss : Party, exp : Int, nbf : Int, aud : SUBSET Party, cnf : SUBSET Key]

(* The fields that HolderOptions and Verifier share, with the issuer's key. *)
Setting ==
  [issuer : Party, trusted : SUBSET Party, expectedAudience : Party \cup {""},
   allowExpired : BOOLEAN, required : SUBSET Name]

(* KeyBindingRequirement, and the required claims of the same request. *)
Session ==
  [nonce : Nonce \cup {""}, audience : Party \cup {""}, maxAge : Int,
   options : Options, claims : SUBSET Name]

ASSUME ParametersTyped ==
  /\ Credentials \subseteq Credential /\ Options \subseteq Setting
  /\ Sessions \subseteq Session /\ Disclosed \subseteq SUBSET Name
  /\ MaxTime \in Nat /\ Skew \in Nat /\ MaxKBs \in Nat

ASSUME DisclosuresAreClaims == \A c \in Credentials : c.sd \subseteq c.names

VARIABLES now,      \* seconds
          wallet,   \* the Holder values: what each holder has
          kbs,      \* the key binding JWTs made so far
          verdict   \* the last VerificationResult returned without an error

vars == <<now, wallet, kbs, verdict>>

Init == now = 0 /\ wallet = [h \in {} |-> h] /\ kbs = {} /\ verdict = {}

Tick == now < MaxTime /\ now' = now + 1 /\ UNCHANGED <<wallet, kbs, verdict>>

-----------------------------------------------------------------------------
(* The processed payload: processing refuses any other disclosure. *)
Payload(c, d) == (c.names \ c.sd) \cup d

(* What validateProcessedClaims requires of the claims that it sees. *)
SeenClaimsValid(o, c, d) ==
  LET payload == Payload(c, d)
  IN  /\ o.trusted # {} => "iss" \in payload /\ c.iss \in o.trusted
      /\ "exp" \in payload /\ ~o.allowExpired => now <= c.exp
      /\ "nbf" \in payload => c.nbf <= now
      /\ "aud" \in payload /\ o.expectedAudience # "" => o.expectedAudience \in c.aud

(* With RequireExpiration and the like; holders and verifiers have the same code. *)
ClaimsValid(o, c, d) ==
  /\ SeenClaimsValid(o, c, d)
  /\ o.required \cap {"exp", "nbf", "aud"} \subseteq Payload(c, d)

(* The signature, processing, and the claims. *)
Genuine(o, c, d) == c.signer = o.issuer /\ d \subseteq c.sd /\ ClaimsValid(o, c, d)

-----------------------------------------------------------------------------
(* Bug: the claims of a new SD-JWT are not looked at. *)
ReceivedUnchecked(o, c) == c.signer = o.issuer

(* What ParseAndCreateHolder requires of an SD-JWT with all its disclosures. *)
Received(o, c) == Genuine(o, c, c.sd)

(* checked holds the settings it was checked with. *)
ParseAndCreateHolder(h, c, o) ==
  /\ h \notin DOMAIN wallet /\ Received(o, c)
  /\ wallet' = [k \in DOMAIN wallet \cup {h} |->
                  IF k = h THEN [cred |-> c, checked |-> {o}] ELSE wallet[k]]
  /\ UNCHANGED <<now, kbs, verdict>>

(* The value in memory that the issuer returned; nothing is checked. *)
NewHolder(h, c) ==
  /\ h \notin DOMAIN wallet
  /\ wallet' = [k \in DOMAIN wallet \cup {h} |->
                  IF k = h THEN [cred |-> c, checked |-> {}] ELSE wallet[k]]
  /\ UNCHANGED <<now, kbs, verdict>>

-----------------------------------------------------------------------------
(* resolveHashAlgorithm: an SD-JWT without disclosures states none. *)
StatedAlg(c) == IF c.sd = {} THEN DefaultHashAlgorithm ELSE c.alg

(* SDJWT.HashAlgorithm, which in memory is the issuer's option. *)
HashAlgorithm(entry) ==
  IF entry.checked = {} THEN entry.cred.alg ELSE StatedAlg(entry.cred)

(* The hash of an SD-JWT, with its disclosures. *)
SdHash(c, d, alg) == [cred |-> c, disclosed |-> d, alg |-> alg]

(* Bug: only the JWT is hashed. *)
SdHashOfJWT(c, d, alg) == [cred |-> c, disclosed |-> {}, alg |-> alg]

HashSDJWT(c, d, alg) == SdHash(c, d, alg)

(* Bug: a claim that is not disclosable is selected too. *)
SelectedAsAsked(c, asked) == asked \cap c.names

(* SelectWithFrame; a nil frame asks for everything. *)
Selected(c, asked) == asked \cap c.sd

(***************************************************************************)
(* The frame asks for the claims in asked.  The options say when they were *)
(* made, which may be some time ago, by a clock that is a little ahead; an *)
(* empty audience or nonce is an error.                                    *)
(***************************************************************************)
PresentWithFrame(h, asked, audience, nonce, issuedAt) ==
  LET entry == wallet[h]
      d == Selected(entry.cred, asked)
  IN  /\ h \in DOMAIN wallet /\ Cardinality(kbs) < MaxKBs
      /\ audience # "" /\ nonce # ""
      /\ issuedAt <= now + Skew
      /\ kbs' = kbs \cup
           {[key |-> h, iat |-> issuedAt, audience |-> audience, nonce |-> nonce,
             sdHash |-> HashSDJWT(entry.cred, d, HashAlgorithm(entry))]}
      /\ UNCHANGED <<now, wallet, verdict>>

-----------------------------------------------------------------------------
(* The public key in the processed payload; parseJWK fails on other JWKs. *)
HolderKeys(c, d) == IF "cnf" \in Payload(c, d) THEN c.cnf ELSE {}

(* verifyKeyBindingJWT. *)
KbValid(q, c, d, kb) ==
  /\ kb.key \in HolderKeys(c, d)
  /\ kb.sdHash = HashSDJWT(c, d, StatedAlg(c))
  /\ q.audience # "" => kb.audience = q.audience
  /\ q.nonce # "" => kb.nonce = q.nonce
  /\ q.maxAge > 0 => now - kb.iat <= q.maxAge

RequirementValid(q) == q.nonce # "" /\ q.audience # ""

Result(q, c, d, kbValid, valid) ==
  [session |-> q, cred |-> c, disclosed |-> d, kbValid |-> kbValid, valid |-> valid]

(***************************************************************************)
(* What the verifier of session q makes of c with the disclosures d and,   *)
(* in kb, the key binding JWT if there is one: {} is an error.  Without    *)
(* key binding, kbValid stays empty.                                       *)
(***************************************************************************)
VerifyResult(q, c, d) ==
  IF Genuine(q.options, c, d)
    THEN {Result(q, c, d, {}, q.claims \subseteq Payload(c, d))}
    ELSE {}

KbResult(q, c, d, kb) ==
  IF RequirementValid(q) /\ kb # {} /\ HolderKeys(c, d) # {} /\ Genuine(q.options, c, d)
    THEN LET kbValid == \A k \in kb : KbValid(q, c, d, k)
         IN  {Result(q, c, d, {kbValid}, kbValid /\ q.claims \subseteq Payload(c, d))}
    ELSE {}

Verify(q, c, d) ==
  verdict' = VerifyResult(q, c, d) /\ UNCHANGED <<now, wallet, kbs>>

VerifyWithKeyBinding(q, c, d, kb) ==
  verdict' = KbResult(q, c, d, kb) /\ UNCHANGED <<now, wallet, kbs>>

-----------------------------------------------------------------------------
AtMostOne(S) == {{}} \cup {{x} : x \in S}

Next ==
  \/ Tick
  \/ \E h \in Key, c \in Credentials :
       NewHolder(h, c) \/ \E o \in Options : ParseAndCreateHolder(h, c, o)
  \/ \E h \in Key, asked \in Disclosed, q \in Sessions, t \in 0..(MaxTime + Skew) :
       PresentWithFrame(h, asked, q.audience, q.nonce, t)
  \/ \E q \in Sessions, c \in Credentials, d \in Disclosed :
       \/ Verify(q, c, d)
       \/ \E kb \in AtMostOne(kbs) : VerifyWithKeyBinding(q, c, d, kb)

Spec == Init /\ [][Next]_vars

-----------------------------------------------------------------------------
KeyBindingJWT ==
  [key : Key, iat : 0..(MaxTime + Skew), audience : Party, nonce : Nonce,
   sdHash : [cred : Credentials, disclosed : SUBSET Name, alg : Algorithm]]

VerificationResult ==
  [session : Sessions, cred : Credentials, disclosed : Disclosed,
   kbValid : {{}, {TRUE}, {FALSE}}, valid : BOOLEAN]

(* Values have their types; holders sign for disclosures that there are. *)
TypeOK ==
  /\ now \in 0..MaxTime
  /\ DOMAIN wallet \subseteq Key
  /\ wallet \in [DOMAIN wallet -> [cred : Credentials, checked : SUBSET Options]]
  /\ kbs \subseteq KeyBindingJWT
  /\ \A kb \in kbs : kb.sdHash.disclosed \subseteq kb.sdHash.cred.sd
  /\ verdict \subseteq VerificationResult

Agreed(kb) ==
  [holder |-> kb.key, cred |-> kb.sdHash.cred, disclosed |-> kb.sdHash.disclosed,
   audience |-> kb.audience, nonce |-> kb.nonce, issuedAt |-> kb.iat]

Presented(v) == [session |-> v.session, cred |-> v.cred, disclosed |-> v.disclosed]

Holders ==
  INSTANCE HolderConsent
    WITH consents <- {Agreed(kb) : kb \in kbs},
         accepted <- {Presented(v) : v \in {u \in verdict : u.valid /\ u.kbValid = {TRUE}}}

(***************************************************************************)
(* Key binding: whatever arrives where and when, VerifyWithKeyBinding      *)
(* takes as valid only what the holder in "cnf" agreed to show, all of it  *)
(* and nothing more, to this verifier for this request and in its time.    *)
(***************************************************************************)
OnlyWithConsent == Holders!Spec

(***************************************************************************)
(* A holder whose SD-JWT passed ParseAndCreateHolder with the verifier's   *)
(* settings, and who shows all of it in answer to a request and in time,   *)
(* is not turned away, unless the SD-JWT has expired meanwhile: the holder *)
(* and the verifier agree about what they check, on the hash in the key    *)
(* binding JWT and on the ends of every period.                            *)
(***************************************************************************)
HolderServed ==
  \A h \in DOMAIN wallet, kb \in kbs, q \in Sessions :
    LET c == wallet[h].cred
    IN  /\ q.options \in wallet[h].checked
        /\ kb.key = h /\ h \in HolderKeys(c, c.sd)
        /\ kb.audience = q.audience /\ kb.nonce = q.nonce
        /\ kb.sdHash.disclosed = c.sd /\ q.claims \subseteq c.names
        /\ q.maxAge > 0 => now <= kb.iat + q.maxAge
        /\ "exp" \in c.names => q.options.allowExpired \/ now <= c.exp
        => \E v \in KbResult(q, c, c.sd, {kb}) : v.valid /\ v.kbValid = {TRUE}

(***************************************************************************)
(* Withholding disclosures does not make an SD-JWT acceptable that the     *)
(* verifier's settings rule out as the issuer signed it, if the settings   *)
(* require those of exp, nbf and aud that are selectively disclosable.     *)
(***************************************************************************)
WithholdingIsNoHelp ==
  \A q \in Sessions, c \in Credentials, d \in Disclosed :
    LET dated == {"exp", "nbf", "aud"}
        results == VerifyResult(q, c, d)
                     \cup UNION {KbResult(q, c, d, {kb}) : kb \in kbs}
    IN  c.sd \cap dated \subseteq q.options.required /\ (\E v \in results : v.valid)
          => Genuine(q.options, c, c.sd)

(***************************************************************************)
(* types.go:16 of the field HashAlgorithm: "the hash algorithm used        *)
(* (_sd_alg claim value)", and sha-256 where there is no such claim.       *)
(***************************************************************************)
AlgorithmStated == \A kb \in kbs : kb.sdHash.alg = StatedAlg(kb.sdHash.cred)
=============================================================================
