--------------------------- MODULE KeyBindingProofs ---------------------------
(***************************************************************************)
(* Key binding, for any credentials, settings and requests, and any number *)
(* of holders, sessions and key binding JWTs.                              *)
(***************************************************************************)
EXTENDS KeyBinding, TLAPS

(* The results of a verification are typed; an accepted one names its KB-JWT. *)
LEMMA ResultsTyped ==
  ASSUME NEW q \in Sessions, NEW c \in Credentials, NEW d \in Disclosed, NEW kb
  PROVE  /\ VerifyResult(q, c, d) \subseteq VerificationResult
         /\ KbResult(q, c, d, kb) \subseteq VerificationResult
<1> DEFINE okay == \A k \in kb : KbValid(q, c, d, k)
<1>1. {okay} \in {{TRUE}, {FALSE}} /\ okay \in BOOLEAN
  <2>1. CASE okay BY <2>1
  <2>2. CASE ~okay
    <3>1. okay = FALSE BY <2>2
    <3> QED BY <3>1
  <2> QED BY <2>1, <2>2
<1> HIDE DEF okay
<1>2. ASSUME NEW b \in {{}, {TRUE}, {FALSE}}, NEW v \in BOOLEAN
      PROVE  Result(q, c, d, b, v) \in VerificationResult
  BY DEF Result, VerificationResult
<1>3. VerifyResult(q, c, d) \subseteq VerificationResult
  BY <1>2 DEF VerifyResult
<1>4. Result(q, c, d, {okay}, okay /\ q.claims \subseteq Payload(c, d)) \in VerificationResult
  BY <1>1, <1>2
<1>5. KbResult(q, c, d, kb) \subseteq VerificationResult
  BY <1>4 DEF KbResult, okay
<1> QED BY <1>3, <1>5

(* The key binding JWT that PresentWithFrame makes is typed. *)
LEMMA SignedTyped ==
  ASSUME TypeOK, NEW h \in Key, NEW asked \in Disclosed, NEW q \in Sessions,
         NEW t \in 0..(MaxTime + Skew),
         PresentWithFrame(h, asked, q.audience, q.nonce, t)
  PROVE  \E kb \in KeyBindingJWT :
           /\ kbs' = kbs \cup {kb}
           /\ kb.key = h /\ kb.sdHash.disclosed \subseteq kb.sdHash.cred.sd
           /\ kb.sdHash.cred = wallet[h].cred /\ kb.sdHash.alg = HashAlgorithm(wallet[h])
           /\ kb.audience # "" /\ kb.nonce # ""
<1> DEFINE entry == wallet[h]
           d == Selected(entry.cred, asked)
           hash == HashSDJWT(entry.cred, d, HashAlgorithm(entry))
           kb == [key |-> h, iat |-> t, audience |-> q.audience, nonce |-> q.nonce, sdHash |-> hash]
<1>1. entry.cred \in Credentials /\ h \in DOMAIN wallet
  BY DEF TypeOK, PresentWithFrame
<1>2. HashAlgorithm(entry) \in Algorithm
  BY <1>1, ParametersTyped DEF HashAlgorithm, StatedAlg, DefaultHashAlgorithm, Algorithm, Credential
<1>3. d \in SUBSET Name /\ d \subseteq entry.cred.sd
  BY <1>1, ParametersTyped DEF Selected, Credential
<1>4. q.audience \in Party /\ q.nonce \in Nonce /\ q.audience # "" /\ q.nonce # ""
  BY ParametersTyped DEF PresentWithFrame, Session
<1>5. hash = [cred |-> entry.cred, disclosed |-> d, alg |-> HashAlgorithm(entry)]
  BY DEF HashSDJWT, SdHash
<1> HIDE DEF d, entry, hash
<1>6. kb \in KeyBindingJWT
  BY <1>1, <1>2, <1>3, <1>4, <1>5 DEF KeyBindingJWT
<1>7. kbs' = kbs \cup {kb}
  BY DEF PresentWithFrame, entry, d, hash
<1> QED BY <1>3, <1>4, <1>5, <1>6, <1>7 DEF entry

(***************************************************************************)
(* The type invariant.                                                     *)
(***************************************************************************)
THEOREM TypeCorrect == Spec => []TypeOK
<1>1. Init => TypeOK
  BY ParametersTyped, SMT DEF Init, TypeOK
<1>2. TypeOK /\ [Next]_vars => TypeOK'
  <2> SUFFICES ASSUME TypeOK, [Next]_vars PROVE TypeOK' OBVIOUS
  <2>1. CASE Tick
    BY <2>1, ParametersTyped, SMT DEF Tick, TypeOK
  <2>2. ASSUME NEW h \in Key, NEW c \in Credentials, NewHolder(h, c) PROVE TypeOK'
    BY <2>2 DEF NewHolder, TypeOK
  <2>3. ASSUME NEW h \in Key, NEW c \in Credentials, NEW o \in Options,
               ParseAndCreateHolder(h, c, o)
        PROVE  TypeOK'
    BY <2>3 DEF ParseAndCreateHolder, TypeOK
  <2>4. ASSUME NEW h \in Key, NEW asked \in Disclosed, NEW q \in Sessions,
               NEW t \in 0..(MaxTime + Skew),
               PresentWithFrame(h, asked, q.audience, q.nonce, t)
        PROVE  TypeOK'
    <3>1. PICK kb \in KeyBindingJWT :
            kbs' = kbs \cup {kb} /\ kb.sdHash.disclosed \subseteq kb.sdHash.cred.sd
      BY <2>4, SignedTyped, Zenon
    <3> QED BY <2>4, <3>1 DEF PresentWithFrame, TypeOK
  <2>5. ASSUME NEW q \in Sessions, NEW c \in Credentials, NEW d \in Disclosed, Verify(q, c, d)
        PROVE  TypeOK'
    BY <2>5, ResultsTyped DEF Verify, TypeOK
  <2>6. ASSUME NEW q \in Sessions, NEW c \in Credentials, NEW d \in Disclosed,
               NEW kb \in AtMostOne(kbs), VerifyWithKeyBinding(q, c, d, kb)
        PROVE  TypeOK'
    BY <2>6, ResultsTyped DEF VerifyWithKeyBinding, TypeOK
  <2>7. CASE UNCHANGED vars
    BY <2>7 DEF vars, TypeOK
  <2> QED BY <2>1, <2>2, <2>3, <2>4, <2>5, <2>6, <2>7 DEF Next
<1> QED BY <1>1, <1>2, PTL DEF Spec

-----------------------------------------------------------------------------
(* An accepted presentation rests on what its holder agreed to. *)
LEMMA AcceptedCovered ==
  ASSUME TypeOK, NEW q \in Sessions, NEW c \in Credentials, NEW d \in Disclosed,
         NEW kb \in AtMostOne(kbs),
         NEW v \in KbResult(q, c, d, kb), v.valid, v.kbValid = {TRUE}
  PROVE  \E k \in kbs : Holders!Covers(Agreed(k), Presented(v))
<1> DEFINE okay == \A k \in kb : KbValid(q, c, d, k)
           seen == q.claims \subseteq Payload(c, d)
<1>1. RequirementValid(q) /\ kb # {}
  BY DEF KbResult
<1>2. PICK k \in kbs : kb = {k}
  BY <1>1 DEF AtMostOne
<1>3. v = Result(q, c, d, {okay}, okay /\ seen)
  BY DEF KbResult
<1>4. KbValid(q, c, d, k)
  <2> HIDE DEF okay, seen
  <2>1. v.valid = (okay /\ seen)
    BY <1>3 DEF Result
  <2>2. okay
    BY <2>1, Zenon
  <2> QED BY <1>2, <2>2, Zenon DEF okay
<1>5. Presented(v) = [session |-> q, cred |-> c, disclosed |-> d]
  <2> HIDE DEF okay, seen
  <2> QED BY <1>3 DEF Presented, Result
<1>6. k.sdHash.cred = c /\ k.sdHash.disclosed = d
  <2>1. k.sdHash = [cred |-> c, disclosed |-> d, alg |-> StatedAlg(c)]
    BY <1>4 DEF KbValid, HashSDJWT, SdHash
  <2> QED BY <2>1
<1>7. k.key \in c.cnf /\ k.audience = q.audience /\ k.nonce = q.nonce
  BY <1>1, <1>4 DEF KbValid, HolderKeys, RequirementValid
<1>8. q.maxAge > 0 => now <= k.iat + q.maxAge
  <2>1. k.iat \in Int /\ now \in Int /\ q.maxAge \in Int
    <3>1. k \in KeyBindingJWT /\ now \in 0..MaxTime /\ q \in Session
      BY ParametersTyped DEF TypeOK
    <3>2. k.iat \in 0..(MaxTime + Skew) /\ q.maxAge \in Int
      BY <3>1 DEF KeyBindingJWT, Session
    <3> QED BY <3>1, <3>2
  <2>2. q.maxAge > 0 => now - k.iat <= q.maxAge
    BY <1>4 DEF KbValid
  <2> QED BY <2>1, <2>2
<1>9. Agreed(k) = [holder |-> k.key, cred |-> c, disclosed |-> d,
                   audience |-> q.audience, nonce |-> q.nonce, issuedAt |-> k.iat]
  BY <1>6, <1>7 DEF Agreed
<1>10. Holders!Covers(Agreed(k), Presented(v))
  <2> DEFINE e == Agreed(k)
             p == Presented(v)
  <2>1. p.session = q /\ p.cred = c /\ p.disclosed = d
    BY <1>5
  <2>2. /\ e.holder = k.key /\ e.cred = c /\ e.disclosed = d
        /\ e.audience = q.audience /\ e.nonce = q.nonce /\ e.issuedAt = k.iat
    BY <1>9
  <2> HIDE DEF e, p
  <2>3. Holders!Covers(e, p)
    BY <1>1, <1>7, <1>8, <2>1, <2>2 DEF Holders!Covers, RequirementValid
  <2> QED BY <2>3 DEF e, p
<1> QED BY <1>10

(***************************************************************************)
(* VerifyWithKeyBinding accepts only what the holder in "cnf" agreed to.   *)
(***************************************************************************)
THEOREM ConsentNeeded == Spec => OnlyWithConsent
<1> DEFINE consents == {Agreed(kb) : kb \in kbs}
           accepted == {Presented(v) : v \in {u \in verdict : u.valid /\ u.kbValid = {TRUE}}}
<1>1. Init => Holders!Init
  BY DEF Init, Holders!Init
<1>2. TypeOK /\ TypeOK' /\ [Next]_vars => [Holders!Next]_Holders!vars
  <2> SUFFICES ASSUME TypeOK, TypeOK', [Next]_vars PROVE [Holders!Next]_Holders!vars OBVIOUS
  <2>1. CASE Tick
    BY <2>1 DEF Tick, Holders!Tick, Holders!Next
  <2>2. ASSUME UNCHANGED <<now, kbs, verdict>> PROVE UNCHANGED Holders!vars
    BY <2>2 DEF Holders!vars
  <2>3. ASSUME NEW h \in Key, NEW asked \in Disclosed, NEW q \in Sessions,
               NEW t \in 0..(MaxTime + Skew),
               PresentWithFrame(h, asked, q.audience, q.nonce, t)
        PROVE  Holders!Consent
    <3>1. PICK kb : kbs' = kbs \cup {kb}
      BY <2>3 DEF PresentWithFrame
    <3>2. consents' = consents \cup {Agreed(kb)} /\ Agreed(kb) \in consents'
      BY <3>1
    <3>3. UNCHANGED <<now, verdict>>
      BY <2>3 DEF PresentWithFrame
    <3> QED BY <3>2, <3>3 DEF Holders!Consent
  <2>4. ASSUME NEW q \in Sessions, NEW c \in Credentials, NEW d \in Disclosed, Verify(q, c, d)
        PROVE  Holders!Refuse
    <3>1. \A v \in verdict' : v.kbValid = {}
      BY <2>4 DEF Verify, VerifyResult, Result
    <3>2. accepted' = {}
      BY <3>1
    <3> QED BY <2>4, <3>2 DEF Verify, Holders!Refuse
  <2>5. ASSUME NEW q \in Sessions, NEW c \in Credentials, NEW d \in Disclosed,
               NEW kb \in AtMostOne(kbs), VerifyWithKeyBinding(q, c, d, kb)
        PROVE  Holders!Accept \/ Holders!Refuse
    <3>1. verdict' = KbResult(q, c, d, kb) /\ UNCHANGED <<now, kbs>>
      BY <2>5 DEF VerifyWithKeyBinding
    <3>2. CASE accepted' = {}
      BY <3>1, <3>2 DEF Holders!Refuse
    <3>3. CASE accepted' # {}
      <4>1. PICK v \in verdict' : v.valid /\ v.kbValid = {TRUE}
        BY <3>3
      <4>2. verdict' = {v}
        BY <3>1, <4>1 DEF KbResult
      <4>3. accepted' = {Presented(v)}
        BY <4>1, <4>2
      <4>4. PICK k \in kbs : Holders!Covers(Agreed(k), Presented(v))
        BY <3>1, <4>1, AcceptedCovered
      <4> QED BY <3>1, <4>3, <4>4 DEF Holders!Accept
    <3> QED BY <3>2, <3>3
  <2>6. CASE UNCHANGED vars
    BY <2>2, <2>6 DEF vars
  <2> QED
    BY <2>1, <2>2, <2>3, <2>4, <2>5, <2>6
    DEF Next, NewHolder, ParseAndCreateHolder, Holders!Next
<1> QED BY <1>1, <1>2, TypeCorrect, PTL DEF Spec, OnlyWithConsent, Holders!Spec

-----------------------------------------------------------------------------
(***************************************************************************)
(* What a holder checked stays true, but for the expiry; what a holder     *)
(* signed is about the SD-JWT that it still has.                           *)
(***************************************************************************)
CheckedStillHolds(o, c) ==
  /\ c.signer = o.issuer
  /\ o.trusted # {} => "iss" \in c.names /\ c.iss \in o.trusted
  /\ "nbf" \in c.names => c.nbf <= now
  /\ "aud" \in c.names /\ o.expectedAudience # "" => o.expectedAudience \in c.aud
  /\ o.required \cap {"exp", "nbf", "aud"} \subseteq c.names

SignedFromWallet(kb) ==
  /\ kb.key \in DOMAIN wallet
  /\ kb.sdHash = HashSDJWT(wallet[kb.key].cred, kb.sdHash.disclosed, HashAlgorithm(wallet[kb.key]))
  /\ kb.audience # "" /\ kb.nonce # ""

Remembered ==
  /\ \A h \in DOMAIN wallet : \A o \in wallet[h].checked : CheckedStillHolds(o, wallet[h].cred)
  /\ \A kb \in kbs : SignedFromWallet(kb)

LEMMA AllClaims == ASSUME NEW c \in Credentials PROVE Payload(c, c.sd) = c.names
  BY DisclosuresAreClaims DEF Payload

(* Of a credential with all its disclosures, a check is what still holds and the expiry. *)
LEMMA GenuineParts ==
  ASSUME NEW c \in Credentials, NEW o
  PROVE  Genuine(o, c, c.sd) <=>
           CheckedStillHolds(o, c) /\ ("exp" \in c.names /\ ~o.allowExpired => now <= c.exp)
  BY AllClaims, Zenon DEF Genuine, ClaimsValid, SeenClaimsValid, CheckedStillHolds

LEMMA RememberedAlways == Spec => []Remembered
<1>1. Init => Remembered
  BY DEF Init, Remembered
<1>2. TypeOK /\ TypeOK' /\ Remembered /\ [Next]_vars => Remembered'
  <2> SUFFICES ASSUME TypeOK, TypeOK', Remembered, [Next]_vars PROVE Remembered' OBVIOUS
  <2>1. ASSUME UNCHANGED <<wallet, kbs>>, now' = now \/ now' = now + 1 PROVE Remembered'
    <3>1. ASSUME NEW h \in DOMAIN wallet, NEW o \in wallet[h].checked
          PROVE  CheckedStillHolds(o, wallet[h].cred)'
      <4>1. wallet[h].cred \in Credential
        BY ParametersTyped DEF TypeOK
      <4>2. wallet[h].cred.nbf \in Int /\ now \in Int /\ now' \in Int
        BY <4>1 DEF TypeOK, Credential
      <4>3. wallet[h].cred.nbf <= now => wallet[h].cred.nbf <= now'
        BY <2>1, <4>2
      <4> QED BY <2>1, <4>3 DEF Remembered, CheckedStillHolds
    <3>2. ASSUME NEW kb \in kbs PROVE SignedFromWallet(kb)'
      BY <2>1 DEF Remembered, SignedFromWallet
    <3> QED BY <2>1, <3>1, <3>2 DEF Remembered
  <2>2. ASSUME NEW h \in Key, h \notin DOMAIN wallet, UNCHANGED <<now, kbs>>,
               NEW entry,
               wallet' = [k \in DOMAIN wallet \cup {h} |-> IF k = h THEN entry ELSE wallet[k]],
               \A o \in entry.checked : CheckedStillHolds(o, entry.cred)
        PROVE  Remembered'
    <3>1. /\ DOMAIN wallet' = DOMAIN wallet \cup {h} /\ wallet'[h] = entry
          /\ \A k \in DOMAIN wallet : wallet'[k] = wallet[k]
      BY <2>2
    <3>2. ASSUME NEW k \in DOMAIN wallet', NEW o \in wallet'[k].checked
          PROVE  CheckedStillHolds(o, wallet[k].cred)'
      <4>1. CASE k = h
        BY <2>2, <3>1, <3>2, <4>1 DEF CheckedStillHolds
      <4>2. CASE k # h
        BY <2>2, <3>1, <3>2, <4>2 DEF Remembered, CheckedStillHolds
      <4> QED BY <4>1, <4>2
    <3>3. ASSUME NEW kb \in kbs PROVE SignedFromWallet(kb)'
      <4>1. SignedFromWallet(kb)
        BY DEF Remembered
      <4> QED BY <3>1, <4>1 DEF SignedFromWallet
    <3> QED BY <2>2, <3>2, <3>3 DEF Remembered
  <2>3. ASSUME NEW h \in Key, NEW c \in Credentials, NewHolder(h, c) PROVE Remembered'
    <3> DEFINE entry == [cred |-> c, checked |-> {}]
    <3>1. \A o \in entry.checked : CheckedStillHolds(o, entry.cred)
      OBVIOUS
    <3> HIDE DEF entry
    <3>2. wallet' = [k \in DOMAIN wallet \cup {h} |-> IF k = h THEN entry ELSE wallet[k]]
      BY <2>3 DEF NewHolder, entry
    <3> QED BY <2>2, <2>3, <3>1, <3>2 DEF NewHolder
  <2>4. ASSUME NEW h \in Key, NEW c \in Credentials, NEW o \in Options,
               ParseAndCreateHolder(h, c, o)
        PROVE  Remembered'
    <3> DEFINE entry == [cred |-> c, checked |-> {o}]
    <3>1. \A p \in entry.checked : CheckedStillHolds(p, entry.cred)
      BY <2>4, GenuineParts DEF ParseAndCreateHolder, Received
    <3> HIDE DEF entry
    <3>2. wallet' = [k \in DOMAIN wallet \cup {h} |-> IF k = h THEN entry ELSE wallet[k]]
      BY <2>4 DEF ParseAndCreateHolder, entry
    <3> QED BY <2>2, <2>4, <3>1, <3>2 DEF ParseAndCreateHolder
  <2>5. ASSUME NEW h \in Key, NEW asked \in Disclosed, NEW q \in Sessions,
               NEW t \in 0..(MaxTime + Skew),
               PresentWithFrame(h, asked, q.audience, q.nonce, t)
        PROVE  Remembered'
    <3>1. UNCHANGED <<now, wallet>> /\ h \in DOMAIN wallet
      BY <2>5 DEF PresentWithFrame
    <3>2. PICK kb :
            /\ kbs' = kbs \cup {kb} /\ kb.key = h
            /\ kb.audience # "" /\ kb.nonce # ""
            /\ kb.sdHash = HashSDJWT(wallet[h].cred, kb.sdHash.disclosed, HashAlgorithm(wallet[h]))
      <4> DEFINE new == [key |-> h, iat |-> t, audience |-> q.audience, nonce |-> q.nonce,
                         sdHash |-> HashSDJWT(wallet[h].cred, Selected(wallet[h].cred, asked),
                                              HashAlgorithm(wallet[h]))]
      <4>1. new.sdHash = HashSDJWT(wallet[h].cred, new.sdHash.disclosed, HashAlgorithm(wallet[h]))
        BY DEF HashSDJWT, SdHash
      <4>2. new.audience # "" /\ new.nonce # "" /\ new.key = h /\ kbs' = kbs \cup {new}
        BY <2>5 DEF PresentWithFrame
      <4> QED BY <4>1, <4>2
    <3>3. ASSUME NEW k \in kbs' PROVE SignedFromWallet(k)'
      BY <3>1, <3>2, <3>3 DEF Remembered, SignedFromWallet, HashAlgorithm
    <3>4. ASSUME NEW k \in DOMAIN wallet', NEW o \in wallet'[k].checked
          PROVE  CheckedStillHolds(o, wallet[k].cred)'
      BY <3>1, <3>4 DEF Remembered, CheckedStillHolds
    <3> QED BY <3>3, <3>4 DEF Remembered
  <2>6. CASE Tick
    BY <2>1, <2>6 DEF Tick
  <2>7. ASSUME NEW q \in Sessions, NEW c \in Credentials, NEW d \in Disclosed,
               Verify(q, c, d) \/ \E kb \in AtMostOne(kbs) : VerifyWithKeyBinding(q, c, d, kb)
        PROVE  Remembered'
    BY <2>1, <2>7 DEF Verify, VerifyWithKeyBinding
  <2>8. CASE UNCHANGED vars
    BY <2>1, <2>8 DEF vars
  <2> QED BY <2>3, <2>4, <2>5, <2>6, <2>7, <2>8 DEF Next
<1> QED BY <1>1, <1>2, TypeCorrect, PTL DEF Spec

(***************************************************************************)
(* A holder that checked its SD-JWT like the verifier, and answers in time *)
(* with all of it, is not turned away.                                     *)
(***************************************************************************)
THEOREM HoldersAreServed == Spec => []HolderServed
<1>1. TypeOK /\ Remembered => HolderServed
  <2> SUFFICES ASSUME TypeOK, Remembered,
                      NEW h \in DOMAIN wallet, NEW kb \in kbs, NEW q \in Sessions,
                      q.options \in wallet[h].checked,
                      kb.key = h, h \in HolderKeys(wallet[h].cred, wallet[h].cred.sd),
                      kb.audience = q.audience, kb.nonce = q.nonce,
                      kb.sdHash.disclosed = wallet[h].cred.sd, q.claims \subseteq wallet[h].cred.names,
                      q.maxAge > 0 => now <= kb.iat + q.maxAge,
                      "exp" \in wallet[h].cred.names => q.options.allowExpired \/ now <= wallet[h].cred.exp
               PROVE  \E v \in KbResult(q, wallet[h].cred, wallet[h].cred.sd, {kb}) :
                        v.valid /\ v.kbValid = {TRUE}
    BY Zenon DEF HolderServed
  <2> DEFINE c == wallet[h].cred
             okay == \A k \in {kb} : KbValid(q, c, c.sd, k)
             seen == q.claims \subseteq Payload(c, c.sd)
  <2>1. c \in Credentials /\ kb \in KeyBindingJWT /\ q \in Session /\ now \in Int
    BY ParametersTyped, SMT DEF TypeOK
  <2>2. SignedFromWallet(kb) /\ CheckedStillHolds(q.options, c)
    BY DEF Remembered
  <2>3. HashAlgorithm(wallet[h]) = StatedAlg(c)
    BY DEF HashAlgorithm
  <2>4. kb.sdHash = HashSDJWT(c, c.sd, StatedAlg(c)) /\ kb.audience # "" /\ kb.nonce # ""
    BY <2>2, <2>3 DEF SignedFromWallet
  <2>5. q.maxAge > 0 => now - kb.iat <= q.maxAge
    <3>1. kb.iat \in Int /\ q.maxAge \in Int
      <4>1. kb.iat \in 0..(MaxTime + Skew) /\ q.maxAge \in Int
        BY <2>1 DEF KeyBindingJWT, Session
      <4> QED BY <4>1
    <3> QED BY <2>1, <3>1
  <2>6. okay
    BY <2>4, <2>5, Zenon DEF KbValid
  <2>7. seen
    BY <2>1, AllClaims
  <2>8. Genuine(q.options, c, c.sd)
    BY <2>1, <2>2, GenuineParts
  <2>9. RequirementValid(q) /\ HolderKeys(c, c.sd) # {}
    BY <2>4 DEF RequirementValid
  <2>10. KbResult(q, c, c.sd, {kb}) = {Result(q, c, c.sd, {okay}, okay /\ seen)}
    BY <2>8, <2>9 DEF KbResult
  <2>11. Result(q, c, c.sd, {okay}, okay /\ seen) = Result(q, c, c.sd, {TRUE}, TRUE)
    <3>1. okay = TRUE /\ (okay /\ seen) = TRUE
      BY <2>6, <2>7
    <3> HIDE DEF okay, seen
    <3> QED BY <3>1
  <2>12. /\ Result(q, c, c.sd, {TRUE}, TRUE) \in KbResult(q, c, c.sd, {kb})
         /\ Result(q, c, c.sd, {TRUE}, TRUE).valid
         /\ Result(q, c, c.sd, {TRUE}, TRUE).kbValid = {TRUE}
    <3> HIDE DEF okay, seen, c
    <3> QED BY <2>10, <2>11 DEF Result
  <2> QED BY <2>12
<1> QED BY <1>1, TypeCorrect, RememberedAlways, PTL

(***************************************************************************)
(* Withholding a date that the settings require does not help.             *)
(***************************************************************************)
THEOREM WithholdingFutile == Spec => []WithholdingIsNoHelp
<1>1. ASSUME NEW q \in Sessions, NEW c \in Credentials, NEW d \in Disclosed,
             c.sd \cap {"exp", "nbf", "aud"} \subseteq q.options.required,
             Genuine(q.options, c, d)
      PROVE  Genuine(q.options, c, c.sd)
  <2>1. d \subseteq c.sd /\ c.sd \subseteq c.names
    BY <1>1, DisclosuresAreClaims DEF Genuine
  <2>2. Payload(c, d) \subseteq c.names
    BY <2>1 DEF Payload
  <2>3. ASSUME NEW k \in {"exp", "nbf", "aud"}, k \in c.names PROVE k \in Payload(c, d)
    BY <1>1, <2>3 DEF Genuine, ClaimsValid, Payload
  <2>4. /\ "exp" \in c.names => "exp" \in Payload(c, d)
        /\ "nbf" \in c.names => "nbf" \in Payload(c, d)
        /\ "aud" \in c.names => "aud" \in Payload(c, d)
    BY <2>3
  <2>5. q.options.required \cap {"exp", "nbf", "aud"} \subseteq c.names
    BY <1>1, <2>2 DEF Genuine, ClaimsValid
  <2>6. /\ c.signer = q.options.issuer
        /\ q.options.trusted # {} => "iss" \in c.names /\ c.iss \in q.options.trusted
    BY <1>1, <2>2 DEF Genuine, ClaimsValid, SeenClaimsValid
  <2>7. CheckedStillHolds(q.options, c) /\ ("exp" \in c.names /\ ~q.options.allowExpired => now <= c.exp)
    BY <1>1, <2>4, <2>5, <2>6, Zenon DEF CheckedStillHolds, Genuine, ClaimsValid, SeenClaimsValid
  <2> QED BY <2>7, GenuineParts
<1>2. ASSUME NEW q \in Sessions, NEW c \in Credentials, NEW d \in Disclosed,
             NEW v \in VerifyResult(q, c, d) \cup UNION {KbResult(q, c, d, {kb}) : kb \in kbs}
      PROVE  Genuine(q.options, c, d)
  <2>1. CASE v \in VerifyResult(q, c, d)
    BY <2>1 DEF VerifyResult
  <2>2. ASSUME NEW kb \in kbs, v \in KbResult(q, c, d, {kb}) PROVE Genuine(q.options, c, d)
    BY <2>2 DEF KbResult
  <2> QED BY <1>2, <2>1, <2>2
<1>3. WithholdingIsNoHelp
  <2> SUFFICES ASSUME NEW q \in Sessions, NEW c \in Credentials, NEW d \in Disclosed,
                      c.sd \cap {"exp", "nbf", "aud"} \subseteq q.options.required,
                      NEW v \in VerifyResult(q, c, d) \cup UNION {KbResult(q, c, d, {kb}) : kb \in kbs}
               PROVE  Genuine(q.options, c, c.sd)
    BY Zenon DEF WithholdingIsNoHelp
  <2> QED BY <1>1, <1>2
<1> QED BY <1>3, PTL
=============================================================================
