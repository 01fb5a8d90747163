---------------------------- MODULE Serialization -----------------------------
(***************************************************************************)
(* An SD-JWT on its way between programs: written in compact form, or in   *)
(* flattened or general JSON, and read again; with disclosures selected, a *)
(* key binding JWT added, or another signature added to general JSON.      *)
(*                                                                         *)
(* A string is the sequence of its segments between dots, and a compact    *)
(* SD-JWT the sequence of the strings between tildes: nothing in a model   *)
(* contains a tilde.  A disclosure is its encoded string.                  *)
(***************************************************************************)
EXTENDS Integers, Sequences

CONSTANTS SdAlg,       \* by the payloads that are JSON objects: _sd_alg if there is one
          Disclosures, \* the strings that ParseDisclosure accepts
          KBs,         \* the key binding JWTs that holders make
          Values,      \* SDJWTs of issuers, in memory
          Texts,       \* SD-JWTs that other programs wrote
          Provided,    \* hash algorithms that callers of parsers give
          Cosigners,   \* signatures that others add to general JSON
          Selections,  \* sets of disclosures that holders select
          MaxSignatures \* bound: signatures in one general JSON

DefaultHashAlgorithm == "sha-256"
Supported == {"sha-256", "sha-384", "sha-512", ""}

String == Seq(STRING) \ {<<>>}
Empty == <<"">>

(* A header may be nil; it is a set with at most one element. *)
Header == [disclosures : Seq(String), kb : String]
AtMostOne(S) == \A x, y \in S : x = y

(* SDJWT, with the key binding JWT of an SDJWTWithKB, or Empty. *)
SDJWT == [form : {"memory"}, jwt : String, disclosures : Seq(Disclosures), kb : String, alg : STRING]
Compact == [form : {"compact"}, parts : Seq(String)]
FlattenJSON ==
  [form : {"flattened"}, protected : String, payload : String, signature : String, header : SUBSET Header]
GeneralJSONSignature == [protected : String, signature : String, header : SUBSET Header]
GeneralJSON == [form : {"general"}, payload : String, signatures : Seq(GeneralJSONSignature)]

isJWT(s) == Len(s) = 3

(* Issuers state the algorithm, or have nothing to hash. *)
ASSUME ValuesAreIssued ==
  \A v \in Values : /\ v \in SDJWT /\ isJWT(v.jwt) /\ v.jwt[2] \in DOMAIN SdAlg /\ v.kb = Empty
                    /\ v.disclosures # <<>> => SdAlg[v.jwt[2]] = {v.alg}
                    /\ SdAlg[v.jwt[2]] \cup {v.alg} \subseteq Supported

ASSUME StringsTyped ==
  /\ Supported \subseteq STRING /\ Empty \in String
  /\ \A d \in Disclosures : d \in String /\ Len(d) = 1 /\ d # Empty
  /\ KBs \subseteq String /\ \A kb \in KBs : isJWT(kb)
  /\ Texts \subseteq Compact \cup FlattenJSON \cup GeneralJSON
  /\ \A t \in Texts \cap FlattenJSON : AtMostOne(t.header)
  /\ \A t \in Texts \cap GeneralJSON : \A i \in DOMAIN t.signatures : AtMostOne(t.signatures[i].header)
  /\ Cosigners \subseteq GeneralJSONSignature
  /\ \A s \in Cosigners : Len(s.protected) = 1 /\ s.header = {}
  /\ \A p \in DOMAIN SdAlg : p \in STRING /\ SdAlg[p] \subseteq STRING /\ AtMostOne(SdAlg[p])
  /\ Provided \subseteq STRING /\ MaxSignatures \in Nat

VARIABLES artifact, \* the SD-JWT, in memory or as a text
          signed    \* by the key binding JWTs made so far: what their sd_hash is of

vars == <<artifact, signed>>

Init == artifact \in Values \cup Texts /\ signed = [kb \in {} |-> kb]

-----------------------------------------------------------------------------
(* Serialize, of an SDJWT and of an SDJWTWithKB. *)
Serialize(v) == [form |-> "compact", parts |-> <<v.jwt>> \o v.disclosures \o <<v.kb>>]

(* Bug: without disclosures there is no header. *)
HeaderOfDisclosures(disclosures, kb) ==
  IF disclosures = <<>> THEN {} ELSE {[disclosures |-> disclosures, kb |-> kb]}

buildJSONHeader(disclosures, kb) ==
  IF disclosures = <<>> /\ kb = Empty THEN {} ELSE {[disclosures |-> disclosures, kb |-> kb]}

ToFlattenJSON(v) ==
  [form |-> "flattened", protected |-> <<v.jwt[1]>>, payload |-> <<v.jwt[2]>>,
   signature |-> <<v.jwt[3]>>, header |-> buildJSONHeader(v.disclosures, v.kb)]

ToGeneralJSON(v) ==
  [form |-> "general", payload |-> <<v.jwt[2]>>,
   signatures |-> <<[protected |-> <<v.jwt[1]>>, signature |-> <<v.jwt[3]>>,
                     header |-> buildJSONHeader(v.disclosures, v.kb)]>>]

(* The texts that v is written as; a JWT of other than three parts has no JSON. *)
Written(v) ==
  {Serialize(v)} \cup (IF isJWT(v.jwt) THEN {ToFlattenJSON(v), ToGeneralJSON(v)} ELSE {})

-----------------------------------------------------------------------------
(* Bug: the caller's algorithm is used without a look at the payload. *)
AlgorithmAsProvided(payload, provided) ==
  IF provided = "" THEN {DefaultHashAlgorithm} ELSE {provided}

(* resolveHashAlgorithmFromPayload; {} is an error. *)
ResolveHashAlgorithm(payload, provided) ==
  LET stated == IF SdAlg[payload[1]] = {} THEN {DefaultHashAlgorithm} ELSE SdAlg[payload[1]]
  IN  IF Len(payload) = 1 /\ payload[1] \in DOMAIN SdAlg /\ provided \in stated \cup {""}
        THEN stated ELSE {}

(* Bug: what is no disclosure is kept as it is. *)
AnyDisclosures(strings, alg) == TRUE

(* ParseDisclosure, of each of them. *)
DisclosuresParse(strings, alg) ==
  \A i \in DOMAIN strings : strings[i] \in Disclosures /\ alg \in Supported

(* The parsed values: at most one. *)
Parsed(jwt, payload, disclosures, kb, provided) ==
  {[form |-> "memory", jwt |-> jwt, disclosures |-> disclosures, kb |-> kb, alg |-> alg] :
     alg \in {a \in ResolveHashAlgorithm(payload, provided) : DisclosuresParse(disclosures, a)}}

Parse(t, provided) ==
  LET jwt == t.parts[1]
      last == t.parts[Len(t.parts)]
  IN  IF Len(t.parts) >= 2 /\ isJWT(jwt) /\ (last = Empty \/ isJWT(last))
        THEN Parsed(jwt, <<jwt[2]>>, SubSeq(t.parts, 2, Len(t.parts) - 1), last, provided)
        ELSE {}

(* ParseSDJWT wants no key binding JWT, and ParseSDJWTWithKB wants one. *)
ParseSDJWT(t, provided) == {v \in Parse(t, provided) : v.kb = Empty}
ParseSDJWTWithKB(t, provided) == {v \in Parse(t, provided) : v.kb # Empty}

(* disclosuresFromJSONHeader *)
HeaderDisclosures(header) == IF header = {} THEN <<>> ELSE (CHOOSE h \in header : TRUE).disclosures
HeaderKB(header) == IF header = {} THEN Empty ELSE (CHOOSE h \in header : TRUE).kb

FromFlattenJSON(t, provided) ==
  Parsed(t.protected \o t.payload \o t.signature, t.payload,
         HeaderDisclosures(t.header), HeaderKB(t.header), provided)

(* Bug: the headers of later signatures are not looked at. *)
AnyHeaders(t) == t.signatures # <<>>

(* Only the first header has disclosures and a key binding JWT. *)
HeadersValid(t) ==
  /\ t.signatures # <<>>
  /\ \A i \in 2..Len(t.signatures) :
       LET header == t.signatures[i].header
       IN  HeaderDisclosures(header) = <<>> /\ HeaderKB(header) = Empty

FromGeneralJSON(t, provided) ==
  LET first == t.signatures[1]
  IN  IF HeadersValid(t)
        THEN Parsed(first.protected \o t.payload \o first.signature, t.payload,
                    HeaderDisclosures(first.header), HeaderKB(first.header), provided)
        ELSE {}

(* The value read from a text; a text of another form is an error. *)
Read(t, provided) ==
  CASE t.form = "compact" -> Parse(t, provided)
    [] t.form = "flattened" -> FromFlattenJSON(t, provided)
    [] t.form = "general" -> FromGeneralJSON(t, provided)

-----------------------------------------------------------------------------
(* The holder of an SDJWTWithKB may also write its SDJWT alone. *)
WriteText(withKB) ==
  /\ artifact.form = "memory"
  /\ artifact' \in Written(IF withKB THEN artifact ELSE [artifact EXCEPT !.kb = Empty])
  /\ UNCHANGED signed

ReadText(provided) ==
  /\ artifact.form # "memory"
  /\ artifact' \in Read(artifact, provided) \cup {artifact}
  /\ UNCHANGED signed

(* What the elements at the positions in I are, in their order. *)
At(s, I) ==
  {[i \in DOMAIN p |-> s[p[i]]] : p \in UNION {
     {q \in [1..n -> I] : /\ \A i, j \in 1..n : i < j => q[i] < q[j]
                          /\ {q[i] : i \in 1..n} = I} : n \in 0..Len(s)}}

Selected(disclosures, selected) == At(disclosures, {i \in DOMAIN disclosures : disclosures[i] \in selected})

(* Bug: the key binding JWT stays. *)
SelectBelowKB(v, selected) ==
  {[v EXCEPT !.disclosures = disclosures] : disclosures \in Selected(v.disclosures, selected)}

SelectDisclosures(v, selected) ==
  {[v EXCEPT !.disclosures = disclosures, !.kb = Empty] : disclosures \in Selected(v.disclosures, selected)}

Select(selected) ==
  /\ artifact.form = "memory"
  /\ artifact' \in SelectDisclosures(artifact, selected)
  /\ UNCHANGED signed

(* GetSDJWTForHashing, hashed: without the key binding JWT. *)
HashSDJWT(v) ==
  [parts |-> Serialize([v EXCEPT !.kb = Empty]).parts,
   alg |-> IF v.alg = "" THEN DefaultHashAlgorithm ELSE v.alg]

(* CreateKeyBindingJWT; other algorithms are an error. *)
Bind(kb) ==
  /\ artifact.form = "memory" /\ artifact.alg \in Supported
  /\ kb \notin DOMAIN signed
  /\ artifact' = [artifact EXCEPT !.kb = kb]
  /\ signed' = [k \in DOMAIN signed \cup {kb} |-> IF k = kb THEN HashSDJWT(artifact) ELSE signed[k]]

(* Others sign the payload too, and put their signature last or first. *)
Cosign(signature) ==
  /\ artifact.form = "general" /\ Len(artifact.signatures) \in 1..(MaxSignatures - 1)
  /\ \/ artifact' = [artifact EXCEPT !.signatures = Append(@, signature)]
     \/ artifact' = [artifact EXCEPT !.signatures = <<signature>> \o @]
  /\ UNCHANGED signed

-----------------------------------------------------------------------------
Next ==
  \/ \E withKB \in BOOLEAN : WriteText(withKB)
  \/ \E provided \in Provided : ReadText(provided)
  \/ \E selected \in Selections : Select(selected)
  \/ \E kb \in KBs : Bind(kb)
  \/ \E signature \in Cosigners : Cosign(signature)

Spec == Init /\ [][Next]_vars

-----------------------------------------------------------------------------
(* Values have their types: whatever was read, its disclosures are disclosures, *)
(* and its algorithm is one that an issuer uses or the payload states.          *)
TypeOK ==
  /\ artifact \in SDJWT \cup Compact \cup FlattenJSON \cup GeneralJSON
  /\ artifact.form = "memory" =>
       artifact.alg \in Supported \cup UNION {SdAlg[payload] : payload \in DOMAIN SdAlg}
  /\ DOMAIN signed \subseteq KBs
  /\ \A kb \in DOMAIN signed :
       signed[kb] \in [parts : Seq(String), alg : Supported] /\ Len(signed[kb].parts) >= 2

Stated(jwt) == IF SdAlg[jwt[2]] = {} THEN {DefaultHashAlgorithm} ELSE SdAlg[jwt[2]]

(***************************************************************************)
(* Every form of an SDJWT and of an SDJWTWithKB is read back as it was,    *)
(* with the stated algorithm, wherever it came from; and the two parsers   *)
(* that care for a key binding JWT tell the two apart.  Other programs may *)
(* have put into JSON what no compact form can hold: strings with dots,    *)
(* and key binding JWTs that are not JWTs.                                 *)
(***************************************************************************)
ReadsBack ==
  artifact.form = "memory" /\ isJWT(artifact.jwt) =>
    LET same == {[artifact EXCEPT !.alg = alg] : alg \in Stated(artifact.jwt)}
        compact == Serialize(artifact)
    IN  /\ \A t \in Written(artifact) \ {compact} : Read(t, "") = same
        /\ artifact.kb = Empty => ParseSDJWT(compact, "") = same /\ ParseSDJWTWithKB(compact, "") = {}
        /\ isJWT(artifact.kb) => ParseSDJWT(compact, "") = {} /\ ParseSDJWTWithKB(compact, "") = same

(***************************************************************************)
(* Readers agree: with whatever algorithms they ask for a text, they read  *)
(* the same from it or nothing, and so do the readers of what they write.  *)
(***************************************************************************)
ReadersAgree ==
  artifact.form # "memory" =>
    \A p, q \in Provided : \A v \in Read(artifact, p) :
      /\ Read(artifact, q) \subseteq {v}
      /\ \A t \in Written(v) : Read(t, q) \subseteq {v}

-----------------------------------------------------------------------------
(* What an artifact carries, as far as it can be read. *)
Content(a) ==
  LET contents(jwt, disclosures, kb) == {[jwt |-> jwt, disclosures |-> disclosures, kb |-> kb]}
  IN  CASE a.form = "memory" -> contents(a.jwt, a.disclosures, a.kb)
        [] a.form = "compact" ->
             IF Len(a.parts) < 2 THEN {}
               ELSE contents(a.parts[1], SubSeq(a.parts, 2, Len(a.parts) - 1), a.parts[Len(a.parts)])
        [] a.form = "flattened" ->
             contents(a.protected \o a.payload \o a.signature, HeaderDisclosures(a.header), HeaderKB(a.header))
        [] a.form = "general" ->
             IF ~HeadersValid(a) THEN {}
               ELSE LET first == a.signatures[1]
                    IN  contents(first.protected \o a.payload \o first.signature,
                                 HeaderDisclosures(first.header), HeaderKB(first.header))

Agreed(kb) ==
  LET parts == signed[kb].parts
  IN  [jwt |-> parts[1], disclosures |-> SubSeq(parts, 2, Len(parts) - 1), kb |-> kb]

Carried ==
  INSTANCE Conveyance
    WITH content <- Content(artifact), agreed <- {Agreed(kb) : kb \in DOMAIN signed}, None <- Empty

(* The key binding JWTs that other programs wrote are not those of holders here. *)
ASSUME OthersKBs == \A t \in Texts : \A c \in Content(t) : c.kb \notin KBs

(***************************************************************************)
(* Conveyance: on a way of any length through all forms, nothing is added, *)
(* reordered or exchanged, and a general JSON that others have signed      *)
(* carries what the first signature carried or cannot be read any more.    *)
(***************************************************************************)
NothingAdded == Carried!Spec

(***************************************************************************)
(* A key binding JWT stays good: where there is one made with the          *)
(* algorithm that the JWT states, the SD-JWT as it then reaches a verifier *)
(* in compact form has the sd_hash that was signed.                        *)
(***************************************************************************)
StaysBound ==
  \A c \in Content(artifact) :
    c.kb \in DOMAIN signed /\ isJWT(c.jwt) =>
      \E v \in Parse(Serialize(c), "") :
        /\ HashSDJWT(v).parts = signed[c.kb].parts
        /\ HashSDJWT(v).alg = signed[c.kb].alg \/ {signed[c.kb].alg} # Stated(c.jwt)
=============================================================================
