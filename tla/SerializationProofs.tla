-------------------------- MODULE SerializationProofs --------------------------
(***************************************************************************)
(* Proofs of the invariants of Serialization, and that it implements       *)
(* Conveyance, for any issuers, holders, texts and algorithms.             *)
(*                                                                         *)
(* Whatever form an SD-JWT has, it carries the same; the lemmas say so of  *)
(* writing and of reading, and the rest is about what is carried.          *)
(***************************************************************************)
EXTENDS Serialization, SequenceTheorems, TLAPS

(* The parts of a compact SD-JWT. *)
LEMMA CompactParts ==
  ASSUME NEW jwt \in String, NEW ds \in Seq(String), NEW last \in String,
         NEW parts, parts = <<jwt>> \o ds \o <<last>>
  PROVE  /\ parts \in Seq(String) /\ Len(parts) = Len(ds) + 2 /\ Len(parts) >= 2
         /\ parts[1] = jwt /\ parts[Len(parts)] = last
         /\ SubSeq(parts, 2, Len(parts) - 1) = ds
  <1> DEFINE front == <<jwt>> \o ds
  <1>1. <<jwt>> \in Seq(String) /\ <<last>> \in Seq(String) /\ Len(<<jwt>>) = 1 /\ Len(<<last>>) = 1
        /\ <<jwt>>[1] = jwt /\ <<last>>[1] = last /\ Len(ds) \in Nat
    BY LenProperties
  <1>2. /\ front \in Seq(String) /\ Len(front) = 1 + Len(ds)
        /\ \A i \in 1..(1 + Len(ds)) : front[i] = IF i <= 1 THEN <<jwt>>[i] ELSE ds[i - 1]
    BY <1>1, ConcatProperties
  <1> HIDE DEF front
  <1>3. /\ parts \in Seq(String) /\ Len(parts) = Len(ds) + 2
        /\ \A i \in 1..(Len(ds) + 2) :
             parts[i] = IF i <= 1 + Len(ds) THEN front[i] ELSE <<last>>[i - (1 + Len(ds))]
    <2>1. parts = front \o <<last>>
      BY DEF front
    <2> QED BY <1>1, <1>2, <2>1, ConcatProperties
  <1>4. parts[1] = jwt
    BY <1>1, <1>2, <1>3
  <1>5. parts[Len(parts)] = last
    BY <1>1, <1>3
  <1>6. \A i \in 2..(Len(ds) + 1) : parts[i] = ds[i - 1] /\ ds[i - 1] \in String
    BY <1>1, <1>2, <1>3, ElementOfSeq
  <1>7. SubSeq(parts, 2, Len(parts) - 1) = ds
    <2> DEFINE middle == SubSeq(parts, 2, Len(ds) + 1)
    <2>1. /\ middle \in Seq(String)
          /\ Len(middle) = IF 2 <= Len(ds) + 1 THEN Len(ds) + 1 - 2 + 1 ELSE 0
          /\ \A i \in 1..(Len(ds) + 1 - 2 + 1) : middle[i] = parts[2 + i - 1]
      <3>1. \A i \in 2..(Len(ds) + 1) : parts[i] \in String
        BY <1>6
      <3>2. 2 \in Int /\ Len(ds) + 1 \in Int
        BY <1>1
      <3> QED BY <3>1, <3>2, SubSeqProperties
    <2> HIDE DEF middle
    <2>2. Len(middle) = Len(ds)
      BY <1>1, <2>1
    <2>3. \A i \in 1..Len(ds) : middle[i] = ds[i]
      BY <1>1, <1>6, <2>1
    <2>4. middle = ds
      BY <2>1, <2>2, <2>3, SeqEqual
    <2>5. Len(parts) - 1 = Len(ds) + 1
      BY <1>1, <1>3
    <2> QED BY <2>4, <2>5 DEF middle
  <1> QED BY <1>1, <1>3, <1>4, <1>5, <1>7

LEMMA Single ==
  ASSUME NEW S, NEW x \in S
  PROVE  <<x>> \in Seq(S) /\ Len(<<x>>) = 1 /\ <<x>>[1] = x
  OBVIOUS

(* The two halves of a concatenation. *)
LEMMA Concatenated ==
  ASSUME NEW S, NEW a \in Seq(S), NEW b \in Seq(S), NEW s, s = a \o b
  PROVE  /\ s \in Seq(S) /\ Len(s) = Len(a) + Len(b)
         /\ \A i \in 1..Len(a) : s[i] = a[i]
         /\ \A i \in 1..Len(b) : s[Len(a) + i] = b[i]
  <1> DEFINE la == Len(a)
             lb == Len(b)
  <1>1. /\ s \in Seq(S) /\ Len(s) = la + lb
        /\ \A i \in 1..(la + lb) : s[i] = IF i <= la THEN a[i] ELSE b[i - la]
    BY ConcatProperties
  <1>2. la \in Nat /\ lb \in Nat
    BY LenProperties
  <1> HIDE DEF la, lb
  <1>3. \A i \in 1..la : s[i] = a[i]
    BY <1>1, <1>2
  <1>4. \A i \in 1..lb : s[la + i] = b[i]
    <2>1. SUFFICES ASSUME NEW i \in 1..lb PROVE s[la + i] = b[i]
      OBVIOUS
    <2>2. la + i \in 1..(la + lb) /\ ~(la + i <= la) /\ (la + i) - la = i
      BY <1>2
    <2> QED BY <1>1, <2>2
  <1> QED BY <1>1, <1>3, <1>4 DEF la, lb

(* A string of three strings; and with three segments, it has one of each. *)
LEMMA ThreeStrings ==
  ASSUME NEW a \in String, NEW b \in String, NEW c \in String
  PROVE  /\ a \o b \o c \in String
         /\ Len(b) = 1 /\ Len(a) = 1 => (a \o b \o c)[2] = b[1]
         /\ isJWT(a \o b \o c) => /\ Len(a) = 1 /\ Len(b) = 1 /\ Len(c) = 1
                                 /\ (a \o b \o c)[2] = b[1]
  <1> DEFINE s == a \o b \o c
             ab == a \o b
             la == Len(a)
             lb == Len(b)
             lc == Len(c)
  <1>1. /\ a \in Seq(STRING) /\ b \in Seq(STRING) /\ c \in Seq(STRING)
        /\ la \in Nat \ {0} /\ lb \in Nat \ {0} /\ lc \in Nat \ {0}
    BY EmptySeq DEF String
  <1>2. /\ ab \in Seq(STRING) /\ Len(ab) = la + lb
        /\ \A i \in 1..la : ab[i] = a[i]
        /\ \A i \in 1..lb : ab[la + i] = b[i]
    BY <1>1, Concatenated
  <1>3. /\ s \in Seq(STRING) /\ Len(s) = Len(ab) + lc
        /\ \A i \in 1..Len(ab) : s[i] = ab[i]
    BY <1>1, <1>2, Concatenated
  <1> HIDE DEF s, ab, la, lb, lc
  <1>4. s \in String
    <2>1. Len(s) # 0
      BY <1>1, <1>2, <1>3
    <2> QED BY <1>3, <2>1, EmptySeq DEF String
  <1>5. lb = 1 /\ la = 1 => s[2] = b[1]
    <2>1. SUFFICES ASSUME lb = 1, la = 1 PROVE s[2] = b[1]
      OBVIOUS
    <2>2. ab[1 + 1] = b[1] /\ Len(ab) = 2
      BY <1>2, <2>1
    <2>3. s[2] = ab[2]
      <3>1. 2 \in 1..Len(ab)
        BY <2>2
      <3> QED BY <1>3, <3>1
    <2> QED BY <2>2, <2>3
  <1>6. isJWT(s) => la = 1 /\ lb = 1 /\ lc = 1
    <2>1. Len(s) = la + lb + lc
      BY <1>1, <1>2, <1>3
    <2>2. Len(s) = 3 => la = 1 /\ lb = 1 /\ lc = 1
      <3>1. la \in Nat /\ lb \in Nat /\ lc \in Nat /\ la # 0 /\ lb # 0 /\ lc # 0
        BY <1>1
      <3>2. la + lb + lc = 3 => la = 1 /\ lb = 1 /\ lc = 1
        BY <3>1
      <3> QED BY <2>1, <3>2
    <2> QED BY <2>2 DEF isJWT
  <1> QED BY <1>4, <1>5, <1>6 DEF s, la, lb, lc

(* A JWT is put together from its parts again. *)
LEMMA PartsOfJWT ==
  ASSUME NEW jwt \in String, isJWT(jwt)
  PROVE  /\ <<jwt[1]>> \in String /\ <<jwt[2]>> \in String /\ <<jwt[3]>> \in String
         /\ <<jwt[1]>> \o <<jwt[2]>> \o <<jwt[3]>> = jwt
  <1>1. jwt \in Seq(STRING) /\ Len(jwt) = 3
    BY DEF String, isJWT
  <1>2. jwt[1] \in STRING /\ jwt[2] \in STRING /\ jwt[3] \in STRING
    BY <1>1, ElementOfSeq
  <1>3. ASSUME NEW x \in STRING
        PROVE  <<x>> \in String /\ Len(<<x>>) = 1 /\ <<x>>[1] = x
    <2>1. <<x>> \in Seq(STRING) /\ Len(<<x>>) = 1 /\ <<x>>[1] = x
      BY Single
    <2> QED BY <2>1, EmptySeq DEF String
  <1>4. <<jwt[1]>> \o <<jwt[2]>> \o <<jwt[3]>> = jwt
    <2> DEFINE s == <<jwt[1]>> \o <<jwt[2]>> \o <<jwt[3]>>
               front == <<jwt[1]>> \o <<jwt[2]>>
    <2>1. /\ front \in Seq(STRING) /\ Len(front) = 2
          /\ front[1] = jwt[1] /\ front[1 + 1] = jwt[2]
      <3>1. <<jwt[1]>> \in Seq(STRING) /\ <<jwt[2]>> \in Seq(STRING)
        BY <1>2
      <3> QED BY <1>2, <1>3, <3>1, Concatenated
    <2>2. /\ s \in Seq(STRING) /\ Len(s) = 3
          /\ s[1] = front[1] /\ s[2] = front[2] /\ s[2 + 1] = jwt[3]
      <3>1. <<jwt[3]>> \in Seq(STRING)
        BY <1>2
      <3> QED BY <1>2, <1>3, <2>1, <3>1, Concatenated
    <2> HIDE DEF s, front
    <2>3. \A i \in 1..3 : s[i] = jwt[i]
      <3>1. \A i \in 1..3 : i = 1 \/ i = 2 \/ i = 3
        OBVIOUS
      <3> QED BY <2>1, <2>2, <3>1
    <2>4. s = jwt
      BY <1>1, <2>2, <2>3, SeqEqual
    <2> QED BY <2>4 DEF s
  <1> QED BY <1>2, <1>3, <1>4

-----------------------------------------------------------------------------
Algorithms == Supported \cup UNION {SdAlg[payload] : payload \in DOMAIN SdAlg}

(* What a compact SD-JWT with this content is read as has a stated algorithm. *)
Readable(jwt, disclosures) ==
  /\ jwt[2] \in DOMAIN SdAlg
  /\ disclosures # <<>> => Stated(jwt) \subseteq Supported

Carriable(c) ==
  /\ c.jwt \in String /\ c.disclosures \in Seq(Disclosures) /\ c.kb \in String
  /\ isJWT(c.jwt) => Readable(c.jwt, c.disclosures)

Carried0(v) == [jwt |-> v.jwt, disclosures |-> v.disclosures, kb |-> v.kb]

TextForms == Compact \cup FlattenJSON \cup GeneralJSON

LEMMA DisclosuresAreStrings ==
  /\ Disclosures \subseteq String
  /\ \A ds \in Seq(Disclosures) : ds \in Seq(String)
  <1>1. Disclosures \subseteq String
    BY StringsTyped
  <1> QED BY <1>1, SeqMonotonic

LEMMA EmptyIsString == Empty \in String /\ Len(Empty) = 1 /\ ~isJWT(Empty)
  <1>1. Empty \in String
    BY StringsTyped
  <1>2. Len(Empty) = 1
    BY DEF Empty
  <1> QED BY <1>1, <1>2 DEF isJWT

(* Headers, and what is in them. *)
LEMMA HeaderRead ==
  ASSUME NEW ds, NEW kb
  PROVE  /\ HeaderDisclosures(buildJSONHeader(ds, kb)) = ds
         /\ HeaderKB(buildJSONHeader(ds, kb)) = kb
  <1>1. CASE ds = <<>> /\ kb = Empty
    BY <1>1 DEF HeaderDisclosures, HeaderKB, buildJSONHeader
  <1>2. CASE ~(ds = <<>> /\ kb = Empty)
    <2> DEFINE header == [disclosures |-> ds, kb |-> kb]
    <2>1. buildJSONHeader(ds, kb) = {header} /\ {header} # {}
      BY <1>2 DEF buildJSONHeader
    <2>2. (CHOOSE h \in {header} : TRUE) = header
      OBVIOUS
    <2>3. header.disclosures = ds /\ header.kb = kb
      OBVIOUS
    <2> HIDE DEF header
    <2> QED BY <2>1, <2>2, <2>3 DEF HeaderDisclosures, HeaderKB
  <1> QED BY <1>1, <1>2

LEMMA HeaderTyped ==
  ASSUME NEW header \in SUBSET Header
  PROVE  HeaderDisclosures(header) \in Seq(String) /\ HeaderKB(header) \in String
  <1>1. CASE header = {}
    <2>1. <<>> \in Seq(String)
      BY EmptySeq
    <2> QED BY <1>1, <2>1, EmptyIsString DEF HeaderDisclosures, HeaderKB
  <1>2. CASE header # {}
    <2> DEFINE h == CHOOSE h \in header : TRUE
    <2>1. h \in header
      BY <1>2
    <2>2. h.disclosures \in Seq(String) /\ h.kb \in String
      BY <2>1 DEF Header
    <2> HIDE DEF h
    <2>3. HeaderDisclosures(header) = h.disclosures /\ HeaderKB(header) = h.kb
      BY <1>2 DEF HeaderDisclosures, HeaderKB, h
    <2> QED BY <2>2, <2>3
  <1> QED BY <1>1, <1>2

(* What a text carries, form by form. *)
LEMMA CompactContent ==
  ASSUME NEW parts, NEW a, a = [form |-> "compact", parts |-> parts]
  PROVE  Content(a) = IF Len(parts) < 2 THEN {}
                        ELSE {[jwt |-> parts[1], disclosures |-> SubSeq(parts, 2, Len(parts) - 1),
                               kb |-> parts[Len(parts)]]}
  BY DEF Content

LEMMA FlattenedContent ==
  ASSUME NEW a, a.form = "flattened"
  PROVE  Content(a) = {[jwt |-> a.protected \o a.payload \o a.signature,
                        disclosures |-> HeaderDisclosures(a.header), kb |-> HeaderKB(a.header)]}
  BY DEF Content

LEMMA GeneralContent ==
  ASSUME NEW a, a.form = "general"
  PROVE  Content(a) = IF ~HeadersValid(a) THEN {}
                        ELSE {[jwt |-> a.signatures[1].protected \o a.payload \o a.signatures[1].signature,
                               disclosures |-> HeaderDisclosures(a.signatures[1].header),
                               kb |-> HeaderKB(a.signatures[1].header)]}
  BY DEF Content

LEMMA MemoryContent ==
  ASSUME NEW a, a.form = "memory"
  PROVE  Content(a) = {Carried0(a)}
  BY DEF Content, Carried0

-----------------------------------------------------------------------------
(* Whatever is written carries what is in memory. *)
LEMMA WrittenContent ==
  ASSUME NEW v, v.jwt \in String, v.disclosures \in Seq(String), v.kb \in String,
         NEW t \in Written(v)
  PROVE  t \in TextForms /\ Content(t) = {Carried0(v)}
  <1> DEFINE header == buildJSONHeader(v.disclosures, v.kb)
  <1>1. /\ header \in SUBSET Header
        /\ HeaderDisclosures(header) = v.disclosures /\ HeaderKB(header) = v.kb
    <2>1. header \in SUBSET Header
      BY DEF buildJSONHeader, Header
    <2> QED BY <2>1, HeaderRead
  <1>2. CASE t = Serialize(v)
    <2> DEFINE parts == <<v.jwt>> \o v.disclosures \o <<v.kb>>
    <2>1. /\ parts \in Seq(String) /\ Len(parts) >= 2
          /\ parts[1] = v.jwt /\ parts[Len(parts)] = v.kb
          /\ SubSeq(parts, 2, Len(parts) - 1) = v.disclosures
      BY CompactParts
    <2>2. t = [form |-> "compact", parts |-> parts]
      BY <1>2 DEF Serialize
    <2>3. ~(Len(parts) < 2)
      <3>1. Len(parts) \in Nat
        BY <2>1, LenProperties
      <3> QED BY <2>1, <3>1
    <2> HIDE DEF parts
    <2>4. Content(t) = {Carried0(v)}
      BY <2>1, <2>2, <2>3, CompactContent DEF Carried0
    <2>5. t \in Compact
      BY <2>1, <2>2 DEF Compact
    <2> QED BY <2>4, <2>5 DEF TextForms
  <1>3. ASSUME isJWT(v.jwt)
        PROVE  /\ <<v.jwt[1]>> \in String /\ <<v.jwt[2]>> \in String /\ <<v.jwt[3]>> \in String
               /\ <<v.jwt[1]>> \o <<v.jwt[2]>> \o <<v.jwt[3]>> = v.jwt
    BY <1>3, PartsOfJWT
  <1> HIDE DEF header
  <1>4. CASE isJWT(v.jwt) /\ t = ToFlattenJSON(v)
    <2>1. t = [form |-> "flattened", protected |-> <<v.jwt[1]>>, payload |-> <<v.jwt[2]>>,
               signature |-> <<v.jwt[3]>>, header |-> header]
      BY <1>4 DEF ToFlattenJSON, header
    <2>2. t \in FlattenJSON
      BY <1>1, <1>3, <1>4, <2>1 DEF FlattenJSON
    <2>3. Content(t) = {Carried0(v)}
      BY <1>1, <1>3, <1>4, <2>1, FlattenedContent DEF Carried0
    <2> QED BY <2>2, <2>3 DEF TextForms
  <1>5. CASE isJWT(v.jwt) /\ t = ToGeneralJSON(v)
    <2> DEFINE first == [protected |-> <<v.jwt[1]>>, signature |-> <<v.jwt[3]>>, header |-> header]
    <2>1. t = [form |-> "general", payload |-> <<v.jwt[2]>>, signatures |-> <<first>>]
      BY <1>5 DEF ToGeneralJSON, header
    <2>2. first \in GeneralJSONSignature
      BY <1>1, <1>3, <1>5 DEF GeneralJSONSignature
    <2>3. first.protected = <<v.jwt[1]>> /\ first.signature = <<v.jwt[3]>> /\ first.header = header
      OBVIOUS
    <2> HIDE DEF first
    <2>4. <<first>> \in Seq(GeneralJSONSignature) /\ Len(<<first>>) = 1 /\ <<first>>[1] = first
      BY <2>2, Single
    <2>5. t \in GeneralJSON
      BY <1>3, <1>5, <2>1, <2>4 DEF GeneralJSON
    <2>6. HeadersValid(t)
      <3>1. t.signatures = <<first>>
        BY <2>1
      <3>2. 2..Len(t.signatures) = {}
        BY <2>4, <3>1
      <3>3. t.signatures # <<>>
        BY <3>1
      <3> QED BY <3>2, <3>3 DEF HeadersValid
    <2>7. t.form = "general" /\ t.signatures[1] = first /\ t.payload = <<v.jwt[2]>>
      BY <2>1, <2>4
    <2>8. Content(t) = {[jwt |-> v.jwt, disclosures |-> v.disclosures, kb |-> v.kb]}
      BY <1>1, <1>3, <1>5, <2>3, <2>6, <2>7, GeneralContent
    <2> QED BY <2>5, <2>8 DEF TextForms, Carried0
  <1> QED BY <1>2, <1>4, <1>5 DEF Written

-----------------------------------------------------------------------------
(* An algorithm that is resolved is the one of the payload. *)
LEMMA Resolved ==
  ASSUME NEW payload, NEW p, NEW alg \in ResolveHashAlgorithm(payload, p)
  PROVE  /\ Len(payload) = 1 /\ payload[1] \in DOMAIN SdAlg
         /\ alg \in (IF SdAlg[payload[1]] = {} THEN {DefaultHashAlgorithm} ELSE SdAlg[payload[1]])
  BY DEF ResolveHashAlgorithm

LEMMA OneAlgorithm ==
  ASSUME NEW payload \in DOMAIN SdAlg,
         NEW stated, stated = IF SdAlg[payload] = {} THEN {DefaultHashAlgorithm} ELSE SdAlg[payload]
  PROVE  /\ AtMostOne(stated) /\ stated # {} /\ stated \subseteq Algorithms \cap STRING
  <1>1. AtMostOne(SdAlg[payload]) /\ SdAlg[payload] \subseteq STRING /\ Supported \subseteq STRING
    BY StringsTyped
  <1>2. DefaultHashAlgorithm \in Supported
    BY DEF DefaultHashAlgorithm, Supported
  <1> QED BY <1>1, <1>2 DEF AtMostOne, Algorithms

LEMMA AllAlgorithms ==
  ASSUME NEW payload, Len(payload) = 1, payload[1] \in DOMAIN SdAlg
  PROVE  ResolveHashAlgorithm(payload, "") =
           IF SdAlg[payload[1]] = {} THEN {DefaultHashAlgorithm} ELSE SdAlg[payload[1]]
  BY DEF ResolveHashAlgorithm

(* Whatever is parsed is what was given, with a stated algorithm. *)
LEMMA ParsedIs ==
  ASSUME NEW jwt, NEW payload, NEW ds, NEW kb, NEW p, NEW v \in Parsed(jwt, payload, ds, kb, p)
  PROVE  /\ v.form = "memory" /\ v.jwt = jwt /\ v.disclosures = ds /\ v.kb = kb
         /\ v = [form |-> "memory", jwt |-> jwt, disclosures |-> ds, kb |-> kb, alg |-> v.alg]
         /\ v.alg \in ResolveHashAlgorithm(payload, p)
         /\ \A i \in DOMAIN ds : ds[i] \in Disclosures /\ v.alg \in Supported
  <1>1. PICK alg \in ResolveHashAlgorithm(payload, p) :
          /\ DisclosuresParse(ds, alg)
          /\ v = [form |-> "memory", jwt |-> jwt, disclosures |-> ds, kb |-> kb, alg |-> alg]
    BY DEF Parsed
  <1> QED BY <1>1 DEF DisclosuresParse

(* A value that was read, and what it carries. *)
IsRead(v, jwt, ds, kb) ==
  /\ v \in SDJWT /\ v.alg \in Algorithms
  /\ Carriable(v) /\ Carried0(v) = [jwt |-> jwt, disclosures |-> ds, kb |-> kb]
  /\ isJWT(v.jwt) => v.alg \in Stated(v.jwt) /\ v.jwt[2] \in DOMAIN SdAlg

LEMMA ParsedTyped ==
  ASSUME NEW jwt \in String, NEW payload, NEW ds \in Seq(String), NEW kb \in String, NEW p,
         NEW v \in Parsed(jwt, payload, ds, kb, p), isJWT(jwt) => jwt[2] = payload[1]
  PROVE  IsRead(v, jwt, ds, kb)
  <1> DEFINE stated == IF SdAlg[payload[1]] = {} THEN {DefaultHashAlgorithm} ELSE SdAlg[payload[1]]
  <1>1. /\ v.form = "memory" /\ v.jwt = jwt /\ v.disclosures = ds /\ v.kb = kb
        /\ v = [form |-> "memory", jwt |-> jwt, disclosures |-> ds, kb |-> kb, alg |-> v.alg]
        /\ v.alg \in ResolveHashAlgorithm(payload, p)
        /\ \A i \in DOMAIN ds : ds[i] \in Disclosures /\ v.alg \in Supported
    BY ParsedIs
  <1>2. payload[1] \in DOMAIN SdAlg /\ v.alg \in stated
    BY <1>1, Resolved
  <1> HIDE DEF stated
  <1>3. AtMostOne(stated) /\ v.alg \in Algorithms /\ v.alg \in STRING
    BY <1>2, OneAlgorithm DEF stated
  <1>4. ds \in Seq(Disclosures)
    <2>1. Len(ds) \in Nat /\ DOMAIN ds = 1..Len(ds) /\ ds \in [1..Len(ds) -> String]
      BY LenProperties
    <2>2. ds \in [1..Len(ds) -> Disclosures]
      BY <1>1, <2>1
    <2> QED BY <2>1, <2>2, SeqDef
  <1>5. isJWT(jwt) => Readable(jwt, ds)
    <2>1. SUFFICES ASSUME isJWT(jwt) PROVE Readable(jwt, ds)
      OBVIOUS
    <2>2. jwt[2] = payload[1] /\ Stated(jwt) = stated
      BY <2>1 DEF Stated, stated
    <2>3. ds # <<>> => v.alg \in Supported
      <3>1. ds # <<>> => 1 \in DOMAIN ds
        BY EmptySeq, LenProperties
      <3> QED BY <1>1, <3>1
    <2>4. ds # <<>> => stated \subseteq Supported
      BY <1>2, <1>3, <2>3 DEF AtMostOne
    <2> QED BY <1>2, <2>2, <2>4 DEF Readable
  <1>6. v \in SDJWT
    BY <1>1, <1>3, <1>4 DEF SDJWT
  <1>7. isJWT(jwt) => v.alg \in Stated(jwt) /\ jwt[2] \in DOMAIN SdAlg
    BY <1>2 DEF Stated, stated
  <1> QED BY <1>1, <1>3, <1>4, <1>5, <1>6, <1>7 DEF Carriable, Carried0, IsRead

(* Whatever is read is what the text carries. *)
LEMMA ReadContent ==
  ASSUME NEW t \in TextForms, NEW p, NEW v \in Read(t, p)
  PROVE  /\ v \in SDJWT /\ v.alg \in Algorithms /\ v.form = "memory"
         /\ Carriable(v) /\ Content(t) = {Carried0(v)}
         /\ isJWT(v.jwt) => v.alg \in Stated(v.jwt) /\ v.jwt[2] \in DOMAIN SdAlg
  <1>1. CASE t \in Compact
    <2> DEFINE jwt == t.parts[1]
               last == t.parts[Len(t.parts)]
               ds == SubSeq(t.parts, 2, Len(t.parts) - 1)
    <2>1. t.form = "compact" /\ t.parts \in Seq(String) /\ t = [form |-> "compact", parts |-> t.parts]
      BY <1>1 DEF Compact
    <2>2. /\ Len(t.parts) >= 2 /\ isJWT(jwt)
          /\ v \in Parsed(jwt, <<jwt[2]>>, ds, last, p)
      BY <2>1 DEF Read, Parse
    <2>3. jwt \in String /\ last \in String /\ ds \in Seq(String) /\ Len(t.parts) \in Nat
      <3>1. Len(t.parts) \in Nat
        BY <2>1, LenProperties
      <3>2. \A i \in 1..Len(t.parts) : t.parts[i] \in String
        BY <2>1, ElementOfSeq
      <3>3. \A i \in 2..(Len(t.parts) - 1) : t.parts[i] \in String
        BY <3>1, <3>2
      <3>4. ds \in Seq(String)
        BY <3>1, <3>3, SubSeqProperties
      <3> QED BY <2>2, <3>1, <3>2, <3>4
    <2>4. Content(t) = {[jwt |-> jwt, disclosures |-> ds, kb |-> last]}
      <3>1. ~(Len(t.parts) < 2)
        BY <2>2, <2>3
      <3> QED BY <2>1, <3>1, CompactContent
    <2> HIDE DEF jwt, last, ds
    <2> DEFINE payload == <<jwt[2]>>
    <2>5. v \in Parsed(jwt, payload, ds, last, p) /\ (isJWT(jwt) => jwt[2] = payload[1])
      BY <2>2
    <2> HIDE DEF payload
    <2>6. v.form = "memory"
      BY <2>5, ParsedIs
    <2>7. IsRead(v, jwt, ds, last)
      <3>1. jwt \in String /\ ds \in Seq(String) /\ last \in String
        BY <2>3
      <3>2. v \in Parsed(jwt, payload, ds, last, p)
        BY <2>5
      <3>3. isJWT(jwt) => jwt[2] = payload[1]
        BY <2>5
      <3> QED BY ONLY <3>1, <3>2, <3>3, ParsedTyped
    <2> QED BY <2>4, <2>6, <2>7 DEF IsRead
  <1>2. CASE t \in FlattenJSON
    <2> DEFINE jwt == t.protected \o t.payload \o t.signature
    <2>1. /\ t.form = "flattened" /\ t.protected \in String /\ t.payload \in String
          /\ t.signature \in String /\ t.header \in SUBSET Header
      BY <1>2 DEF FlattenJSON
    <2>2. v \in Parsed(jwt, t.payload, HeaderDisclosures(t.header), HeaderKB(t.header), p)
      BY <2>1 DEF Read, FromFlattenJSON
    <2>3. jwt \in String /\ (isJWT(jwt) => jwt[2] = t.payload[1])
      BY <2>1, ThreeStrings
    <2>4. Content(t) = {[jwt |-> jwt, disclosures |-> HeaderDisclosures(t.header), kb |-> HeaderKB(t.header)]}
      BY <2>1, FlattenedContent
    <2>5. HeaderDisclosures(t.header) \in Seq(String) /\ HeaderKB(t.header) \in String
      BY <2>1, HeaderTyped
    <2> HIDE DEF jwt
    <2>6. v.form = "memory"
      BY <2>2, ParsedIs
    <2>7. IsRead(v, jwt, HeaderDisclosures(t.header), HeaderKB(t.header))
      BY <2>2, <2>3, <2>5, ParsedTyped
    <2> QED BY <2>4, <2>6, <2>7 DEF IsRead
  <1>3. CASE t \in GeneralJSON
    <2> DEFINE first == t.signatures[1]
               jwt == first.protected \o t.payload \o first.signature
    <2>1. t.form = "general" /\ t.payload \in String /\ t.signatures \in Seq(GeneralJSONSignature)
      BY <1>3 DEF GeneralJSON
    <2>2. /\ HeadersValid(t)
          /\ v \in Parsed(jwt, t.payload, HeaderDisclosures(first.header), HeaderKB(first.header), p)
      BY <2>1 DEF Read, FromGeneralJSON
    <2>3. first \in GeneralJSONSignature
      <3>1. t.signatures # <<>>
        BY <2>2 DEF HeadersValid
      <3>2. 1 \in 1..Len(t.signatures)
        BY <2>1, <3>1, EmptySeq
      <3> QED BY <2>1, <3>2, ElementOfSeq
    <2>4. first.protected \in String /\ first.signature \in String /\ first.header \in SUBSET Header
      BY <2>3 DEF GeneralJSONSignature
    <2>5. Content(t) = {[jwt |-> jwt, disclosures |-> HeaderDisclosures(first.header),
                         kb |-> HeaderKB(first.header)]}
      BY <2>1, <2>2, GeneralContent
    <2> HIDE DEF first
    <2>6. jwt \in String /\ (isJWT(jwt) => jwt[2] = t.payload[1])
      BY <2>1, <2>4, ThreeStrings
    <2> DEFINE ds == HeaderDisclosures(first.header)
               kb == HeaderKB(first.header)
    <2>7. ds \in Seq(String) /\ kb \in String
      BY <2>4, HeaderTyped
    <2> HIDE DEF jwt
    <2>8. v \in Parsed(jwt, t.payload, ds, kb, p)
      BY <2>2
    <2> HIDE DEF ds, kb
    <2>9. v.form = "memory"
      BY <2>8, ParsedIs
    <2>10. IsRead(v, jwt, ds, kb)
      <3> DEFINE payload == t.payload
      <3>1. jwt \in String /\ ds \in Seq(String) /\ kb \in String
        BY <2>6, <2>7
      <3>2. v \in Parsed(jwt, payload, ds, kb, p)
        BY <2>8
      <3>3. isJWT(jwt) => jwt[2] = payload[1]
        BY <2>6
      <3> HIDE DEF payload
      <3> QED BY <3>1, <3>2, <3>3, ParsedTyped
    <2> QED BY <2>5, <2>9, <2>10 DEF IsRead, ds, kb
  <1> QED BY <1>1, <1>2, <1>3 DEF TextForms

-----------------------------------------------------------------------------
(***************************************************************************)
(* The inductive invariant: what is in memory can be written and read      *)
(* again; and what is carried with a key binding JWT made on the way can,  *)
(* too, and is what that JWT was made for.                                 *)
(***************************************************************************)
Hash(h) == h \in [parts : Seq(String), alg : Supported] /\ Len(h.parts) >= 2 /\ h.alg # ""

Bound(c, made) ==
  c.kb \in DOMAIN made =>
    Carriable(c) /\ made[c.kb].parts = <<c.jwt>> \o c.disclosures \o <<Empty>>

Inv ==
  /\ artifact \in SDJWT \cup TextForms
  /\ artifact.form = "memory" => artifact.alg \in Algorithms /\ Carriable(artifact)
  /\ DOMAIN signed \subseteq KBs
  /\ \A kb \in DOMAIN signed : Hash(signed[kb])
  /\ \A c \in Content(artifact) : Bound(c, signed)

LEMMA Forms ==
  /\ \A v \in SDJWT : v.form = "memory"
  /\ \A t \in TextForms : t.form # "memory"
  BY DEF SDJWT, TextForms, Compact, FlattenJSON, GeneralJSON

LEMMA InMemory ==
  ASSUME Inv, artifact.form = "memory"
  PROVE  /\ artifact \in SDJWT /\ Carriable(artifact) /\ artifact.alg \in Algorithms
         /\ Content(artifact) = {Carried0(artifact)}
  BY Forms, MemoryContent DEF Inv

LEMMA EmptyIsNoKB == ASSUME Inv PROVE Empty \notin DOMAIN signed
  <1>1. \A kb \in KBs : isJWT(kb)
    BY StringsTyped
  <1> QED BY <1>1, EmptyIsString DEF Inv

LEMMA InvInit == Init => Inv
  <1>1. SUFFICES ASSUME Init PROVE Inv
    OBVIOUS
  <1>2. DOMAIN signed = {}
    BY <1>1 DEF Init
  <1>3. CASE artifact \in Texts
    <2>1. artifact \in TextForms
      BY <1>3, StringsTyped DEF TextForms
    <2> QED BY <1>2, <2>1, Forms DEF Inv, Bound
  <1>4. CASE artifact \in Values
    <2>1. /\ artifact \in SDJWT /\ isJWT(artifact.jwt) /\ artifact.jwt[2] \in DOMAIN SdAlg
          /\ artifact.disclosures # <<>> => SdAlg[artifact.jwt[2]] = {artifact.alg}
          /\ artifact.alg \in Supported
      BY <1>4, ValuesAreIssued
    <2>2. artifact.disclosures # <<>> => Stated(artifact.jwt) = {artifact.alg}
      BY <2>1 DEF Stated
    <2>3. Carriable(artifact)
      BY <2>1, <2>2 DEF Carriable, Readable, SDJWT
    <2>4. artifact.alg \in Algorithms
      BY <2>1 DEF Algorithms
    <2> QED BY <1>2, <2>1, <2>3, <2>4 DEF Inv, Bound
  <1> QED BY <1>1, <1>3, <1>4 DEF Init

(* A step that makes no key binding JWT. *)
LEMMA NothingSigned ==
  ASSUME Inv, signed' = signed, artifact' \in SDJWT \cup TextForms,
         artifact'.form = "memory" => artifact'.alg \in Algorithms /\ Carriable(artifact'),
         \A c \in Content(artifact') : c \in Content(artifact) \/ c.kb \notin DOMAIN signed
  PROVE  Inv'
  <1>1. \A c \in Content(artifact') : Bound(c, signed)
    BY DEF Inv, Bound
  <1>2. /\ DOMAIN signed \subseteq KBs
        /\ \A kb \in DOMAIN signed : Hash(signed[kb])
    BY DEF Inv
  <1> QED BY <1>1, <1>2 DEF Inv

LEMMA AgreedKept ==
  ASSUME signed' = signed
  PROVE  {Agreed(kb) : kb \in DOMAIN signed}' = {Agreed(kb) : kb \in DOMAIN signed}
  BY DEF Agreed

LEMMA NothingCarried ==
  ASSUME signed' = signed, Content(artifact') = Content(artifact)
  PROVE  UNCHANGED Carried!vars
  BY AgreedKept DEF Carried!vars, Content, HeadersValid

-----------------------------------------------------------------------------
LEMMA WriteStep ==
  ASSUME Inv, NEW withKB \in BOOLEAN, WriteText(withKB)
  PROVE  Inv' /\ [Carried!Next]_Carried!vars
  <1> DEFINE v == IF withKB THEN artifact ELSE [artifact EXCEPT !.kb = Empty]
  <1>1. artifact.form = "memory" /\ artifact' \in Written(v) /\ signed' = signed
    BY DEF WriteText
  <1>2. /\ artifact \in SDJWT /\ Carriable(artifact) /\ artifact.alg \in Algorithms
        /\ Content(artifact) = {Carried0(artifact)}
    BY <1>1, InMemory
  <1>3. /\ v.jwt = artifact.jwt /\ v.disclosures = artifact.disclosures
        /\ v.kb = IF withKB THEN artifact.kb ELSE Empty
    BY <1>2 DEF SDJWT
  <1> HIDE DEF v
  <1>4. v.jwt \in String /\ v.disclosures \in Seq(String) /\ v.kb \in String
    BY <1>2, <1>3, DisclosuresAreStrings, EmptyIsString DEF Carriable
  <1>5. artifact' \in TextForms /\ Content(artifact') = {Carried0(v)}
    BY <1>1, <1>4, WrittenContent
  <1>6. CASE withKB
    <2>1. Content(artifact') = Content(artifact)
      BY <1>2, <1>3, <1>5, <1>6 DEF Carried0
    <2>2. Inv'
      BY <1>1, <1>5, <2>1, Forms, NothingSigned
    <2>3. UNCHANGED Carried!vars
      BY <1>1, <2>1, NothingCarried
    <2> QED BY <2>2, <2>3
  <1>7. CASE ~withKB
    <2>1. Carried0(v) = [Carried0(artifact) EXCEPT !.kb = Empty] /\ Carried0(v).kb = Empty
      BY <1>3, <1>7 DEF Carried0
    <2>2. Inv'
      BY <1>1, <1>5, <2>1, EmptyIsNoKB, Forms, NothingSigned
    <2>3. Carried!Forget(Carried0(artifact))
      BY <1>1, <1>5, <2>1, AgreedKept DEF Carried!Forget
    <2>4. Carried!Next
      BY <1>2, <2>3 DEF Carried!Next
    <2> QED BY <2>2, <2>4
  <1> QED BY <1>6, <1>7

LEMMA ReadStep ==
  ASSUME Inv, NEW p \in Provided, ReadText(p)
  PROVE  Inv' /\ UNCHANGED Carried!vars
  <1>1. /\ artifact.form # "memory" /\ signed' = signed
        /\ artifact' \in Read(artifact, p) \/ artifact' = artifact
    BY DEF ReadText
  <1>2. artifact \in TextForms
    BY <1>1, Forms DEF Inv
  <1>3. CASE artifact' = artifact
    <2>1. Content(artifact') = Content(artifact)
      BY <1>3
    <2>2. UNCHANGED Carried!vars
      BY <1>1, <2>1, NothingCarried
    <2>3. Inv'
      BY <1>1, <1>2, <1>3, NothingSigned
    <2> QED BY <2>2, <2>3
  <1>4. CASE artifact' \in Read(artifact, p)
    <2>1. /\ artifact' \in SDJWT /\ artifact'.alg \in Algorithms /\ artifact'.form = "memory"
          /\ Carriable(artifact') /\ Content(artifact) = {Carried0(artifact')}
      BY <1>2, <1>4, ReadContent
    <2>2. Content(artifact') = Content(artifact)
      BY <2>1, MemoryContent
    <2>3. UNCHANGED Carried!vars
      BY <1>1, <2>2, NothingCarried
    <2>4. Inv'
      BY <1>1, <2>1, <2>2, NothingSigned
    <2> QED BY <2>3, <2>4
  <1> QED BY <1>1, <1>3, <1>4

-----------------------------------------------------------------------------
(* What At picks, it picks in order. *)
LEMMA Picked ==
  ASSUME NEW S, NEW s \in Seq(S), NEW I, I \subseteq DOMAIN s, NEW t \in At(s, I)
  PROVE  /\ t \in Seq(S) /\ Carried!Subsequence(t, s)
         /\ t # <<>> => s # <<>>
  <1>1. PICK n \in 0..Len(s) : \E q \in [1..n -> I] :
          /\ \A i, j \in 1..n : i < j => q[i] < q[j]
          /\ t = [i \in DOMAIN q |-> s[q[i]]]
    BY DEF At
  <1>2. PICK q \in [1..n -> I] : /\ \A i, j \in 1..n : i < j => q[i] < q[j]
                                /\ t = [i \in DOMAIN q |-> s[q[i]]]
    BY <1>1
  <1>3. Len(s) \in Nat /\ n \in Nat /\ DOMAIN q = 1..n
    BY LenProperties
  <1>4. \A i \in 1..n : q[i] \in DOMAIN s /\ s[q[i]] \in S
    BY LenProperties, ElementOfSeq
  <1>5. t \in [1..n -> S] /\ \A i \in 1..n : t[i] = s[q[i]]
    BY <1>2, <1>3, <1>4
  <1>6. t \in Seq(S)
    BY <1>3, <1>5, SeqDef
  <1>7. DOMAIN t = 1..n /\ q \in [DOMAIN t -> DOMAIN s]
    BY <1>3, <1>4, <1>5
  <1>8. Carried!Subsequence(t, s)
    BY <1>2, <1>5, <1>7 DEF Carried!Subsequence
  <1>9. ASSUME t # <<>> PROVE s # <<>>
    <2>1. 1 \in DOMAIN t
      BY <1>6, <1>9, EmptySeq, LenProperties
    <2>2. q[1] \in DOMAIN s
      BY <1>4, <1>7, <2>1
    <2> QED BY <2>2
  <1> QED BY <1>6, <1>8, <1>9

LEMMA SelectStep ==
  ASSUME Inv, NEW selected \in Selections, Select(selected)
  PROVE  Inv' /\ Carried!Next
  <1> DEFINE c == Carried0(artifact)
  <1>1. artifact.form = "memory" /\ artifact' \in SelectDisclosures(artifact, selected) /\ signed' = signed
    BY DEF Select
  <1>2. /\ artifact \in SDJWT /\ Carriable(artifact) /\ artifact.alg \in Algorithms
        /\ Content(artifact) = {c}
    BY <1>1, InMemory
  <1>3. PICK ds \in Selected(artifact.disclosures, selected) :
          artifact' = [artifact EXCEPT !.disclosures = ds, !.kb = Empty]
    BY <1>1 DEF SelectDisclosures
  <1>4. /\ ds \in Seq(Disclosures) /\ Carried!Subsequence(ds, artifact.disclosures)
        /\ ds # <<>> => artifact.disclosures # <<>>
    <2> DEFINE I == {i \in DOMAIN artifact.disclosures : artifact.disclosures[i] \in selected}
    <2>1. ds \in At(artifact.disclosures, I) /\ I \subseteq DOMAIN artifact.disclosures
      BY DEF Selected
    <2>2. artifact.disclosures \in Seq(Disclosures)
      BY <1>2 DEF Carriable
    <2> HIDE DEF I
    <2> QED BY <2>1, <2>2, Picked
  <1>5. /\ artifact' \in SDJWT /\ artifact'.form = "memory" /\ artifact'.jwt = artifact.jwt
        /\ artifact'.disclosures = ds /\ artifact'.kb = Empty /\ artifact'.alg = artifact.alg
    BY <1>2, <1>3, <1>4, EmptyIsString DEF SDJWT
  <1>6. Carriable(artifact')
    BY <1>2, <1>4, <1>5, EmptyIsString DEF Carriable, Readable
  <1>7. Content(artifact') = {[jwt |-> artifact.jwt, disclosures |-> ds, kb |-> Empty]}
    BY <1>5, MemoryContent DEF Carried0
  <1>8. Inv'
    BY <1>1, <1>2, <1>5, <1>6, <1>7, EmptyIsNoKB, NothingSigned
  <1>9. Carried!Narrow(c, ds)
    BY <1>1, <1>4, <1>7, AgreedKept DEF Carried!Narrow, Carried0
  <1>10. Carried!Next
    <2>1. \E d \in Content(artifact') : d.disclosures = ds
      BY <1>7
    <2> QED BY <1>2, <1>9, <2>1 DEF Carried!Next
  <1> QED BY <1>8, <1>10

LEMMA BindStep ==
  ASSUME Inv, NEW kb \in KBs, Bind(kb)
  PROVE  Inv' /\ Carried!Next
  <1> DEFINE c == Carried0(artifact)
             parts == <<artifact.jwt>> \o artifact.disclosures \o <<Empty>>
             bound == [jwt |-> artifact.jwt, disclosures |-> artifact.disclosures, kb |-> kb]
  <1>1. /\ artifact.form = "memory" /\ artifact.alg \in Supported /\ kb \notin DOMAIN signed
        /\ artifact' = [artifact EXCEPT !.kb = kb]
        /\ signed' = [k \in DOMAIN signed \cup {kb} |-> IF k = kb THEN HashSDJWT(artifact) ELSE signed[k]]
    BY DEF Bind
  <1>2. /\ artifact \in SDJWT /\ Carriable(artifact) /\ artifact.alg \in Algorithms
        /\ Content(artifact) = {c}
    BY <1>1, InMemory
  <1>3. kb \in String
    BY StringsTyped
  <1>4. /\ artifact' \in SDJWT /\ artifact'.form = "memory" /\ artifact'.jwt = artifact.jwt
        /\ artifact'.disclosures = artifact.disclosures /\ artifact'.kb = kb /\ artifact'.alg = artifact.alg
    BY <1>1, <1>2, <1>3 DEF SDJWT
  <1>5. Carriable(artifact') /\ Carriable(bound)
    BY <1>2, <1>3, <1>4 DEF Carriable
  <1>6. Content(artifact') = {bound}
    BY <1>4, MemoryContent DEF Carried0
  <1>7. /\ parts \in Seq(String) /\ Len(parts) >= 2 /\ parts[1] = artifact.jwt
        /\ SubSeq(parts, 2, Len(parts) - 1) = artifact.disclosures
    <2>1. artifact.jwt \in String /\ artifact.disclosures \in Seq(String)
      BY <1>2, DisclosuresAreStrings DEF Carriable
    <2> QED BY <2>1, CompactParts, EmptyIsString
  <1>8. /\ HashSDJWT(artifact).parts = parts
        /\ HashSDJWT(artifact).alg = IF artifact.alg = "" THEN DefaultHashAlgorithm ELSE artifact.alg
        /\ HashSDJWT(artifact) = [parts |-> parts, alg |-> HashSDJWT(artifact).alg]
    BY <1>2 DEF HashSDJWT, Serialize, SDJWT
  <1> HIDE DEF parts
  <1>9. Hash(HashSDJWT(artifact))
    <2>1. HashSDJWT(artifact).alg \in Supported /\ HashSDJWT(artifact).alg # ""
      BY <1>1, <1>8 DEF DefaultHashAlgorithm, Supported
    <2> QED BY <1>7, <1>8, <2>1 DEF Hash
  <1>10. /\ DOMAIN signed' = DOMAIN signed \cup {kb} /\ signed'[kb] = HashSDJWT(artifact)
         /\ \A k \in DOMAIN signed : signed'[k] = signed[k]
    BY <1>1
  <1>11. Inv'
    <2>1. Bound(bound, signed')
      BY <1>5, <1>8, <1>10 DEF Bound, parts
    <2>2. \A k \in DOMAIN signed' : Hash(signed'[k])
      BY <1>9, <1>10 DEF Inv
    <2>3. DOMAIN signed' \subseteq KBs
      BY <1>10 DEF Inv
    <2> QED BY <1>2, <1>4, <1>5, <1>6, <2>1, <2>2, <2>3 DEF Inv
  <1>12. Carried!Agree(c, kb)
    <2> DEFINE agreed == {Agreed(k) : k \in DOMAIN signed}
    <2>1. \A k \in DOMAIN signed : Agreed(k).kb = k
      BY DEF Agreed
    <2>2. kb \notin {a.kb : a \in agreed}
      BY <1>1, <2>1
    <2>3. \A k \in DOMAIN signed : Agreed(k)' = Agreed(k)
      BY <1>10 DEF Agreed
    <2>4. Agreed(kb)' = bound
      BY <1>7, <1>8, <1>10 DEF Agreed
    <2>5. agreed' = agreed \cup {bound}
      BY <1>10, <2>3, <2>4
    <2>6. Carried!Agreement(c, kb) = bound
      BY DEF Carried!Agreement, Carried0
    <2> QED BY <1>6, <2>2, <2>5, <2>6 DEF Carried!Agree
  <1>13. Carried!Next
    <2>1. \E d \in Content(artifact') : d.kb = kb
      BY <1>6
    <2> QED BY <1>2, <1>12, <2>1 DEF Carried!Next
  <1> QED BY <1>11, <1>13

-----------------------------------------------------------------------------
NoHeader(s) == HeaderDisclosures(s.header) = <<>> /\ HeaderKB(s.header) = Empty

LEMMA LaterHeaders ==
  ASSUME NEW a PROVE HeadersValid(a) <=> /\ a.signatures # <<>>
                                        /\ \A i \in 2..Len(a.signatures) : NoHeader(a.signatures[i])
  BY DEF HeadersValid, NoHeader

(* A signature at the end changes nothing for who reads the first. *)
LEMMA SignedLast ==
  ASSUME NEW a \in GeneralJSON, a.signatures # <<>>, NEW s \in GeneralJSONSignature, NoHeader(s),
         NEW b, b = [a EXCEPT !.signatures = Append(@, s)]
  PROVE  b \in GeneralJSON /\ Content(b) = Content(a)
  <1> DEFINE old == a.signatures
             new == Append(old, s)
  <1>1. old \in Seq(GeneralJSONSignature) /\ Len(old) \in Nat /\ Len(old) # 0
    <2>1. old \in Seq(GeneralJSONSignature)
      BY DEF GeneralJSON
    <2> QED BY <2>1, EmptySeq, LenProperties
  <1>2. /\ new \in Seq(GeneralJSONSignature) /\ Len(new) = Len(old) + 1
        /\ \A i \in 1..Len(old) : new[i] = old[i]
        /\ new[Len(old) + 1] = s
    BY <1>1, AppendProperties
  <1>3. /\ b \in GeneralJSON /\ b.form = "general" /\ a.form = "general"
        /\ b.signatures = new /\ b.payload = a.payload
    BY <1>2 DEF GeneralJSON
  <1> HIDE DEF new
  <1>4. (\A i \in 2..Len(new) : NoHeader(new[i])) <=> \A i \in 2..Len(old) : NoHeader(old[i])
    <2>1. \A i \in 2..Len(old) : i \in 1..Len(old) /\ i \in 2..Len(new)
      BY <1>1, <1>2
    <2>2. \A i \in 2..Len(new) : i \in 2..Len(old) \/ i = Len(old) + 1
      BY <1>1, <1>2
    <2> QED BY <1>2, <2>1, <2>2
  <1>5. new # <<>> /\ new[1] = old[1]
    BY <1>1, <1>2
  <1>6. HeadersValid(b) <=> HeadersValid(a)
    BY <1>3, <1>4, <1>5, LaterHeaders
  <1> HIDE DEF old
  <1>7. b.signatures[1] = a.signatures[1]
    BY <1>3, <1>5 DEF old
  <1> QED BY <1>3, <1>6, <1>7, GeneralContent

(* A signature at the front hides what the others carry, or there is nothing. *)
LEMMA SignedFirst ==
  ASSUME NEW a \in GeneralJSON, a.signatures # <<>>, NEW s \in GeneralJSONSignature, NoHeader(s),
         Len(s.protected) = 1, NEW b \in {[a EXCEPT !.signatures = <<s>> \o @]}
  PROVE  /\ b \in GeneralJSON
         /\ \/ Content(b) = {}
            \/ \E old, new \in Seq(STRING) :
                 /\ Content(a) = {[jwt |-> old, disclosures |-> <<>>, kb |-> Empty]}
                 /\ Content(b) = {[jwt |-> new, disclosures |-> <<>>, kb |-> Empty]}
                 /\ Len(old) = 3 => new[2] = old[2]
  <1> DEFINE old == a.signatures
             new == <<s>> \o old
  <1>1. old \in Seq(GeneralJSONSignature) /\ Len(old) \in Nat /\ Len(old) # 0
    <2>1. old \in Seq(GeneralJSONSignature)
      BY DEF GeneralJSON
    <2> QED BY <2>1, EmptySeq, LenProperties
  <1>2. /\ new \in Seq(GeneralJSONSignature) /\ Len(new) = 1 + Len(old)
        /\ new[1] = s /\ \A i \in 1..Len(old) : new[1 + i] = old[i]
    <2>1. <<s>> \in Seq(GeneralJSONSignature) /\ Len(<<s>>) = 1 /\ <<s>>[1] = s
      BY Single
    <2> QED BY <1>1, <2>1, Concatenated
  <1>3. /\ b \in GeneralJSON /\ b.form = "general" /\ a.form = "general"
        /\ b.signatures = new /\ b.payload = a.payload
    BY <1>2 DEF GeneralJSON
  <1> HIDE DEF new
  <1>4. CASE ~HeadersValid(b)
    BY <1>3, <1>4, GeneralContent
  <1>5. CASE HeadersValid(b)
    <2>1. \A i \in 1..Len(old) : NoHeader(old[i])
      <3>1. \A i \in 1..Len(old) : 1 + i \in 2..Len(new)
        BY <1>1, <1>2
      <3>2. \A i \in 2..Len(new) : NoHeader(new[i])
        BY <1>3, <1>5, LaterHeaders
      <3> QED BY <1>2, <3>1, <3>2
    <2>2. HeadersValid(a)
      <3>1. \A i \in 2..Len(old) : i \in 1..Len(old)
        BY <1>1
      <3> QED BY <2>1, <3>1, LaterHeaders
    <2> DEFINE first == a.signatures[1]
               payload == a.payload
               jwtA == first.protected \o payload \o first.signature
               jwtB == s.protected \o payload \o s.signature
    <2>3. NoHeader(first) /\ first \in GeneralJSONSignature
      <3>1. 1 \in 1..Len(old)
        BY <1>1
      <3> QED BY <1>1, <2>1, <3>1, ElementOfSeq
    <2>4. /\ first.protected \in String /\ first.signature \in String
          /\ s.protected \in String /\ s.signature \in String /\ payload \in String
      BY <2>3 DEF GeneralJSONSignature, GeneralJSON
    <2>5. Content(a) = {[jwt |-> jwtA, disclosures |-> <<>>, kb |-> Empty]}
      BY <1>3, <2>2, <2>3, GeneralContent DEF NoHeader
    <2>6. Content(b) = {[jwt |-> jwtB, disclosures |-> <<>>, kb |-> Empty]}
      <3>1. b.signatures[1] = s /\ b.payload = payload
        BY <1>2, <1>3
      <3> QED BY <1>3, <1>5, <3>1, GeneralContent DEF NoHeader
    <2> HIDE DEF first, payload
    <2>7. jwtA \in String /\ (isJWT(jwtA) => Len(payload) = 1 /\ jwtA[2] = payload[1])
      BY <2>4, ThreeStrings
    <2>8. jwtB \in String /\ (Len(payload) = 1 => jwtB[2] = payload[1])
      BY <2>4, ThreeStrings
    <2> HIDE DEF jwtA, jwtB
    <2>9. Len(jwtA) = 3 => jwtB[2] = jwtA[2]
      BY <2>7, <2>8 DEF isJWT
    <2>10. jwtA \in Seq(STRING) /\ jwtB \in Seq(STRING)
      BY <2>7, <2>8 DEF String
    <2> QED BY <1>3, <2>5, <2>6, <2>9, <2>10
  <1> QED BY <1>3, <1>4, <1>5

LEMMA CosignStep ==
  ASSUME Inv, NEW s \in Cosigners, Cosign(s)
  PROVE  Inv' /\ [Carried!Next]_Carried!vars
  <1>1. artifact.form = "general" /\ Len(artifact.signatures) \in 1..(MaxSignatures - 1) /\ signed' = signed
    BY DEF Cosign
  <1>2. artifact \in GeneralJSON
    BY <1>1 DEF Inv, SDJWT, TextForms, Compact, FlattenJSON
  <1>3. artifact.signatures # <<>>
    BY <1>1, EmptySeq
  <1>4. s \in GeneralJSONSignature /\ Len(s.protected) = 1 /\ NoHeader(s)
    <2>1. s.header = {} /\ s \in GeneralJSONSignature /\ Len(s.protected) = 1
      BY StringsTyped
    <2> QED BY <2>1 DEF NoHeader, HeaderDisclosures, HeaderKB
  <1>5. CASE artifact' = [artifact EXCEPT !.signatures = Append(@, s)]
    <2>1. artifact' \in GeneralJSON /\ Content(artifact') = Content(artifact)
      BY <1>2, <1>3, <1>4, <1>5, SignedLast
    <2>2. artifact' \in TextForms /\ artifact'.form # "memory"
      BY <2>1, Forms DEF TextForms
    <2>3. Inv'
      BY <1>1, <2>1, <2>2, NothingSigned
    <2>4. UNCHANGED Carried!vars
      BY <1>1, <2>1, NothingCarried
    <2> QED BY <2>3, <2>4
  <1>6. CASE artifact' = [artifact EXCEPT !.signatures = <<s>> \o @]
    <2>1. /\ artifact' \in GeneralJSON
          /\ \/ Content(artifact') = {}
             \/ \E old, new \in Seq(STRING) :
                  /\ Content(artifact) = {[jwt |-> old, disclosures |-> <<>>, kb |-> Empty]}
                  /\ Content(artifact') = {[jwt |-> new, disclosures |-> <<>>, kb |-> Empty]}
                  /\ Len(old) = 3 => new[2] = old[2]
      BY <1>2, <1>3, <1>4, <1>6, SignedFirst
    <2>2. artifact' \in TextForms /\ artifact'.form # "memory"
      BY <2>1, Forms DEF TextForms
    <2>3. CASE Content(artifact') = {}
      <3>1. Inv'
        BY <1>1, <2>2, <2>3, NothingSigned
      <3>2. Carried!Lose
        BY <1>1, <2>3, AgreedKept DEF Carried!Lose
      <3> QED BY <3>1, <3>2 DEF Carried!Next
    <2>4. ASSUME NEW old \in Seq(STRING), NEW new \in Seq(STRING),
                 Content(artifact) = {[jwt |-> old, disclosures |-> <<>>, kb |-> Empty]},
                 Content(artifact') = {[jwt |-> new, disclosures |-> <<>>, kb |-> Empty]},
                 Len(old) = 3 => new[2] = old[2]
          PROVE  Inv' /\ Carried!Next
      <3> DEFINE c == [jwt |-> old, disclosures |-> <<>>, kb |-> Empty]
                 d == [jwt |-> new, disclosures |-> <<>>, kb |-> Empty]
      <3>1. Inv'
        BY <1>1, <2>2, <2>4, EmptyIsNoKB, NothingSigned
      <3>2. Carried!SignAgain(c, new)
        <4>1. d = [c EXCEPT !.jwt = new] /\ c.jwt = old /\ c.disclosures = <<>> /\ c.kb = Empty
          OBVIOUS
        <4>2. Content(artifact') = {d}
          BY <2>4
        <4> HIDE DEF c, d
        <4> QED BY <1>1, <2>4, <4>1, <4>2, AgreedKept DEF Carried!SignAgain
      <3>3. c \in Content(artifact) /\ d \in Content(artifact') /\ d.jwt = new
        BY <2>4
      <3> QED BY <3>1, <3>2, <3>3 DEF Carried!Next
    <2> QED BY <2>1, <2>3, <2>4
  <1> QED BY <1>5, <1>6 DEF Cosign

-----------------------------------------------------------------------------
LEMMA Step == Inv /\ [Next]_vars => Inv' /\ [Carried!Next]_Carried!vars
  <1>1. SUFFICES ASSUME Inv, [Next]_vars PROVE Inv' /\ [Carried!Next]_Carried!vars
    OBVIOUS
  <1>2. CASE UNCHANGED vars
    <2>1. artifact' = artifact /\ signed' = signed
      BY <1>2 DEF vars
    <2>2. Content(artifact') = Content(artifact)
      BY <2>1
    <2>3. UNCHANGED Carried!vars
      BY <2>1, <2>2, NothingCarried
    <2>4. Inv'
      BY <1>1, <2>1, NothingSigned DEF Inv
    <2> QED BY <2>3, <2>4
  <1>3. ASSUME NEW withKB \in BOOLEAN, WriteText(withKB) PROVE Inv' /\ [Carried!Next]_Carried!vars
    BY <1>1, <1>3, WriteStep
  <1>4. ASSUME NEW p \in Provided, ReadText(p) PROVE Inv' /\ [Carried!Next]_Carried!vars
    BY <1>1, <1>4, ReadStep
  <1>5. ASSUME NEW selected \in Selections, Select(selected) PROVE Inv' /\ [Carried!Next]_Carried!vars
    BY <1>1, <1>5, SelectStep
  <1>6. ASSUME NEW kb \in KBs, Bind(kb) PROVE Inv' /\ [Carried!Next]_Carried!vars
    BY <1>1, <1>6, BindStep
  <1>7. ASSUME NEW s \in Cosigners, Cosign(s) PROVE Inv' /\ [Carried!Next]_Carried!vars
    BY <1>1, <1>7, CosignStep
  <1> QED BY <1>1, <1>2, <1>3, <1>4, <1>5, <1>6, <1>7 DEF Next

LEMMA Invariance == Spec => []Inv
  BY InvInit, Step, PTL DEF Spec

(* Values have their types, however they came here. *)
THEOREM TypeCorrect == Spec => []TypeOK
  <1>1. Inv => TypeOK
    BY DEF Inv, TypeOK, Hash, Algorithms, TextForms
  <1> QED BY <1>1, Invariance, PTL

(* Serialization implements Conveyance: nothing is added, reordered or exchanged. *)
THEOREM Implements == Spec => NothingAdded
  <1>1. Init => Carried!Init
    <2>1. Init => DOMAIN signed = {}
      BY DEF Init
    <2> QED BY <2>1 DEF Carried!Init
  <1> QED BY <1>1, Step, Invariance, PTL DEF Spec, NothingAdded, Carried!Spec

-----------------------------------------------------------------------------
(* A JWT of three segments, with what is carried, is parsed with each stated algorithm. *)
LEMMA AllParsed ==
  ASSUME NEW c, Carriable(c), isJWT(c.jwt), NEW kb
  PROVE  /\ Parsed(c.jwt, <<c.jwt[2]>>, c.disclosures, kb, "") =
              {[form |-> "memory", jwt |-> c.jwt, disclosures |-> c.disclosures, kb |-> kb, alg |-> alg] :
                 alg \in Stated(c.jwt)}
         /\ Stated(c.jwt) # {}
  <1> DEFINE payload == <<c.jwt[2]>>
  <1>1. Len(payload) = 1 /\ payload[1] = c.jwt[2]
    OBVIOUS
  <1> HIDE DEF payload
  <1>2. c.jwt[2] \in DOMAIN SdAlg /\ (c.disclosures # <<>> => Stated(c.jwt) \subseteq Supported)
    BY DEF Carriable, Readable
  <1>3. ResolveHashAlgorithm(payload, "") = Stated(c.jwt)
    BY <1>1, <1>2, AllAlgorithms DEF Stated
  <1>4. \A alg \in Stated(c.jwt) : DisclosuresParse(c.disclosures, alg)
    <2>1. \A i \in DOMAIN c.disclosures : c.disclosures[i] \in Disclosures /\ c.disclosures # <<>>
      BY ElementOfSeq, LenProperties DEF Carriable
    <2> QED BY <1>2, <2>1 DEF DisclosuresParse
  <1>5. Stated(c.jwt) # {}
    BY DEF Stated
  <1>6. {a \in ResolveHashAlgorithm(payload, "") : DisclosuresParse(c.disclosures, a)} = Stated(c.jwt)
    BY <1>3, <1>4
  <1> QED BY <1>5, <1>6 DEF Parsed, payload

(* What is parsed from the compact form. *)
LEMMA CompactParsed ==
  ASSUME NEW c, c.jwt \in String, c.disclosures \in Seq(String), c.kb \in String, NEW p
  PROVE  Parse(Serialize(c), p) =
           IF isJWT(c.jwt) /\ (c.kb = Empty \/ isJWT(c.kb))
             THEN Parsed(c.jwt, <<c.jwt[2]>>, c.disclosures, c.kb, p) ELSE {}
  <1> DEFINE parts == <<c.jwt>> \o c.disclosures \o <<c.kb>>
  <1>1. /\ Len(parts) >= 2 /\ parts[1] = c.jwt /\ parts[Len(parts)] = c.kb
        /\ SubSeq(parts, 2, Len(parts) - 1) = c.disclosures
    BY CompactParts
  <1>2. Serialize(c).parts = parts
    BY DEF Serialize
  <1> HIDE DEF parts
  <1> QED BY <1>1, <1>2 DEF Parse

(* A key binding JWT made on the way is still good when a verifier reads it. *)
THEOREM KeyBindingStays == Spec => []StaysBound
  <1>1. Inv => StaysBound
    <2>1. SUFFICES ASSUME Inv, NEW c \in Content(artifact), c.kb \in DOMAIN signed, isJWT(c.jwt)
                   PROVE  \E v \in Parse(Serialize(c), "") :
                            /\ HashSDJWT(v).parts = signed[c.kb].parts
                            /\ HashSDJWT(v).alg = signed[c.kb].alg \/ {signed[c.kb].alg} # Stated(c.jwt)
      BY DEF StaysBound
    <2>2. /\ Carriable(c) /\ signed[c.kb].parts = <<c.jwt>> \o c.disclosures \o <<Empty>>
          /\ signed[c.kb].alg # "" /\ isJWT(c.kb)
      <3>1. Bound(c, signed) /\ Hash(signed[c.kb]) /\ c.kb \in KBs
        BY <2>1 DEF Inv
      <3>2. isJWT(c.kb)
        BY <3>1, StringsTyped
      <3> QED BY <2>1, <3>1, <3>2 DEF Bound, Hash
    <2>3. Parse(Serialize(c), "") = Parsed(c.jwt, <<c.jwt[2]>>, c.disclosures, c.kb, "")
      BY <2>1, <2>2, CompactParsed, DisclosuresAreStrings DEF Carriable
    <2>4. PICK alg \in Stated(c.jwt) : TRUE
      BY <2>1, <2>2, AllParsed
    <2> DEFINE v == [form |-> "memory", jwt |-> c.jwt, disclosures |-> c.disclosures, kb |-> c.kb, alg |-> alg]
    <2>5. v \in Parse(Serialize(c), "")
      <3>1. Parsed(c.jwt, <<c.jwt[2]>>, c.disclosures, c.kb, "") =
              {[form |-> "memory", jwt |-> c.jwt, disclosures |-> c.disclosures, kb |-> c.kb, alg |-> a] :
                 a \in Stated(c.jwt)}
        BY <2>1, <2>2, AllParsed
      <3>2. v \in {[form |-> "memory", jwt |-> c.jwt, disclosures |-> c.disclosures, kb |-> c.kb, alg |-> a] :
                     a \in Stated(c.jwt)}
        BY <2>4
      <3> HIDE DEF v
      <3> QED BY <2>3, <3>1, <3>2
    <2>6. /\ HashSDJWT(v).parts = <<c.jwt>> \o c.disclosures \o <<Empty>>
          /\ HashSDJWT(v).alg = IF alg = "" THEN DefaultHashAlgorithm ELSE alg
      BY DEF HashSDJWT, Serialize
    <2>7. HashSDJWT(v).alg = signed[c.kb].alg \/ {signed[c.kb].alg} # Stated(c.jwt)
      BY <2>2, <2>4, <2>6
    <2> HIDE DEF v
    <2> QED BY <2>2, <2>5, <2>6, <2>7
  <1> QED BY <1>1, Invariance, PTL

(* The JSON that an SD-JWT is written as is parsed as its parts. *)
LEMMA JSONParsed ==
  ASSUME NEW v, v.jwt \in String, isJWT(v.jwt), NEW p, NEW t \in {ToFlattenJSON(v), ToGeneralJSON(v)}
  PROVE  Read(t, p) = Parsed(v.jwt, <<v.jwt[2]>>, v.disclosures, v.kb, p)
  <1> DEFINE header == buildJSONHeader(v.disclosures, v.kb)
             payload == <<v.jwt[2]>>
  <1>1. /\ HeaderDisclosures(header) = v.disclosures /\ HeaderKB(header) = v.kb
        /\ <<v.jwt[1]>> \o payload \o <<v.jwt[3]>> = v.jwt
    BY HeaderRead, PartsOfJWT
  <1> HIDE DEF header, payload
  <1>2. CASE t = ToFlattenJSON(v)
    <2>1. t = [form |-> "flattened", protected |-> <<v.jwt[1]>>, payload |-> payload,
               signature |-> <<v.jwt[3]>>, header |-> header]
      BY <1>2 DEF ToFlattenJSON, header, payload
    <2>2. Read(t, p) = FromFlattenJSON(t, p)
      BY <2>1 DEF Read
    <2> QED BY <1>1, <2>1, <2>2 DEF FromFlattenJSON, payload
  <1>3. CASE t = ToGeneralJSON(v)
    <2> DEFINE first == [protected |-> <<v.jwt[1]>>, signature |-> <<v.jwt[3]>>, header |-> header]
    <2>1. t = [form |-> "general", payload |-> payload, signatures |-> <<first>>]
      BY <1>3 DEF ToGeneralJSON, header, payload
    <2>2. first.protected = <<v.jwt[1]>> /\ first.signature = <<v.jwt[3]>> /\ first.header = header
      OBVIOUS
    <2> HIDE DEF first
    <2>3. /\ t.form = "general" /\ t.payload = payload /\ t.signatures = <<first>>
          /\ t.signatures[1] = first /\ Len(t.signatures) = 1 /\ t.signatures # <<>>
      BY <2>1
    <2>4. HeadersValid(t)
      BY <2>3 DEF HeadersValid
    <2>5. Read(t, p) = FromGeneralJSON(t, p)
      BY <2>3 DEF Read
    <2> QED BY <1>1, <2>2, <2>3, <2>4, <2>5 DEF FromGeneralJSON, payload
  <1> QED BY <1>2, <1>3

(* Whatever is in memory is read back from all its forms as it is. *)
THEOREM FormsReadBack == Spec => []ReadsBack
  <1>1. Inv => ReadsBack
    <2>1. SUFFICES ASSUME Inv, artifact.form = "memory", isJWT(artifact.jwt)
                   PROVE  ReadsBack
      BY DEF ReadsBack
    <2> DEFINE same == {[artifact EXCEPT !.alg = alg] : alg \in Stated(artifact.jwt)}
               compact == Serialize(artifact)
    <2>2. artifact \in SDJWT /\ Carriable(artifact)
      BY <2>1, InMemory
    <2>3. /\ artifact.jwt \in String /\ artifact.disclosures \in Seq(String) /\ artifact.kb \in String
      BY <2>2, DisclosuresAreStrings DEF Carriable
    <2>4. Parsed(artifact.jwt, <<artifact.jwt[2]>>, artifact.disclosures, artifact.kb, "") = same
      <3> DEFINE stated(alg) == [artifact EXCEPT !.alg = alg]
                 parsed(alg) == [form |-> "memory", jwt |-> artifact.jwt,
                                 disclosures |-> artifact.disclosures, kb |-> artifact.kb, alg |-> alg]
      <3>1. \A alg : stated(alg) = parsed(alg)
        BY <2>2 DEF SDJWT
      <3>2. Parsed(artifact.jwt, <<artifact.jwt[2]>>, artifact.disclosures, artifact.kb, "") =
              {[form |-> "memory", jwt |-> artifact.jwt, disclosures |-> artifact.disclosures,
                kb |-> artifact.kb, alg |-> alg] : alg \in Stated(artifact.jwt)}
        BY <2>1, <2>2, AllParsed
      <3>3. same = {parsed(alg) : alg \in Stated(artifact.jwt)}
        <4>1. same = {stated(alg) : alg \in Stated(artifact.jwt)}
          OBVIOUS
        <4> HIDE DEF stated, parsed, same
        <4> QED BY <3>1, <4>1
      <3> QED BY <3>2, <3>3
    <2>5. \A v \in same : v.kb = artifact.kb
      BY <2>2 DEF SDJWT
    <2> HIDE DEF same
    <2>6. \A t \in Written(artifact) \ {compact} : Read(t, "") = same
      BY <2>1, <2>3, <2>4, JSONParsed DEF Written
    <2>7. Parse(compact, "") = IF artifact.kb = Empty \/ isJWT(artifact.kb) THEN same ELSE {}
      BY <2>1, <2>3, <2>4, CompactParsed
    <2> HIDE DEF compact
    <2>8. /\ artifact.kb = Empty => ParseSDJWT(compact, "") = same /\ ParseSDJWTWithKB(compact, "") = {}
          /\ isJWT(artifact.kb) => ParseSDJWT(compact, "") = {} /\ ParseSDJWTWithKB(compact, "") = same
      BY <2>5, <2>7, EmptyIsString DEF ParseSDJWT, ParseSDJWTWithKB
    <2> QED BY <2>6, <2>8 DEF ReadsBack, same, compact
  <1> QED BY <1>1, Invariance, PTL

-----------------------------------------------------------------------------
(* Whatever algorithms callers provide, at most one value is parsed. *)
LEMMA ParsedOnce ==
  ASSUME NEW jwt, NEW payload, NEW ds, NEW kb, NEW p, NEW q,
         NEW v \in Parsed(jwt, payload, ds, kb, p), NEW w \in Parsed(jwt, payload, ds, kb, q)
  PROVE  v = w
  <1> DEFINE stated == IF SdAlg[payload[1]] = {} THEN {DefaultHashAlgorithm} ELSE SdAlg[payload[1]]
  <1>1. /\ v = [form |-> "memory", jwt |-> jwt, disclosures |-> ds, kb |-> kb, alg |-> v.alg]
        /\ v.alg \in ResolveHashAlgorithm(payload, p)
    BY ParsedIs
  <1>2. /\ w = [form |-> "memory", jwt |-> jwt, disclosures |-> ds, kb |-> kb, alg |-> w.alg]
        /\ w.alg \in ResolveHashAlgorithm(payload, q)
    BY ParsedIs
  <1>3. payload[1] \in DOMAIN SdAlg /\ v.alg \in stated /\ w.alg \in stated
    BY <1>1, <1>2, Resolved
  <1> HIDE DEF stated
  <1>4. v.alg = w.alg
    BY <1>3, OneAlgorithm DEF stated, AtMostOne
  <1> QED BY <1>1, <1>2, <1>4

LEMMA ReadOnce ==
  ASSUME NEW t \in TextForms, NEW p, NEW q, NEW v \in Read(t, p), NEW w \in Read(t, q)
  PROVE  v = w
  <1>1. CASE t.form = "compact"
    <2> DEFINE jwt == t.parts[1]
               payload == <<jwt[2]>>
               ds == SubSeq(t.parts, 2, Len(t.parts) - 1)
               last == t.parts[Len(t.parts)]
    <2>1. v \in Parsed(jwt, payload, ds, last, p) /\ w \in Parsed(jwt, payload, ds, last, q)
      BY <1>1 DEF Read, Parse
    <2> HIDE DEF jwt, payload, ds, last
    <2> QED BY <2>1, ParsedOnce
  <1>2. CASE t.form = "flattened"
    <2> DEFINE jwt == t.protected \o t.payload \o t.signature
               payload == t.payload
               ds == HeaderDisclosures(t.header)
               kb == HeaderKB(t.header)
    <2>1. v \in Parsed(jwt, payload, ds, kb, p) /\ w \in Parsed(jwt, payload, ds, kb, q)
      BY <1>2 DEF Read, FromFlattenJSON
    <2> HIDE DEF jwt, payload, ds, kb
    <2> QED BY <2>1, ParsedOnce
  <1>3. CASE t.form = "general"
    <2> DEFINE first == t.signatures[1]
               jwt == first.protected \o t.payload \o first.signature
               payload == t.payload
               ds == HeaderDisclosures(first.header)
               kb == HeaderKB(first.header)
    <2>1. v \in Parsed(jwt, payload, ds, kb, p) /\ w \in Parsed(jwt, payload, ds, kb, q)
      BY <1>3 DEF Read, FromGeneralJSON
    <2> HIDE DEF jwt, payload, ds, kb
    <2> QED BY <2>1, ParsedOnce
  <1> QED BY <1>1, <1>2, <1>3 DEF TextForms, Compact, FlattenJSON, GeneralJSON

(* And what it is written as is read as the same. *)
LEMMA WrittenOnce ==
  ASSUME NEW v \in SDJWT, Carriable(v), isJWT(v.jwt) => v.alg \in Stated(v.jwt),
         NEW t \in Written(v), NEW q, NEW w \in Read(t, q)
  PROVE  v = w
  <1> DEFINE payload == <<v.jwt[2]>>
  <1>1. v.jwt \in String /\ v.disclosures \in Seq(String) /\ v.kb \in String
    BY DisclosuresAreStrings DEF Carriable
  <1>2. isJWT(v.jwt) /\ w \in Parsed(v.jwt, payload, v.disclosures, v.kb, q)
    <2>1. CASE t = Serialize(v)
      <3>1. Read(t, q) = Parse(Serialize(v), q)
        BY <2>1 DEF Read, Serialize
      <3> QED BY <1>1, <3>1, CompactParsed
    <2>2. CASE isJWT(v.jwt) /\ t \in {ToFlattenJSON(v), ToGeneralJSON(v)}
      BY <1>1, <2>2, JSONParsed
    <2> QED BY <2>1, <2>2 DEF Written
  <1>3. payload[1] = v.jwt[2]
    OBVIOUS
  <1> HIDE DEF payload
  <1>4. /\ w = [form |-> "memory", jwt |-> v.jwt, disclosures |-> v.disclosures, kb |-> v.kb, alg |-> w.alg]
        /\ w.alg \in ResolveHashAlgorithm(payload, q)
    BY <1>2, ParsedIs
  <1>5. v.jwt[2] \in DOMAIN SdAlg /\ w.alg \in Stated(v.jwt)
    BY <1>3, <1>4, Resolved DEF Stated
  <1>6. v.alg = w.alg
    BY <1>2, <1>5, OneAlgorithm DEF Stated, AtMostOne
  <1>7. v = [form |-> "memory", jwt |-> v.jwt, disclosures |-> v.disclosures, kb |-> v.kb, alg |-> v.alg]
    BY DEF SDJWT
  <1> QED BY <1>4, <1>6, <1>7

(* Readers agree, whatever algorithms they ask for. *)
THEOREM AllReadersAgree == Spec => []ReadersAgree
  <1>1. Inv => ReadersAgree
    <2>1. SUFFICES ASSUME Inv, artifact.form # "memory", NEW p \in Provided, NEW q \in Provided,
                          NEW v \in Read(artifact, p)
                   PROVE  /\ Read(artifact, q) \subseteq {v}
                          /\ \A t \in Written(v) : Read(t, q) \subseteq {v}
      BY DEF ReadersAgree
    <2>2. artifact \in TextForms
      BY <2>1, Forms DEF Inv
    <2>3. v \in SDJWT /\ Carriable(v) /\ (isJWT(v.jwt) => v.alg \in Stated(v.jwt))
      BY <2>1, <2>2, ReadContent
    <2>4. Read(artifact, q) \subseteq {v}
      BY <2>1, <2>2, ReadOnce
    <2>5. \A t \in Written(v) : Read(t, q) \subseteq {v}
      BY <2>1, <2>3, WrittenOnce
    <2> QED BY <2>4, <2>5
  <1> QED BY <1>1, Invariance, PTL
=============================================================================
