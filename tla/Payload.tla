------------------------------ MODULE Payload ------------------------------
(***************************************************************************)
(* The data an SD-JWT is made of, and what RFC 9901 processing is supposed *)
(* to make of it.                                                          *)
(*                                                                         *)
(* A JSON document is a tree of nodes.  An object node has plain           *)
(* properties and an "_sd" list of digests; an array node has items, some  *)
(* of which are placeholders {"...": digest}.  A disclosure reveals the    *)
(* value node behind a digest.  Salted hashes are collision free, so a     *)
(* digest is an atom that identifies a disclosure (or none: a decoy, or a  *)
(* disclosure that was not presented).                                     *)
(***************************************************************************)
EXTENDS FiniteSets, SequencesExt, Lists

CONSTANTS Node,        \* JSON values of a document, by identity
          Root,        \* the payload object of the issuer-signed JWT
          Name,        \* claim names
          Digest,      \* base64url digests
          Alg,         \* hash algorithm names, supported or not
          Supported,   \* hash.go: SHA-256/384/512
          DefaultAlg   \* "sha-256"

ASSUME RootIsNode == Root \in Node
ASSUME NodesFinite == IsFiniteSet(Node)
ASSUME DefaultIsSupported == DefaultAlg \in Supported /\ Supported \subseteq Alg

(***************************************************************************)
(* "ph" is an object with the key "...": a placeholder when it is an array *)
(* item, an error anywhere else.                                           *)
(***************************************************************************)
Kind == {"prim", "obj", "arr", "ph"}

Partial(S, T) == UNION {[D -> T] : D \in SUBSET S}

(* isArray: a two-element disclosure (no claim name). *)
Disclosure == [digest : Digest, isArray : BOOLEAN, name : Name, value : Node]

(***************************************************************************)
(* malformed[n] stands for the structural errors that processing reports   *)
(* when it gets to n: for an object, a nested "_sd_alg" or an "_sd" that   *)
(* is not a list of strings; for a placeholder, further keys or a digest   *)
(* that is not a string.  sdAlg is the payload's "_sd_alg" ("" if absent,  *)
(* "bad" if not a string); provided is the caller's hash algorithm.  The   *)
(* payload of a JWT is a JSON object.                                      *)
(***************************************************************************)
Parts ==
  [kind      : {k \in [Node -> Kind] : k[Root] \in {"obj", "ph"}},
   props     : [Node -> Partial(Name, Node)],
   sd        : [Node -> Seq(Digest)],
   items     : [Node -> Seq(Node)],
   hides     : [Node -> Digest],
   malformed : [Node -> BOOLEAN],
   disclosures : Seq(Disclosure),
   sdAlg     : Alg \cup {"", "bad"},
   provided  : Alg \cup {""}]

-----------------------------------------------------------------------------
(* Operators of the code that look at a whole document. *)

NoAlg == "none"

(* resolveHashAlgorithm: the payload wins, but must agree with the caller. *)
ResolveHashAlgorithm(doc) ==
  LET stated == IF doc.sdAlg = "" THEN DefaultAlg ELSE doc.sdAlg
  IN  IF stated \in Alg /\ doc.provided \in {"", stated} THEN stated ELSE NoAlg

(* The digests for which a disclosure was presented: keys of disclosureMap. *)
Presented(doc) == {doc.disclosures[i].digest : i \in DOMAIN doc.disclosures}

(* disclosureMap[g] *)
DisclosureOf(doc, g) ==
  doc.disclosures[CHOOSE i \in DOMAIN doc.disclosures : doc.disclosures[i].digest = g]

DistinctDisclosures(doc) ==
  \A i, j \in DOMAIN doc.disclosures :
     doc.disclosures[i].digest = doc.disclosures[j].digest => i = j

ReservedNames == {"_sd", "..."}

-----------------------------------------------------------------------------
(* The reference: what a document means, without any order of evaluation.   *)

(* Occurrences of digests in node n, each <<n, position>>. *)
Embeds(doc, n) ==
  CASE doc.kind[n] = "obj" -> DOMAIN doc.sd[n]
    [] doc.kind[n] = "arr" -> {i \in DOMAIN doc.items[n] : doc.kind[doc.items[n][i]] = "ph"}
    [] OTHER -> {}

EmbeddedAt(doc, n, i) ==
  IF doc.kind[n] = "obj" THEN doc.sd[n][i] ELSE doc.hides[doc.items[n][i]]

(* The keys or positions of what n contains in clear. *)
PlainAt(doc, n) ==
  CASE doc.kind[n] = "obj" -> DOMAIN doc.props[n]
    [] doc.kind[n] = "arr" -> DOMAIN doc.items[n] \ Embeds(doc, n)
    [] OTHER -> {}

ChildAt(doc, n, x) == IF doc.kind[n] = "obj" THEN doc.props[n][x] ELSE doc.items[n][x]

PlainChildren(doc, n) == {ChildAt(doc, n, x) : x \in PlainAt(doc, n)}

DisclosedValues(doc) == {DisclosureOf(doc, g).value : g \in Presented(doc)}

DisclosedChildren(doc, n) ==
  {DisclosureOf(doc, g).value :
     g \in {EmbeddedAt(doc, n, i) : i \in Embeds(doc, n)} \cap Presented(doc)}

(***************************************************************************)
(* The payload and each disclosure are JSON texts of their own, and nodes  *)
(* are values by identity: no value is in two places.                      *)
(***************************************************************************)
IsTree(doc) ==
  /\ \A m, n \in Node : \A x \in PlainAt(doc, m), y \in PlainAt(doc, n) :
        ChildAt(doc, m, x) = ChildAt(doc, n, y) => m = n /\ x = y
  /\ \A g, h \in Presented(doc) :
        DisclosureOf(doc, g).value = DisclosureOf(doc, h).value => g = h
  /\ \A n \in Node : PlainChildren(doc, n) \cap ({Root} \cup DisclosedValues(doc)) = {}
  /\ Root \notin DisclosedValues(doc)

Document == {doc \in Parts : IsTree(doc)}

(* The nodes reachable through plain content and presented disclosures. *)
Revealed(doc) ==
  LET within[k \in 0..Cardinality(Node)] ==
        IF k = 0
          THEN {Root}
          ELSE UNION {{n} \cup PlainChildren(doc, n) \cup DisclosedChildren(doc, n) :
                        n \in within[k - 1]}
  IN  within[Cardinality(Node)]

(* Disclosure of g is legal where node n embeds it. *)
LegalIn(doc, n, g) ==
  LET d == DisclosureOf(doc, g)
  IN  IF doc.kind[n] = "arr"
        THEN d.isArray
        ELSE ~d.isArray /\ d.name \notin ReservedNames /\ d.name \notin DOMAIN doc.props[n]

(***************************************************************************)
(* RFC 9901, 7.1: the document is valid if its algorithm is known, its     *)
(* revealed part is well formed and repeats no digest, each disclosure     *)
(* fits where it is embedded and clashes with no other name, and every     *)
(* presented disclosure is referenced from the revealed part.              *)
(***************************************************************************)
ValidDocument(doc) ==
  LET R == Revealed(doc)
      Sites == UNION {{<<n, i>> : i \in Embeds(doc, n)} : n \in R}
      At(s) == EmbeddedAt(doc, s[1], s[2])
      Opened == {s \in Sites : At(s) \in Presented(doc)}
  IN  /\ ResolveHashAlgorithm(doc) \in Supported
      /\ DistinctDisclosures(doc)
      /\ \A n \in R : doc.kind[n] # "ph" /\ (doc.kind[n] = "obj" => ~doc.malformed[n])
      /\ \A s \in Sites : doc.kind[s[1]] = "arr" => ~doc.malformed[doc.items[s[1]][s[2]]]
      /\ \A s, t \in Sites : At(s) = At(t) => s = t
      /\ \A s \in Opened : LegalIn(doc, s[1], At(s))
      /\ \A s, t \in Opened :
            /\ s[1] = t[1] /\ doc.kind[s[1]] = "obj"
            /\ DisclosureOf(doc, At(s)).name = DisclosureOf(doc, At(t)).name
            => s = t
      /\ \A g \in Presented(doc) : \E s \in Sites : At(s) = g

(* The claims of object n: the signed ones and those its digests disclose. *)
ExpectedClaims(doc, n) ==
  LET opened == {i \in DOMAIN doc.sd[n] : doc.sd[n][i] \in Presented(doc)}
      D(i) == DisclosureOf(doc, doc.sd[n][i])
  IN  [k \in DOMAIN doc.props[n] \cup {D(i).name : i \in opened} |->
         IF k \in DOMAIN doc.props[n]
           THEN doc.props[n][k]
           ELSE D(CHOOSE i \in opened : D(i).name = k).value]

(* The items of array n up to each position: a placeholder is replaced by  *)
(* what it hides, and dropped when no disclosure opens it.                 *)
ItemsUpTo(doc, n) ==
  LET upTo[i \in 0..Len(doc.items[n])] ==
        IF i = 0
          THEN <<>>
          ELSE LET m == doc.items[n][i]
                   g == doc.hides[m]
               IN  IF doc.kind[m] # "ph" THEN Append(upTo[i - 1], m)
                   ELSE IF g \in Presented(doc)
                          THEN Append(upTo[i - 1], DisclosureOf(doc, g).value)
                          ELSE upTo[i - 1]
  IN  upTo

ExpectedItems(doc, n) == ItemsUpTo(doc, n)[Len(doc.items[n])]

Expected(doc, n) ==
  [claims |-> IF doc.kind[n] = "obj" THEN ExpectedClaims(doc, n) ELSE <<>>,
   items  |-> IF doc.kind[n] = "arr" THEN ExpectedItems(doc, n) ELSE <<>>]
=============================================================================
