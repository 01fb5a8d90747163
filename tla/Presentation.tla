---------------------------- MODULE Presentation ----------------------------
(***************************************************************************)
(* The life of one SD-JWT: issuer.IssueWithFrame packs claims, a holder is *)
(* made from the result (ParseAndCreateHolder from its text, NewHolder     *)
(* from the value in memory), SelectWithFrame walks the payload for paths  *)
(* and selects disclosures, and verifier.Verify processes what was         *)
(* presented and looks for the required claims.                            *)
(*                                                                         *)
(* A path is a sequence of words, as strings.Split(path, ".") gives it: a  *)
(* claim name with a dot in it is several words.  A word is a sequence     *)
(* too, so that the holder's "a.0" is <<<<"a">>, <<"0">>>> and the         *)
(* verifier's "a[0]" is <<<<"a", "0">>>>.                                  *)
(*                                                                         *)
(* Payload processing is taken at its specification, which ProcessPayload  *)
(* implements.  Salts are fresh, so a digest is the value it commits to.   *)
(* Signatures verify; signers, dates and audiences are in KeyBinding.      *)
(***************************************************************************)
EXTENDS Payload

CONSTANTS Value,     \* the values of the claims, and of the "cnf" claim
          Hole,      \* Hole[g] is the placeholder {"...": g}
          Words,     \* Words[k] is the claim name or index k split at its dots
          CnfValue,  \* {"jwk": holder's key}
          Requests,  \* presentation frames: the keys that lead to what each includes
          Required   \* required-claims frames, likewise

Decoy == Digest \ Value

ASSUME ValuesAreDigests ==
  Value \subseteq Digest /\ {Root, CnfValue} \subseteq Value /\ CnfValue # Root
ASSUME HolesAreNodes ==
  /\ DOMAIN Hole = Digest /\ \A g, h \in Digest : Hole[g] = Hole[h] => g = h
  /\ Node = Value \cup Range(Hole) /\ Value \cap Range(Hole) = {}
ASSUME CnfIsName == "cnf" \in Name
ASSUME NamesHaveWords == \A k \in Name : Words[k] \in Seq(Seq(STRING)) /\ Words[k] # <<>>

VARIABLES
  input,        \* the issuer's arguments: claims, disclosure frame, options
  stage,        \* "draft", "refused", "issued", "held", "selected", "verified"
  sdjwt,        \* the SD-JWT as it was issued
  inMemory,     \* the holder has the issuer's value, not a parsed one
  agenda,       \* what walkPayloadForKeys has yet to visit
  keyToDigest,  \* its result
  request,      \* the paths of the presentation frame
  presented,    \* the disclosures that are presented
  required,     \* the paths of the required-claims frame
  missing,      \* MissingRequired
  error         \* a step returned an error

vars == <<input, stage, sdjwt, inMemory, agenda, keyToDigest, request, presented,
          required, missing, error>>
verdict == <<required, missing>>

(* A nil presentation frame, and what it is flattened to. *)
Everything == {<<>>}

(* flattenPresentationFrame: keys of nested frames are joined with dots, so *)
(* a key with a dot in it is like a key in a nested frame.                  *)
flattenPresentationFrame(keys) ==
  {FlattenSeq([i \in DOMAIN key |-> Words[key[i]]]) : key \in keys}

(* Keys are not empty, so only a nil frame leads to the root. *)
ASSUME RequestsNamePaths ==
  \A keys \in Requests : keys # Everything => <<>> \notin flattenPresentationFrame(keys)

(* The verifier has a copy of the same function. *)
RequiredNames(keys) == flattenPresentationFrame(keys)

(* A nil frame requires nothing; strings.Split gives at least one word. *)
ASSUME RequiredAreWords ==
  \A keys \in Required : RequiredNames(keys) \subseteq Seq(Seq(STRING)) \ {<<>>}

(***************************************************************************)
(* frame.sd are the values whose name or index is in the "_sd" list of the *)
(* frame around them; the objects and arrays in frame.framed have one.     *)
(* order is how the hash values of this issuance sort.                     *)
(***************************************************************************)
Claims ==
  [kind : [Value -> {"prim", "obj", "arr"}], props : [Value -> Partial(Name, Value)],
   items : [Value -> Seq(Value)]]
Frame == [framed : SUBSET Value, sd : SUBSET Value, decoys : [Value -> SUBSET Decoy]]
Input ==
  [claims : Claims, frame : Frame, alg : Alg, holderKey : BOOLEAN, order : Seq(Digest)]

claims == input.claims
frame == input.frame

-----------------------------------------------------------------------------
(* issuer/frame.go *)

ClaimsAt(n) == IF n \in Value THEN claims.props[n] ELSE <<>>

(* Bug: a claim that is made disclosable is not removed. *)
PlainPropsAll(n) == ClaimsAt(n)

(* packObject's result, and the "cnf" claim that the option sets. *)
PlainProps(n) ==
  LET stay == {k \in DOMAIN ClaimsAt(n) : ClaimsAt(n)[k] \notin frame.sd}
      cnf == {k \in {"cnf"} : n = Root /\ input.holderKey}
  IN  [k \in stay \cup cnf |-> IF k \in cnf THEN CnfValue ELSE ClaimsAt(n)[k]]

(* The "_sd" list: what is disclosable and the decoys, sorted. *)
SDDigests(n) ==
  IF n \in frame.framed /\ claims.kind[n] = "obj"
    THEN Kept(input.order, (Range(claims.props[n]) \cap frame.sd) \cup frame.decoys[n])
    ELSE <<>>

(* Bug: decoys are put in front of the elements. *)
PackedItemsDecoysFirst(n) ==
  LET Packed(m) == IF m \in frame.sd THEN Hole[m] ELSE m
      decoys == SetToSeq(frame.decoys[n])
  IN  [i \in DOMAIN decoys |-> Hole[decoys[i]]]
        \o [i \in DOMAIN claims.items[n] |-> Packed(claims.items[n][i])]

(* packArray: placeholders in place, decoys at the end. *)
PackedItems(n) ==
  LET Packed(m) == IF m \in frame.sd THEN Hole[m] ELSE m
      decoys == SetToSeq(frame.decoys[n])
  IN  [i \in DOMAIN claims.items[n] |-> Packed(claims.items[n][i])]
        \o [i \in DOMAIN decoys |-> Hole[decoys[i]]]

(* NewDisclosure or NewArrayElementDisclosure, for value m. *)
Disclose(m) ==
  LET names == {k \in Name : \E n \in Value : k \in DOMAIN ClaimsAt(n) /\ ClaimsAt(n)[k] = m}
  IN  [digest |-> m, isArray |-> names = {}, value |-> m,
       name |-> CHOOSE k \in Name : names # {} => k \in names]

(* packClaims: the signed payload with all its disclosures. *)
Pack ==
  [kind      |-> [m \in Node |-> IF m \in Value THEN claims.kind[m] ELSE "ph"],
   props     |-> [m \in Node |-> PlainProps(m)],
   sd        |-> [m \in Node |-> IF m \in Value THEN SDDigests(m) ELSE <<>>],
   items     |-> [m \in Node |-> IF m \in Value /\ claims.kind[m] = "arr"
                                   THEN PackedItems(m) ELSE <<>>],
   hides     |-> [m \in Node |-> CHOOSE g \in Digest : m \in Range(Hole) => Hole[g] = m],
   malformed |-> [m \in Node |-> FALSE],
   disclosures |-> SetToSeq({Disclose(m) : m \in frame.sd}),
   sdAlg     |-> IF frame.sd = {} THEN "" ELSE input.alg,
   provided  |-> input.alg]

(* validateNoReservedKeys looks at the whole tree. *)
CanIssue ==
  /\ input.alg \in Supported
  /\ \A n \in Value : DOMAIN ClaimsAt(n) \cap {"_sd", "_sd_alg", "..."} = {}

IssueWithFrame ==
  /\ stage = "draft"
  /\ IF CanIssue THEN stage' = "issued" /\ sdjwt' = Pack ELSE stage' = "refused" /\ UNCHANGED sdjwt
  /\ UNCHANGED <<input, inMemory, agenda, keyToDigest, request, presented, verdict, error>>

-----------------------------------------------------------------------------
(* holder/holder.go, holder/present.go *)

(***************************************************************************)
(* packArray makes a placeholder a map[string]string.  In the signed JWT   *)
(* it is decoded again, but inside the value of a disclosure in memory it  *)
(* is no JSON object to processArray and walkPayloadForKeys.               *)
(***************************************************************************)
AsTyped(doc) ==
  LET signed == Revealed([doc EXCEPT !.disclosures = <<>>])
      decoded == UNION {Range(doc.items[n]) : n \in signed}
  IN  [doc EXCEPT !.kind = [m \in Node |-> IF doc.kind[m] = "ph" /\ m \notin decoded
                                             THEN "prim" ELSE doc.kind[m]]]

(* Parse and HashAlgorithm: the algorithm comes from the payload. *)
Parsed(doc) == [doc EXCEPT !.provided = IF doc.sdAlg = "" THEN DefaultAlg ELSE doc.sdAlg]

(* The SD-JWT as the holder's functions see it. *)
Held == IF inMemory THEN AsTyped(sdjwt) ELSE Parsed(sdjwt)

Entry(path, node, via) == [path |-> path, node |-> node, via |-> via]
NoVia == "none"

ASSUME MarkersAreFresh == NoVia \notin Digest /\ "[]" \notin Name

(* The loop over the digests of "_sd" that have a disclosure for an object. *)
DigestEntry(doc, e, g) ==
  LET d == DisclosureOf(doc, g)
  IN  IF g \in Presented(doc) /\ ~d.isArray
        THEN {Entry(e.path \o Words[d.name], d.value, g)} ELSE {}

KeyEntries(doc, e) ==
  {Entry(e.path \o Words[k], doc.props[e.node][k], NoVia) : k \in DOMAIN doc.props[e.node]}

(* Bug: the path leads to the placeholder and not to its digest. *)
ItemEntryAsIs(doc, e, i, path) ==
  {Entry(path, doc.items[e.node][i], IF doc.kind[doc.items[e.node][i]] = "ph"
                                       THEN doc.items[e.node][i] ELSE NoVia)}

(* Element i of an array, where path is the element's path. *)
ItemEntry(doc, e, i, path) ==
  LET m == doc.items[e.node][i]
  IN  IF doc.kind[m] # "ph" THEN {Entry(path, m, NoVia)}
      ELSE IF doc.hides[m] \in Presented(doc)
             THEN {Entry(path, DisclosureOf(doc, doc.hides[m]).value, doc.hides[m])}
             ELSE {}

Index(i) == ToString(i - 1)
ASSUME IndexesApart == \A i, j \in 1..Cardinality(Node) : Index(i) = Index(j) => i = j
HolderPath(path, i) == Append(path, <<Index(i)>>)

(* What walkPayloadForKeys visits below e: digests in order, then any key. *)
Below(doc, e) ==
  CASE doc.kind[e.node] = "obj" ->
         Append([i \in DOMAIN doc.sd[e.node] |-> DigestEntry(doc, e, doc.sd[e.node][i])],
                KeyEntries(doc, e))
    [] doc.kind[e.node] = "arr" ->
         [i \in DOMAIN doc.items[e.node] |-> ItemEntry(doc, e, i, HolderPath(e.path, i))]
    [] OTHER -> <<>>

CreateHolder(fromMemory) ==
  /\ stage = "issued" /\ stage' = "held"
  /\ inMemory' = fromMemory
  /\ agenda' = <<{Entry(<<>>, Root, NoVia)}>>
  /\ UNCHANGED <<input, sdjwt, keyToDigest, request, presented, verdict>>

NewHolder == CreateHolder(TRUE) /\ UNCHANGED error

(* ParseAndCreateHolder processes the payload it parsed. *)
ParseAndCreateHolder == CreateHolder(FALSE) /\ error' = ~ValidDocument(Parsed(sdjwt))

(* One call of walkPayloadForKeys; the last digest of a path stays. *)
WalkPayloadForKeys ==
  /\ stage = "held" /\ ~error /\ agenda # <<>>
  /\ \E e \in Head(agenda) :
       /\ keyToDigest' = IF e.via = NoVia
                           THEN keyToDigest
                           ELSE [k \in DOMAIN keyToDigest \cup {e.path} |->
                                   IF k = e.path THEN e.via ELSE keyToDigest[k]]
       /\ LET next == Below(Held, e) \o <<Head(agenda) \ {e}>> \o Tail(agenda)
          IN  agenda' = Kept(next, Range(next) \ {{}})
  /\ UNCHANGED <<input, stage, sdjwt, inMemory, request, presented, verdict, error>>

(* Bug: parents are not selected. *)
NoParentDigests(key) == {}

(* includeParentDigests *)
ParentDigests(key) ==
  {keyToDigest[k] : k \in {k \in DOMAIN keyToDigest : IsStrictPrefix(k, key)}}

SelectedBy(keys) ==
  LET known == keys \cap DOMAIN keyToDigest
  IN  {keyToDigest[k] : k \in known} \cup UNION {ParentDigests(k) : k \in known}

(* A nil frame gives the holder's SD-JWT, another a copy with a selection. *)
SelectWithFrame(keys) ==
  /\ stage = "held" /\ ~error /\ agenda = <<>> /\ stage' = "selected"
  /\ request' = flattenPresentationFrame(keys)
  /\ LET selected == IF keys = Everything THEN Digest ELSE SelectedBy(request')
     IN  presented' = Kept(sdjwt.disclosures, {d \in Disclosure : d.digest \in selected})
  /\ UNCHANGED <<input, sdjwt, inMemory, agenda, keyToDigest, verdict, error>>

-----------------------------------------------------------------------------
(* verifier/verifier.go *)

(* The SD-JWT that the verifier parses. *)
Received == Parsed([sdjwt EXCEPT !.disclosures = presented])

(* "a[0]": the index, among placeholders too, is part of the last word. *)
VerifierPath(path, i) == Append(Front(path), Append(Last(path), Index(i)))

(* DisclosedClaims *)
DisclosedClaims(doc) ==
  LET Under(e) ==
        CASE doc.kind[e.node] = "obj" ->
               KeyEntries(doc, e) \cup UNION {DigestEntry(doc, e, g) : g \in Range(doc.sd[e.node])}
          [] doc.kind[e.node] = "arr" ->
               UNION {ItemEntry(doc, e, i, VerifierPath(e.path, i)) : i \in DOMAIN doc.items[e.node]}
          [] OTHER -> {}
      within[k \in 0..Cardinality(Node)] ==
        IF k = 0
          THEN {Entry(<<>>, Root, NoVia)}
          ELSE UNION {{e} \cup Under(e) : e \in within[k - 1]}
  IN  {e.path : e \in {e \in within[Cardinality(Node)] : e.via # NoVia}}

(* claimExistsInPayload: from object to object by undotted names. *)
ClaimExists(doc, path) ==
  LET Members(m, w) ==
        {Expected(doc, m).claims[k] : k \in {k \in DOMAIN Expected(doc, m).claims : Words[k] = <<w>>}}
      reached[i \in 0..Len(path)] ==
        IF i = 0 THEN {Root} ELSE UNION {Members(m, path[i]) : m \in reached[i - 1]}
  IN  path # <<>> /\ reached[Len(path)] # {}

(* Bug: claims that are signed in clear inside an object are not looked for. *)
FoundShallow(doc, r) ==
  \/ \E p \in DisclosedClaims(doc) : IsPrefix(r, p)
  \/ \E k \in DOMAIN Expected(doc, Root).claims : Words[k] = r

(* One required claim of validateRequiredClaims. *)
Found(doc, r) ==
  \/ \E p \in DisclosedClaims(doc) : IsPrefix(r, p)
  \/ \E k \in DOMAIN Expected(doc, Root).claims : Words[k] = r
  \/ ClaimExists(doc, r)

Verify(keys) ==
  /\ stage = "selected" /\ stage' = "verified"
  /\ error' = ~ValidDocument(Received)
  /\ required' = RequiredNames(keys)
  /\ missing' = IF error' THEN {} ELSE {r \in required' : ~Found(Received, r)}
  /\ UNCHANGED <<input, sdjwt, inMemory, agenda, keyToDigest, request, presented>>

-----------------------------------------------------------------------------
(* What the parties mean, from the claims alone. *)

(* The tree that the issuer signs: the claims and the holder's key. *)
Tree ==
  [n \in Value |->
     LET cnf == {k \in {"cnf"} : n = Root /\ input.holderKey}
         props == claims.props[n]
     IN  [claims |-> [k \in DOMAIN props \cup cnf |-> IF k \in cnf THEN CnfValue ELSE props[k]],
          items  |-> claims.items[n]]]

(* Every value of the tree with its path, elements by their index. *)
Places ==
  LET Under(p) ==
        {[path |-> p.path \o Words[k], node |-> Tree[p.node].claims[k]] :
           k \in DOMAIN Tree[p.node].claims}
        \cup {[path |-> HolderPath(p.path, i), node |-> Tree[p.node].items[i]] :
           i \in DOMAIN Tree[p.node].items}
      within[k \in 0..Cardinality(Value)] ==
        IF k = 0
          THEN {[path |-> <<>>, node |-> Root]}
          ELSE UNION {{p} \cup Under(p) : p \in within[k - 1]}
  IN  within[Cardinality(Value)]

At(paths) == {p.node : p \in {p \in Places : p.path \in paths}}

(* The disclosable values that a request names. *)
AskedFor == IF request = Everything THEN frame.sd ELSE frame.sd \cap At(request)

View == [n \in Revealed(Received) |-> Expected(Received, n)]

(***************************************************************************)
(* Presentation implements SelectiveDisclosure: a rejection of what the    *)
(* library itself issued is an abstract step that does not exist.          *)
(***************************************************************************)
AbstractStage ==
  CASE stage = "held" -> IF error THEN "refused" ELSE "issued"
    [] stage = "selected" -> "asked"
    [] stage = "verified" -> "shown"
    [] OTHER -> stage

Chosen == stage \in {"selected", "verified"}

Promise == INSTANCE SelectiveDisclosure
             WITH stage <- AbstractStage, tree <- Tree, secret <- frame.sd,
                  asked <- IF Chosen THEN AskedFor ELSE {},
                  view <- IF stage = "verified" /\ ~error THEN View ELSE [n \in {} |-> n]

-----------------------------------------------------------------------------
(* What the issuer is given. *)

(* The claim names of an object, or the positions of an array. *)
Spots(n) == IF claims.kind[n] = "obj" THEN DOMAIN claims.props[n] ELSE DOMAIN claims.items[n]
ValueAt(n, x) == IF claims.kind[n] = "obj" THEN claims.props[n][x] ELSE claims.items[n][x]
Members(n) == {ValueAt(n, x) : x \in Spots(n)}

(***************************************************************************)
(* The claims are a JSON object, a tree of values.  "cnf" is not claimed   *)
(* where the option sets it, which would overwrite it after packing.       *)
(***************************************************************************)
ClaimsOK ==
  /\ claims.kind[Root] = "obj"
  /\ \A n \in Value : /\ claims.kind[n] # "obj" => claims.props[n] = <<>>
                      /\ claims.kind[n] # "arr" => claims.items[n] = <<>>
  /\ \A m, n \in Value : \A x \in Spots(m), y \in Spots(n) :
        ValueAt(m, x) = ValueAt(n, y) => m = n /\ x = y
  /\ \A n \in Value : Members(n) \cap {Root, CnfValue} = {}
  /\ input.holderKey => "cnf" \notin DOMAIN claims.props[Root]

(* Frames are for values in the claims, each with decoys of its own. *)
FrameOK ==
  /\ frame.framed \subseteq Promise!Below(Tree, Root, {}) \ {CnfValue}
  /\ frame.sd \subseteq UNION {Members(n) : n \in frame.framed}
  /\ \A n \in Value \ frame.framed : frame.decoys[n] = {}
  /\ \A m, n \in Value : frame.decoys[m] \cap frame.decoys[n] # {} => m = n
  /\ frame.sd \cup UNION Range(frame.decoys) \subseteq Range(input.order)
  /\ \A i, j \in DOMAIN input.order : input.order[i] = input.order[j] => i = j

InputOK == input \in Input /\ ClaimsOK /\ FrameOK

Start ==
  /\ stage = "draft" /\ error = FALSE
  /\ sdjwt = <<>> /\ inMemory = FALSE
  /\ agenda = <<>> /\ keyToDigest = <<>>
  /\ request = {} /\ presented = <<>>
  /\ required = {} /\ missing = {}

Init == InputOK /\ Start

Next ==
  \/ IssueWithFrame
  \/ NewHolder \/ ParseAndCreateHolder
  \/ WalkPayloadForKeys
  \/ \E keys \in Requests : SelectWithFrame(keys)
  \/ \E keys \in Required : Verify(keys)

Spec == Init /\ [][Next]_vars

(***************************************************************************)
(* NewHolder on the issuer's value in memory is like parsing its text      *)
(* where no placeholder is inside a disclosure and the payload names the   *)
(* hash algorithm, or the default one is used: IssueWithFrame leaves out   *)
(* "_sd_alg" when nothing is disclosable, and a holder with another        *)
(* algorithm in memory then cannot process the payload.                    *)
(***************************************************************************)
AsInMemory ==
  inMemory' => AsTyped(sdjwt).kind = sdjwt.kind /\ ResolveHashAlgorithm(sdjwt) # NoAlg

ReadSpec == Init /\ [][Next /\ AsInMemory]_vars

(***************************************************************************)
(* No claim of an object has a name that, with a dot and more, is the name *)
(* of another: of "a" and "a.b", a path "a.b" would not say which.         *)
(***************************************************************************)
PathsApart ==
  \A n \in Value : \A k, l \in DOMAIN Tree[n].claims : IsPrefix(Words[k], Words[l]) => k = l

PathSpec == ReadSpec /\ PathsApart

(* A word that is an index, or that ends with one, as of "a.0" and "a[0]". *)
IsIndex(word) == word # <<>> /\ \E i \in 1..Cardinality(Node) : Last(word) = Index(i)

Paths == {p.path : p \in Places}

(***************************************************************************)
(* Claims are required by their names: a path has no indexes, and where it *)
(* leads into the tree, it is the name of a claim of the root, or each of  *)
(* its dots is between the names of two claims and not inside a name.      *)
(* Other paths are not looked for in the same way by validateRequiredClaims *)
(* and by who wrote the frame.                                             *)
(***************************************************************************)
RequiredByName ==
  \A keys \in Required : \A r \in RequiredNames(keys) :
    /\ \A j \in DOMAIN r : ~IsIndex(r[j])
    /\ (\E p \in Paths : IsPrefix(r, p)) =>
         \/ \E k \in DOMAIN Tree[Root].claims : Words[k] = r
         \/ \A j \in DOMAIN r : SubSeq(r, 1, j) \in Paths

-----------------------------------------------------------------------------
(* Values have their types; the walk stays inside the claims. *)
TypeOK ==
  /\ InputOK
  /\ stage \in {"draft", "refused", "issued", "held", "selected", "verified"}
  /\ \A S \in Range(agenda) : \A e \in S : e.node \in Node /\ e.via \in frame.sd \cup {NoVia}
  /\ Range(keyToDigest) \subseteq frame.sd
  /\ Range(presented) \subseteq Disclosure
  /\ missing \subseteq required
  /\ inMemory \in BOOLEAN /\ error \in BOOLEAN

(***************************************************************************)
(* The verifier accepts what an honest holder presents, and sees the tree  *)
(* the issuer signed, cut off exactly at the values that were not asked    *)
(* for and hold nothing asked for: disclosures select no more and no less, *)
(* parents come with their children, elements keep their order, and decoys *)
(* leave no trace.                                                         *)
(***************************************************************************)
PromiseKept == Promise!Spec

(* GetProcessedPayload: the holder sees every claim the issuer signed. *)
HolderSeesAll ==
  stage = "held" => /\ ValidDocument(Held)
                    /\ \A n \in Revealed(Held) : Expected(Held, n) = Tree[n]
                    /\ Revealed(Held) = Promise!Below(Tree, Root, {})

(***************************************************************************)
(* GetPresentableKeys: when the walk is over, in whichever order it met    *)
(* the keys, each disclosable value is known under its own path.           *)
(***************************************************************************)
PresentableKeysExact ==
  stage = "held" /\ ~error /\ agenda = <<>> =>
    {[path |-> k, node |-> keyToDigest[k]] : k \in DOMAIN keyToDigest}
      = {p \in Places : p.node \in frame.sd}

(***************************************************************************)
(* A required claim is missing exactly if nothing the verifier sees is at  *)
(* its path: the paths that processing reports and those of the frame      *)
(* name the same claims.                                                   *)
(***************************************************************************)
MissingExact ==
  stage = "verified" /\ ~error =>
    \A r \in required : r \in missing <=> At({r}) \cap Revealed(Received) = {}
=============================================================================
