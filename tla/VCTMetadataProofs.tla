--------------------------- MODULE VCTMetadataProofs ---------------------------
(***************************************************************************)
(* Proofs of TypeOK, RulesExact and LinesKeepRules of VCTMetadata, for any *)
(* documents.  How a path is written does not matter to them: where the    *)
(* claims of two documents are Clear, the parent's claim for a path is the *)
(* claim of the parent with this path.                                     *)
(***************************************************************************)
EXTENDS VCTMetadata, SequenceTheorems, TLAPS

(***************************************************************************)
(* Published documents are valid, and the ancestors of a type have theirs  *)
(* among them.                                                             *)
(***************************************************************************)
Lines ==
  /\ TypeOK
  /\ \A t \in DOMAIN published :
       /\ ValidateVCTMetadata(published[t])
       /\ \A a \in ancestors[t] : ancestors[a] \subseteq ancestors[t]

-----------------------------------------------------------------------------
(* Clear documents stay clear when there are fewer of them. *)
LEMMA ClearFewer ==
  ASSUME NEW more, Clear(more), NEW fewer, fewer \subseteq more PROVE Clear(fewer)
  <1>1. \A d, e \in fewer : \A c \in ClaimsOf(d), b \in ClaimsOf(e) :
          PathString(c.path) = PathString(b.path) => c.path = b.path
    BY DEF Clear
  <1>2. \A d \in fewer : \A i, j \in DOMAIN d.claims : d.claims[i].path = d.claims[j].path => i = j
    BY DEF Clear
  <1> QED BY <1>1, <1>2 DEF Clear

(* What ParentClaim finds is the claim with the path. *)
LEMMA ParentClaimHasPath ==
  ASSUME NEW d, NEW parent, Clear({d, parent}), NEW c \in ClaimsOf(d),
         DOMAIN parent.claims \subseteq Int
  PROVE  ParentClaim(parent, c.path) = {p \in ClaimsOf(parent) : p.path = c.path}
  <1>1. ASSUME NEW j \in DOMAIN parent.claims,
               PathString(parent.claims[j].path) = PathString(c.path)
        PROVE  parent.claims[j].path = c.path
    <2>1. parent.claims[j] \in ClaimsOf(parent)
      BY DEF ClaimsOf
    <2> QED BY <1>1, <2>1 DEF Clear
  <1>2. ASSUME NEW p \in ClaimsOf(parent), p.path = c.path
        PROVE  p \in ParentClaim(parent, c.path)
    <2>1. PICK j \in DOMAIN parent.claims : p = parent.claims[j]
      BY DEF ClaimsOf
    <2>2. ASSUME NEW k \in DOMAIN parent.claims, k > j,
                 PathString(parent.claims[k].path) = PathString(c.path)
          PROVE  FALSE
      <3>1. parent.claims[k].path = parent.claims[j].path
        BY <1>1, <1>2, <2>1, <2>2
      <3>2. k = j
        BY <3>1 DEF Clear
      <3> QED BY <2>2, <3>2
    <2> QED BY <1>2, <2>1, <2>2 DEF ParentClaim
  <1>3. ASSUME NEW p \in ParentClaim(parent, c.path)
        PROVE  p \in ClaimsOf(parent) /\ p.path = c.path
    BY <1>1, <1>3 DEF ParentClaim, ClaimsOf
  <1> QED BY <1>2, <1>3

Modes == {"", "always", "allowed", "never"}

(* Not to override is to allow no more, where sd is inherited. *)
LEMMA KeepsIsUses ==
  ASSUME NEW c \in ClaimMetadata, NEW p \in ClaimMetadata, c.sd \in Modes, p.sd \in Modes
  PROVE  KeepsParent(c, p) <=> Uses(Inherited(c, p)) \subseteq Uses(p)
  <1> DEFINE i == Inherited(c, p)
  <1>1. i.mandatory = c.mandatory /\ i.sd = (IF c.sd = "" THEN p.sd ELSE c.sd)
    BY DEF Inherited, ClaimMetadata
  <1>2. c.mandatory \in BOOLEAN /\ p.mandatory \in BOOLEAN
    BY DEF ClaimMetadata
  <1> HIDE DEF i
  <1>3. Uses(i) \subseteq Uses(p) <=>
          /\ "absent" \in Uses(i) => "absent" \in Uses(p)
          /\ "visible" \in Uses(i) => "visible" \in Uses(p)
          /\ "disclosable" \in Uses(i) => "disclosable" \in Uses(p)
    BY DEF Uses
  <1>4. \A x \in {i, p} : /\ "absent" \in Uses(x) <=> ~x.mandatory
                          /\ "visible" \in Uses(x) <=> x.sd # "always"
                          /\ "disclosable" \in Uses(x) <=> x.sd # "never"
    BY DEF Uses
  <1>5. (c.mandatory \/ ~p.mandatory) <=> ("absent" \in Uses(i) => "absent" \in Uses(p))
    BY <1>1, <1>4
  <1>6. (p.sd \in {"always", "never"} => c.sd \in {"", p.sd}) <=>
          /\ "visible" \in Uses(i) => "visible" \in Uses(p)
          /\ "disclosable" \in Uses(i) => "disclosable" \in Uses(p)
    BY <1>1, <1>4 DEF Modes
  <1>7. KeepsParent(c, p) <=>
          (p.sd \in {"always", "never"} => c.sd \in {"", p.sd}) /\ (c.mandatory \/ ~p.mandatory)
    BY <1>2 DEF KeepsParent
  <1> QED BY <1>3, <1>5, <1>6, <1>7 DEF i

LEMMA ValidClaims ==
  ASSUME NEW d \in Document, ValidateVCTMetadata(d), NEW c \in ClaimsOf(d)
  PROVE  c \in ClaimMetadata /\ c.sd \in Modes /\ c.path # <<>>
  <1>1. PICK i \in DOMAIN d.claims : c = d.claims[i]
    BY DEF ClaimsOf
  <1>2. c \in ClaimMetadata
    BY <1>1 DEF Document
  <1>3. ValidateClaimMetadata(c)
    BY <1>1 DEF ValidateVCTMetadata
  <1> QED BY <1>2, <1>3 DEF ValidateClaimMetadata, ValidateClaimPath, Modes

LEMMA ClaimsIndexed ==
  ASSUME NEW d \in Document PROVE DOMAIN d.claims \subseteq Int
  BY DEF Document

(* The comparison with a parent, for one parent and one document. *)
LEMMA ComparisonExact ==
  ASSUME NEW d \in Document, NEW parent \in Document,
         ValidateVCTMetadata(d), ValidateVCTMetadata(parent), Clear({d, parent})
  PROVE  ValidateVCTMetadataWithParent(d, {parent}) <=>
           \A c \in ClaimsOf(d) : \A p \in ClaimsOf(parent) :
             c.path = p.path => Uses(Inherited(c, p)) \subseteq Uses(p)
  <1>1. ValidateVCTMetadataWithParent(d, {parent}) <=>
          \A c \in ClaimsOf(d) : \A p \in ParentClaim(parent, c.path) : KeepsParent(c, p)
    BY DEF ValidateVCTMetadataWithParent, ClaimsOf
  <1>2. ASSUME NEW c \in ClaimsOf(d)
        PROVE  ParentClaim(parent, c.path) = {p \in ClaimsOf(parent) : p.path = c.path}
    BY ClaimsIndexed, ParentClaimHasPath
  <1>3. ASSUME NEW c \in ClaimsOf(d), NEW p \in ClaimsOf(parent)
        PROVE  KeepsParent(c, p) <=> Uses(Inherited(c, p)) \subseteq Uses(p)
    BY KeepsIsUses, ValidClaims
  <1> QED BY <1>1, <1>2, <1>3

-----------------------------------------------------------------------------
LEMMA PublishedTyped ==
  ASSUME Lines, NEW t \in DOMAIN published
  PROVE  published[t] \in Document /\ ValidateVCTMetadata(published[t])
  BY DocumentsTyped DEF Lines, TypeOK

LEMMA InitLines == Init => Lines /\ LinesKeepRules
  BY DEF Init, Lines, TypeOK, LinesKeepRules

LEMMA OneAtMost ==
  ASSUME NEW e \in Seq(STRING), Len(e) <= 1
  PROVE  \/ e = <<>> /\ DOMAIN e = {}
         \/ e # <<>> /\ Len(e) = 1 /\ DOMAIN e = {1}
  <1>1. CASE Len(e) = 0
    <2>1. e = <<>>
      BY <1>1, EmptySeq
    <2>2. DOMAIN e = 1..0
      BY <1>1
    <2> QED BY <2>1, <2>2
  <1>2. CASE Len(e) = 1
    <2>1. DOMAIN e = 1..1
      BY <1>2
    <2>2. e # <<>>
      BY <1>2
    <2> QED BY <1>2, <2>1, <2>2
  <1>3. Len(e) = 0 \/ Len(e) = 1
    <2>1. Len(e) \in Nat
      BY LenProperties
    <2> QED BY <2>1
  <1> QED BY <1>1, <1>2, <1>3

(* What publishing a document changes. *)
LEMMA Published ==
  ASSUME Lines, NEW d \in Documents, Publish(d)
  PROVE  /\ d \in Document /\ ValidateVCTMetadata(d)
         /\ d.vct \notin DOMAIN published
         /\ DOMAIN published' = DOMAIN published \cup {d.vct}
         /\ DOMAIN ancestors' = DOMAIN published \cup {d.vct}
         /\ published'[d.vct] = d
         /\ \A t \in DOMAIN published :
              published'[t] = published[t] /\ ancestors'[t] = ancestors[t]
         /\ d.extends = <<>> => ancestors'[d.vct] = {}
         /\ d.extends # <<>> =>
              /\ Len(d.extends) = 1 /\ d.extends[1] \in DOMAIN published
              /\ ancestors'[d.vct] = {d.extends[1]} \cup ancestors[d.extends[1]]
              /\ ValidateVCTMetadataWithParent(d, {published[d.extends[1]]})
  <1> DEFINE extended == {d.extends[i] : i \in DOMAIN d.extends}
  <1>1. d \in Document /\ ValidateVCTMetadata(d)
    BY DocumentsTyped DEF Publish, ValidateVCTMetadataWithParent
  <1>2. d.extends \in Seq(STRING) /\ Len(d.extends) <= 1
    BY <1>1 DEF Document, ValidateVCTMetadata
  <1>3. d.extends = <<>> => extended = {}
    OBVIOUS
  <1>4. d.extends # <<>> => Len(d.extends) = 1 /\ extended = {d.extends[1]}
    <2>1. d.extends # <<>> => Len(d.extends) = 1 /\ DOMAIN d.extends = {1}
      BY <1>2, OneAtMost
    <2> QED BY <2>1
  <1>5. extended \subseteq DOMAIN published
    BY DEF Publish
  <1>6. /\ published' = [t \in DOMAIN published \cup {d.vct} |-> IF t = d.vct THEN d ELSE published[t]]
        /\ ancestors' = [t \in DOMAIN published \cup {d.vct} |->
             IF t = d.vct THEN extended \cup UNION {ancestors[p] : p \in extended} ELSE ancestors[t]]
        /\ d.vct \notin DOMAIN published
    BY DEF Publish
  <1>7. ValidateVCTMetadataWithParent(d, {published[p] : p \in extended})
    <2>1. \A p : p \in Parents(d) <=> p \in {published[q] : q \in extended}
      BY DEF Parents
    <2>2. Parents(d) = {published[p] : p \in extended}
      BY <2>1
    <2> QED BY <2>2 DEF Publish
  <1> HIDE DEF extended
  <1>8. d.extends = <<>> => ancestors'[d.vct] = {}
    BY <1>3, <1>6
  <1>9. ASSUME d.extends # <<>>
        PROVE  /\ Len(d.extends) = 1 /\ d.extends[1] \in DOMAIN published
               /\ ancestors'[d.vct] = {d.extends[1]} \cup ancestors[d.extends[1]]
               /\ ValidateVCTMetadataWithParent(d, {published[d.extends[1]]})
    <2>1. extended = {d.extends[1]} /\ Len(d.extends) = 1
      BY <1>4, <1>9
    <2>2. ancestors'[d.vct] = {d.extends[1]} \cup ancestors[d.extends[1]]
      BY <1>6, <2>1
    <2>3. {published[p] : p \in extended} = {published[d.extends[1]]}
      BY <2>1
    <2> QED BY <1>5, <1>7, <2>1, <2>2, <2>3
  <1> QED BY <1>1, <1>6, <1>8, <1>9

LEMMA PublishLines ==
  ASSUME Lines, NEW d \in Documents, Publish(d) PROVE Lines'
  <1> DEFINE new == d.vct
             p == d.extends[1]
  <1>1. ASSUME NEW t \in DOMAIN published
        PROVE  /\ published'[t] \in Documents /\ published'[t].vct = t
               /\ \A i \in DOMAIN published'[t].claims : published'[t].claims[i].path # <<>>
               /\ ancestors'[t] \subseteq DOMAIN published' \ {t}
               /\ Len(published'[t].extends) <= 1
               /\ \A i \in DOMAIN published'[t].extends : published'[t].extends[i] \in ancestors'[t]
               /\ ValidateVCTMetadata(published'[t])
               /\ \A a \in ancestors'[t] : ancestors'[a] \subseteq ancestors'[t]
    <2>1. published'[t] = published[t] /\ ancestors'[t] = ancestors[t]
          /\ DOMAIN published' = DOMAIN published \cup {new}
      BY Published
    <2>2. \A a \in ancestors[t] : ancestors'[a] = ancestors[a]
      BY Published DEF Lines, TypeOK
    <2> QED BY <2>1, <2>2 DEF Lines, TypeOK
  <1>2. /\ published'[new] = d /\ ValidateVCTMetadata(d) /\ d \in Document
        /\ \A i \in DOMAIN d.claims : d.claims[i].path # <<>>
        /\ Len(d.extends) <= 1
    <2>1. published'[new] = d /\ ValidateVCTMetadata(d) /\ d \in Document
      BY Published
    <2>2. \A i \in DOMAIN d.claims : d.claims[i].path # <<>>
      BY <2>1, ValidClaims DEF ClaimsOf
    <2> QED BY <2>1, <2>2 DEF ValidateVCTMetadata
  <1>3. /\ ancestors'[new] \subseteq DOMAIN published
        /\ \A i \in DOMAIN d.extends : d.extends[i] \in ancestors'[new]
        /\ \A a \in ancestors'[new] : ancestors'[a] \subseteq ancestors'[new]
    <2>1. CASE d.extends = <<>>
      <3>1. ancestors'[new] = {} /\ DOMAIN d.extends = {}
        <4>1. d.extends \in Seq(STRING)
          BY <1>2 DEF Document
        <4> QED BY <1>2, <2>1, <4>1, OneAtMost, Published
      <3> QED BY <3>1
    <2>2. CASE d.extends # <<>>
      <3>1. /\ Len(d.extends) = 1 /\ p \in DOMAIN published
            /\ ancestors'[new] = {p} \cup ancestors[p]
        BY <2>2, Published
      <3>2. ancestors[p] \subseteq DOMAIN published
        BY <3>1 DEF Lines, TypeOK
      <3>3. \A a \in {p} \cup ancestors[p] : ancestors'[a] = ancestors[a] /\ ancestors[a] \subseteq ancestors[p]
        <4>1. {p} \cup ancestors[p] \subseteq DOMAIN published
          BY <3>1, <3>2
        <4>2. \A a \in DOMAIN published : ancestors'[a] = ancestors[a]
          BY Published
        <4>3. \A a \in ancestors[p] : ancestors[a] \subseteq ancestors[p]
          BY <3>1 DEF Lines
        <4> QED BY <4>1, <4>2, <4>3
      <3>4. DOMAIN d.extends = {1}
        BY <1>2, <3>1 DEF Document
      <3> QED BY <3>1, <3>2, <3>3, <3>4
    <2> QED BY <2>1, <2>2
  <1>4. new \notin DOMAIN published /\ DOMAIN published' = DOMAIN published \cup {new}
        /\ DOMAIN ancestors' = DOMAIN published \cup {new}
    BY Published
  <1> QED BY <1>1, <1>2, <1>3, <1>4 DEF Lines, TypeOK

-----------------------------------------------------------------------------
(* Who is between two types that were there before does not change. *)
LEMMA BetweenKept ==
  ASSUME Lines, NEW d \in Documents, Publish(d), NEW t \in DOMAIN published, NEW a
  PROVE  Between(a, t)' = Between(a, t)
  <1>1. ancestors[t] \cup {t} \subseteq DOMAIN published
    BY DEF Lines, TypeOK
  <1>2. \A u \in ancestors[t] \cup {t} : published'[u] = published[u] /\ ancestors'[u] = ancestors[u]
    BY <1>1, Published
  <1>3. ancestors'[t] = ancestors[t]
    BY Published
  <1> QED BY <1>2, <1>3 DEF Between

(* One step down, from the parent q to c. *)
LEMMA OneDown ==
  ASSUME NEW d \in Document, NEW parent \in Document,
         ValidateVCTMetadata(d), ValidateVCTMetadata(parent), Clear({d, parent}),
         ValidateVCTMetadataWithParent(d, {parent}),
         NEW c \in ClaimsOf(d), NEW q \in ClaimsOf(parent), c.path = q.path, c.sd # ""
  PROVE  Uses(c) \subseteq Uses(q)
  <1>1. Uses(Inherited(c, q)) \subseteq Uses(q)
    BY ComparisonExact
  <1>2. Inherited(c, q) = c
    BY DEF Inherited
  <1> QED BY <1>1, <1>2

(* In a clear document, the claim with a path is only one. *)
LEMMA OneClaim ==
  ASSUME NEW docs, Clear(docs), NEW d \in docs, NEW b \in ClaimsOf(d), NEW c \in ClaimsOf(d), b.path = c.path
  PROVE  b = c
  BY DEF Clear, ClaimsOf

LEMMA PublishLinesKeepRules ==
  ASSUME Lines, LinesKeepRules, NEW d \in Documents, Publish(d) PROVE LinesKeepRules'
  <1> DEFINE new == d.vct
             p == d.extends[1]
  <1>1. SUFFICES ASSUME NEW t \in DOMAIN published', NEW a \in ancestors'[t],
                        NEW c \in ClaimsOf(published'[t]), NEW b \in ClaimsOf(published'[a]),
                        c.path = b.path, Clear(Between(a, t)'), \A e \in Between(a, t)' : Restates(e, c.path)
                 PROVE  Uses(c) \subseteq Uses(b)
    BY DEF LinesKeepRules
  <1>2. CASE t \in DOMAIN published
    <2>1. /\ published'[t] = published[t] /\ ancestors'[t] = ancestors[t]
          /\ Between(a, t)' = Between(a, t)
      BY <1>2, Published, BetweenKept
    <2>2. a \in DOMAIN published
      BY <1>2, <2>1 DEF Lines, TypeOK
    <2>3. published'[a] = published[a]
      BY <2>2, Published
    <2> QED BY <1>1, <1>2, <2>1, <2>3 DEF LinesKeepRules
  <1>3. CASE t = new
    <2>1. d.extends # <<>>
      BY <1>3, Published
    <2>2. /\ d \in Document /\ ValidateVCTMetadata(d) /\ published'[new] = d
          /\ p \in DOMAIN published /\ published'[p] = published[p]
          /\ ancestors'[new] = {p} \cup ancestors[p] /\ ancestors'[p] = ancestors[p]
          /\ ValidateVCTMetadataWithParent(d, {published[p]})
      BY <2>1, Published
    <2>3. a \in DOMAIN published /\ published'[a] = published[a] /\ (a = p \/ a \in ancestors[p])
      BY <1>3, <2>2, Published DEF Lines, TypeOK
    <2>4. d \in Between(a, t)' /\ published[p] \in Between(a, t)'
      BY <1>3, <2>2, <2>3 DEF Between
    <2>5. c \in ClaimsOf(d) /\ b \in ClaimsOf(published[a])
      BY <1>3, <2>2, <2>3
    <2>6. c.sd # ""
      <3>1. PICK e \in ClaimsOf(d) : e.path = c.path /\ e.sd # ""
        BY <2>4, <1>1 DEF Restates
      <3> QED BY <1>1, <2>4, <2>5, <3>1, OneClaim
    <2>7. PICK q \in ClaimsOf(published[p]) : q.path = c.path /\ q.sd # ""
      BY <1>1, <2>4 DEF Restates
    <2>8. Uses(c) \subseteq Uses(q)
      <3>1. Clear({d, published[p]})
        <4>1. {d, published[p]} \subseteq Between(a, t)'
          BY <2>4
        <4> QED BY <1>1, <4>1, ClearFewer
      <3>2. published[p] \in Document /\ ValidateVCTMetadata(published[p])
        BY <2>2, PublishedTyped
      <3> QED BY <2>2, <2>5, <2>6, <2>7, <3>1, <3>2, OneDown
    <2>9. CASE a = p
      <3>1. q = b
        BY <1>1, <2>4, <2>5, <2>7, <2>9, OneClaim
      <3> QED BY <2>8, <3>1
    <2>10. CASE a \in ancestors[p]
      <3>1. Between(a, p)' \subseteq Between(a, t)'
        BY <1>3, <2>2 DEF Between
      <3>2. Between(a, p)' = Between(a, p)
        BY <2>2, BetweenKept
      <3>3. Clear(Between(a, p))
        BY <1>1, <3>1, <3>2, ClearFewer
      <3>4. \A e \in Between(a, p) : Restates(e, q.path)
        BY <1>1, <2>7, <3>1, <3>2
      <3>5. Uses(q) \subseteq Uses(b)
        BY <1>1, <2>2, <2>5, <2>7, <2>10, <3>3, <3>4 DEF LinesKeepRules
      <3> QED BY <2>8, <3>5
    <2> QED BY <2>3, <2>9, <2>10
  <1>4. DOMAIN published' = DOMAIN published \cup {new}
    BY Published
  <1> QED BY <1>1, <1>2, <1>3, <1>4

-----------------------------------------------------------------------------
LEMMA LinesStutter ==
  ASSUME Lines, LinesKeepRules, UNCHANGED vars PROVE Lines' /\ LinesKeepRules'
  <1>1. published' = published /\ ancestors' = ancestors
    BY DEF vars
  <1>2. Lines'
    BY <1>1 DEF Lines, TypeOK
  <1>3. LinesKeepRules'
    BY <1>1 DEF LinesKeepRules, Between
  <1> QED BY <1>2, <1>3

LEMMA Invariance == Spec => [](Lines /\ LinesKeepRules)
  <1>1. Init => Lines /\ LinesKeepRules
    BY InitLines
  <1>2. Lines /\ LinesKeepRules /\ [Next]_vars => Lines' /\ LinesKeepRules'
    BY PublishLines, PublishLinesKeepRules, LinesStutter DEF Next
  <1> QED BY <1>1, <1>2, PTL DEF Spec

(* Whatever is published can be used, and lines of types have no circles. *)
THEOREM TypeCorrect == Spec => []TypeOK
  <1>1. Lines => TypeOK
    BY DEF Lines
  <1> QED BY <1>1, Invariance, PTL

(* Lines of any length keep the rules that all their types state. *)
THEOREM RulesOfAncestors == Spec => []LinesKeepRules
  BY Invariance, PTL

(* The comparison with a parent refuses what overrides a rule, and nothing else. *)
THEOREM ExactComparison == Spec => []RulesExact
  <1>1. Lines => RulesExact
    <2>1. SUFFICES ASSUME Lines, NEW t \in DOMAIN published, NEW d \in Documents,
                          ValidateVCTMetadata(d), Clear({d, published[t]})
                   PROVE  ValidateVCTMetadataWithParent(d, {published[t]}) <=>
                            \A c \in ClaimsOf(d) : \A p \in ClaimsOf(published[t]) :
                              c.path = p.path => Uses(Inherited(c, p)) \subseteq Uses(p)
      BY DEF RulesExact
    <2>2. d \in Document /\ published[t] \in Document /\ ValidateVCTMetadata(published[t])
      BY <2>1, PublishedTyped, DocumentsTyped
    <2> QED BY <2>1, <2>2, ComparisonExact
  <1> QED BY <1>1, Invariance, PTL
=============================================================================
