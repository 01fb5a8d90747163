------------------------------ MODULE VCTMetadata ------------------------------
(***************************************************************************)
(* Families of credential types: type metadata documents that extend one   *)
(* another, each published by somebody who has validated it together with  *)
(* the document that it extends.                                           *)
(*                                                                         *)
(* A document is pinned by the integrity metadata of those who refer to    *)
(* it, and does not change once published.  What is in integrity metadata, *)
(* in a schema and in a picture is left out.                               *)
(***************************************************************************)
EXTENDS Integers, Sequences

CONSTANTS Documents,  \* the documents that somebody wants to publish
          NumberText  \* how String writes each index

(* An element of a path that is "other" is a fraction, a boolean and so on.  *)
(* text is what a string is between its dots, and number is of numbers only. *)
Element == [kind : {"string", "null", "number", "other"}, text : Seq(STRING), number : Int]

ClaimDisplay == [locale : STRING, label : STRING, name : STRING]

ClaimMetadata ==
  [path : Seq(Element), sd : STRING, mandatory : BOOLEAN, svg_id : STRING,
   display : Seq(ClaimDisplay)]

Integrity == {"", "well-formed", "malformed"}

(* Pointers that may be nil are sets with at most one element. *)
Image == [uri : STRING, integrity : Integrity]
SimpleRendering == [logo : SUBSET Image, background : SUBSET Image]
SVGTemplate == [uri : STRING, integrity : Integrity, properties : SUBSET STRING]
Rendering == [simple : SUBSET SimpleRendering, templates : Seq(SVGTemplate)]
TypeDisplay == [locale : STRING, name : STRING, rendering : SUBSET Rendering]

Document ==
  [vct : STRING, extends : Seq(STRING), extendsIntegrity : Seq(Integrity), schemaIntegrity : Integrity,
   display : Seq(TypeDisplay), claims : Seq(ClaimMetadata)]

ASSUME DocumentsTyped ==
  /\ Documents \subseteq Document
  /\ \A d \in Documents : \A i \in DOMAIN d.claims : \A j \in DOMAIN d.claims[i].path :
       LET element == d.claims[i].path[j]
       IN  element.kind = "number" /\ element.number >= 0 => element.number \in DOMAIN NumberText

VARIABLES published, \* the documents, by their types
          ancestors  \* the types that a type extends, directly or not; no code has them

vars == <<published, ancestors>>

Init == published = [t \in {} |-> t] /\ ancestors = [t \in {} |-> t]

-----------------------------------------------------------------------------
IntegrityValid(integrity) == integrity = "well-formed"

ImageValid(image) ==
  image.uri # "" /\ (image.integrity # "" => IntegrityValid(image.integrity))

(* validateRenderingMetadata; one template needs no properties to be chosen by. *)
RenderingValid(rendering) ==
  /\ rendering.simple # {} \/ rendering.templates # <<>>
  /\ \A simple \in rendering.simple : \A image \in simple.logo \cup simple.background : ImageValid(image)
  /\ \A i \in DOMAIN rendering.templates :
       LET template == rendering.templates[i]
       IN  ImageValid(template) /\ (Len(rendering.templates) > 1 => template.properties # {})

(* validateTypeDisplayMetadata *)
TypeDisplayValid(display) ==
  /\ display.locale # "" /\ display.name # ""
  /\ \A rendering \in display.rendering : RenderingValid(rendering)

(* validateClaimDisplayMetadata; a name will do for a label. *)
ClaimDisplayValid(display) == display.locale # "" /\ (display.label # "" \/ display.name # "")

(* Bug: the elements are looked at, but not whether there is one. *)
ElementsValid(path) ==
  \A i \in DOMAIN path : path[i].kind # "other" /\ (path[i].kind = "number" => path[i].number >= 0)

ValidateClaimPath(path) ==
  /\ path # <<>>
  /\ \A i \in DOMAIN path :
       \/ path[i].kind = "string" /\ path[i].text # <<"">>
       \/ path[i].kind = "null"
       \/ path[i].kind = "number" /\ path[i].number >= 0

ValidateClaimMetadata(claim) ==
  /\ ValidateClaimPath(claim.path)
  /\ claim.sd \in {"", "always", "allowed", "never"}
  /\ \A i \in DOMAIN claim.display : ClaimDisplayValid(claim.display[i])

(* Strings that begin with a digit stand for those that svgIDPattern does not match. *)
SVGIDsValid(claims) ==
  \A i \in DOMAIN claims :
    claims[i].svg_id # "" =>
      claims[i].svg_id # "1" /\ \A j \in DOMAIN claims : claims[j].svg_id = claims[i].svg_id => j = i

ValidateVCTMetadata(d) ==
  /\ d.vct # "" /\ Len(d.extends) <= 1
  /\ Len(d.extendsIntegrity) <= Len(d.extends)
  /\ \A i \in DOMAIN d.extendsIntegrity : IntegrityValid(d.extendsIntegrity[i])
  /\ d.schemaIntegrity # "" => IntegrityValid(d.schemaIntegrity)
  /\ \A i \in DOMAIN d.display : TypeDisplayValid(d.display[i])
  /\ \A i \in DOMAIN d.claims : ValidateClaimMetadata(d.claims[i])
  /\ SVGIDsValid(d.claims)

-----------------------------------------------------------------------------
Text(element) ==
  CASE element.kind = "string" -> element.text
    [] element.kind = "null" -> <<"*">>
    [] element.kind = "number" -> <<NumberText[element.number]>>

(* ClaimPath.String: the elements with dots between them.  A string may have *)
(* dots of its own, and may be "*" or what an index is written as.           *)
PathString(path) ==
  LET upTo[i \in 0..Len(path)] == IF i = 0 THEN <<>> ELSE upTo[i - 1] \o Text(path[i])
  IN  upTo[Len(path)]

(* parentClaims: of the claims whose paths are written the same the last. *)
ParentClaim(parent, path) ==
  {parent.claims[i] : i \in {j \in DOMAIN parent.claims :
     /\ PathString(parent.claims[j].path) = PathString(path)
     /\ \A k \in DOMAIN parent.claims :
          k > j => PathString(parent.claims[k].path) # PathString(path)}}

(* Bug: only "always" binds. *)
AlwaysKept(claim, parentClaim) ==
  /\ parentClaim.sd = "always" => claim.sd \in {"", "always"}
  /\ parentClaim.mandatory => claim.mandatory

(* Bug: no sd is "allowed", and overrides. *)
KeepsStated(claim, parentClaim) ==
  /\ parentClaim.sd \in {"always", "never"} => claim.sd = parentClaim.sd
  /\ parentClaim.mandatory => claim.mandatory

(* Neither sd nor mandatory overrides the parent's; no sd is no override. *)
KeepsParent(claim, parentClaim) ==
  /\ parentClaim.sd \in {"always", "never"} => claim.sd \in {"", parentClaim.sd}
  /\ parentClaim.mandatory => claim.mandatory

(* parents has no more than the parent; nil is a parent too. *)
ValidateVCTMetadataWithParent(d, parents) ==
  /\ ValidateVCTMetadata(d)
  /\ \A parent \in parents : \A i \in DOMAIN d.claims :
       \A parentClaim \in ParentClaim(parent, d.claims[i].path) : KeepsParent(d.claims[i], parentClaim)

-----------------------------------------------------------------------------
Parents(d) == {published[d.extends[i]] : i \in DOMAIN d.extends}

(* Whoever publishes a type has the document that it extends. *)
Publish(d) ==
  LET extended == {d.extends[i] : i \in DOMAIN d.extends}
  IN  /\ d.vct \notin DOMAIN published /\ extended \subseteq DOMAIN published
      /\ ValidateVCTMetadataWithParent(d, Parents(d))
      /\ published' = [t \in DOMAIN published \cup {d.vct} |-> IF t = d.vct THEN d ELSE published[t]]
      /\ ancestors' = [t \in DOMAIN published \cup {d.vct} |->
           IF t = d.vct THEN extended \cup UNION {ancestors[p] : p \in extended} ELSE ancestors[t]]

Next == \E d \in Documents : Publish(d)

Spec == Init /\ [][Next]_vars

-----------------------------------------------------------------------------
(***************************************************************************)
(* Values have their types, and a published document is one that can be    *)
(* used: every claim has a path and every path an element; types extend    *)
(* one type at most, which is published, and none extends itself.          *)
(***************************************************************************)
TypeOK ==
  /\ DOMAIN ancestors = DOMAIN published
  /\ \A t \in DOMAIN published :
       LET d == published[t]
       IN  /\ d \in Documents /\ d.vct = t
           /\ \A i \in DOMAIN d.claims : d.claims[i].path # <<>>
           /\ ancestors[t] \subseteq DOMAIN published \ {t}
           /\ Len(d.extends) <= 1
           /\ \A i \in DOMAIN d.extends : d.extends[i] \in ancestors[t]

-----------------------------------------------------------------------------
(* What a credential may do with a claim, where sd is stated. *)
Uses(claim) ==
  (IF claim.mandatory THEN {} ELSE {"absent"})
    \cup (IF claim.sd = "always" THEN {} ELSE {"visible"})
    \cup (IF claim.sd = "never" THEN {} ELSE {"disclosable"})

(* Where sd is not stated, it is the parent's. *)
Inherited(claim, parentClaim) == IF claim.sd = "" THEN [claim EXCEPT !.sd = parentClaim.sd] ELSE claim

ClaimsOf(d) == {d.claims[i] : i \in DOMAIN d.claims}

(* No two claims of these documents are taken for the same, or are the same. *)
Clear(docs) ==
  /\ \A d, e \in docs : \A c \in ClaimsOf(d), b \in ClaimsOf(e) :
       PathString(c.path) = PathString(b.path) => c.path = b.path
  /\ \A d \in docs : \A i, j \in DOMAIN d.claims : d.claims[i].path = d.claims[j].path => i = j

(***************************************************************************)
(* The rules of a parent are what ValidateVCTMetadataWithParent compares   *)
(* with: it accepts a valid document exactly if no claim of it may be used *)
(* in another way than the parent allows.  This is so wherever the text of *)
(* a path tells which path it is.                                          *)
(***************************************************************************)
RulesExact ==
  \A t \in DOMAIN published : \A d \in Documents :
    LET parent == published[t]
    IN  ValidateVCTMetadata(d) /\ Clear({d, parent}) =>
          (ValidateVCTMetadataWithParent(d, {parent}) <=>
             \A c \in ClaimsOf(d) : \A p \in ClaimsOf(parent) :
               c.path = p.path => Uses(Inherited(c, p)) \subseteq Uses(p))

(* The documents from an ancestor a down to t. *)
Between(a, t) == {published[u] : u \in {v \in ancestors[t] \cup {t} : v = a \/ a \in ancestors[v]}}

Restates(d, path) == \E c \in ClaimsOf(d) : c.path = path /\ c.sd # ""

(***************************************************************************)
(* A type keeps the rules of all its ancestors though it is compared with  *)
(* its parent only: down a line of types which each state the claim and    *)
(* its sd, what is allowed never grows.                                    *)
(***************************************************************************)
LinesKeepRules ==
  \A t \in DOMAIN published : \A a \in ancestors[t] :
    \A c \in ClaimsOf(published[t]), b \in ClaimsOf(published[a]) :
      /\ c.path = b.path /\ Clear(Between(a, t))
      /\ \A d \in Between(a, t) : Restates(d, c.path)
      => Uses(c) \subseteq Uses(b)
=============================================================================
