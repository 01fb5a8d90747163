--------------------------- MODULE ProcessPayload ---------------------------
(***************************************************************************)
(* sdjwt.ProcessSDJWTPayload (sdjwt/validation.go), as the depth-first     *)
(* recursion it is: a stack of calls of processObject, processArray and    *)
(* processValue, each with its loop position and its partial result.  Go   *)
(* ranges over a map in any order, so the next plain key is any key left.  *)
(*                                                                         *)
(* Paths and the disclosedClaims list are functions of which disclosures   *)
(* were used, and are left to the modules that compare paths.              *)
(***************************************************************************)
EXTENDS Payload

VARIABLES
  doc,              \* the arguments of this call
  status,           \* "called", "running", then "ok" or "error"
  stack,            \* active calls, the innermost last
  usedDigests,      \* usedDigests
  usedDisclosures,  \* usedDisclosures
  resolved          \* results returned so far, by node

vars == <<doc, status, stack, usedDigests, usedDisclosures, resolved>>

NoDigest == "none"
Elem == "[]"

(* How the caller will attach the value a call returns. *)
Slot == [label : Name \cup {Elem}, digest : Digest \cup {NoDigest}]

ASSUME MarkersAreFresh == NoDigest \notin Digest /\ Elem \notin Name

(* The map or the slice that a call is building. *)
Result == [claims : Partial(Name, Node), items : Seq(Node)]
NoResult == [claims |-> [k \in {} |-> k], items |-> <<>>]

Call == [node : Node,                 \* the value being processed
         todo : SUBSET Name,          \* plain keys not yet visited
         next : Nat \ {0},            \* next position in "_sd" or in the array
         result : Result,
         slot : Slot]

top == stack[Len(stack)]
kindOf == doc.kind[top.node]

(* Bug: the loop over digests or items starts one too far. *)
VisitLate(n, slot) ==
  [node |-> n, todo |-> IF doc.kind[n] = "obj" THEN DOMAIN doc.props[n] ELSE {},
   next |-> 2, result |-> NoResult, slot |-> slot]

(* processValue: enter the processing of value n. *)
Visit(n, slot) ==
  [node   |-> n,
   todo   |-> IF doc.kind[n] = "obj" THEN DOMAIN doc.props[n] ELSE {},
   next   |-> 1,
   result |-> NoResult,
   slot   |-> slot]

Bind(f, x, v) == [y \in DOMAIN f \cup {x} |-> IF y = x THEN v ELSE f[y]]

(* result[key] = value, or result = append(result, value). *)
Attach(result, label, child) ==
  IF label = Elem
    THEN [result EXCEPT !.items = Append(@, child)]
    ELSE [result EXCEPT !.claims = Bind(@, label, child)]

(* The innermost call moves on, and possibly calls another. *)
Advanced == [top EXCEPT !.next = @ + 1]
Continue(caller) == [stack EXCEPT ![Len(stack)] = caller]
Push(caller, callee) == Append(Continue(caller), callee)

(* A call starts from nothing. *)
Start ==
  /\ status = "called"
  /\ stack = <<>>
  /\ usedDigests = {} /\ usedDisclosures = {}
  /\ resolved = <<>>

(* The arguments of a call are any document. *)
Init == doc \in Document /\ Start

-----------------------------------------------------------------------------
InputOK == /\ ResolveHashAlgorithm(doc) \in Supported
           /\ DistinctDisclosures(doc)

(* Lines 11-32: the hash algorithm and the disclosure list are accepted. *)
Begin ==
  /\ status = "called" /\ InputOK
  /\ status' = "running"
  /\ stack' = <<Visit(Root, [label |-> Elem, digest |-> NoDigest])>>
  /\ UNCHANGED <<doc, usedDigests, usedDisclosures, resolved>>

(* An error return unwinds every active call and yields no payload. *)
Fail ==
  /\ status' = "error"
  /\ stack' = <<>>
  /\ resolved' = <<>>
  /\ UNCHANGED <<doc, usedDigests, usedDisclosures>>

RejectInput == status = "called" /\ ~InputOK /\ Fail

Running == status = "running"

(* processObject's loop over its plain keys. *)
VisitKey ==
  /\ Running /\ kindOf = "obj"
  /\ \E k \in top.todo :
       stack' = Push([top EXCEPT !.todo = @ \ {k}],
                     Visit(doc.props[top.node][k], [label |-> k, digest |-> NoDigest]))
  /\ UNCHANGED <<doc, status, usedDigests, usedDisclosures, resolved>>

AtDigestOfObject == /\ kindOf = "obj" /\ top.todo = {} /\ ~doc.malformed[top.node]
                    /\ top.next <= Len(doc.sd[top.node])

AtItem == kindOf = "arr" /\ top.next <= Len(doc.items[top.node])
item == doc.items[top.node][top.next]
AtPlaceholder == AtItem /\ doc.kind[item] = "ph"

(* The digest the innermost call looks at, if it looks at one. *)
AtDigest(g) ==
  \/ AtDigestOfObject /\ g = doc.sd[top.node][top.next]
  \/ AtPlaceholder /\ ~doc.malformed[item] /\ g = doc.hides[item]

(* Bug: existingKeys is not consulted, a later claim replaces an earlier one. *)
FitsAnyName(d) ==
  IF kindOf = "arr" THEN d.isArray ELSE ~d.isArray /\ d.name \notin ReservedNames

(* Bug: an object takes two-element disclosures too. *)
FitsAnyShape(d) ==
  \/ kindOf = "arr" /\ d.isArray
  \/ kindOf # "arr" /\ d.name \notin ReservedNames \cup DOMAIN top.result.claims

(* existingKeys holds the plain keys and the names attached so far. *)
Fits(d) ==
  IF kindOf = "arr"
    THEN d.isArray
    ELSE /\ ~d.isArray
         /\ d.name \notin ReservedNames
         /\ d.name \notin DOMAIN top.result.claims

(* No disclosure presented: a decoy or a withheld claim is passed over. *)
SkipDigest ==
  /\ Running
  /\ \E g \in Digest \ (usedDigests \cup Presented(doc)) :
       AtDigest(g) /\ usedDigests' = usedDigests \cup {g}
  /\ stack' = Continue(Advanced)
  /\ UNCHANGED <<doc, status, usedDisclosures, resolved>>

(* Bug: a digest that was used is followed again. *)
OpenDisclosureAgain ==
  /\ Running
  /\ \E g \in Presented(doc) :
       LET d == DisclosureOf(doc, g)
           label == IF kindOf = "arr" THEN Elem ELSE d.name
       IN  /\ AtDigest(g) /\ Fits(d)
           /\ usedDigests' = usedDigests \cup {g}
           /\ stack' = Push(Advanced, Visit(d.value, [label |-> label, digest |-> g]))
  /\ UNCHANGED <<doc, status, usedDisclosures, resolved>>

OpenDisclosure ==
  /\ Running
  /\ \E g \in Presented(doc) \ usedDigests :
       LET d == DisclosureOf(doc, g)
           label == IF kindOf = "arr" THEN Elem ELSE d.name
       IN  /\ AtDigest(g) /\ Fits(d)
           /\ usedDigests' = usedDigests \cup {g}
           /\ stack' = Push(Advanced, Visit(d.value, [label |-> label, digest |-> g]))
  /\ UNCHANGED <<doc, status, usedDisclosures, resolved>>

RejectDigest ==
  /\ Running
  /\ \E g \in Digest : /\ AtDigest(g)
                       /\ \/ g \in usedDigests
                          \/ g \in Presented(doc) /\ ~Fits(DisclosureOf(doc, g))
  /\ Fail

VisitItem ==
  /\ Running /\ AtItem /\ ~AtPlaceholder
  /\ stack' = Push(Advanced, Visit(item, [label |-> Elem, digest |-> NoDigest]))
  /\ UNCHANGED <<doc, status, usedDigests, usedDisclosures, resolved>>

(* Bug: the key "..." outside an array is not rejected. *)
RejectValueNoPlaceholder ==
  /\ Running
  /\ \/ kindOf = "obj" /\ top.todo = {} /\ doc.malformed[top.node]
     \/ AtPlaceholder /\ doc.malformed[item]
  /\ Fail

RejectValue ==
  /\ Running
  /\ \/ kindOf = "ph"
     \/ kindOf = "obj" /\ top.todo = {} /\ doc.malformed[top.node]
     \/ AtPlaceholder /\ doc.malformed[item]
  /\ Fail

Finished ==
  \/ kindOf = "prim"
  \/ kindOf = "obj" /\ top.todo = {} /\ ~doc.malformed[top.node] /\ top.next > Len(doc.sd[top.node])
  \/ kindOf = "arr" /\ ~AtItem

(* Bug: the empty digest of a plain value is recorded as well. *)
RevealedByAnything == {top.slot.digest}

(* usedDisclosures gets the digest through which the value was reached. *)
RevealedBy == {top.slot.digest} \ {NoDigest}

(* A call returns and its caller stores the value. *)
Return ==
  /\ Running /\ Finished /\ Len(stack) > 1
  /\ LET parent == stack[Len(stack) - 1]
         given == Attach(parent.result, top.slot.label, top.node)
     IN  stack' = [SubSeq(stack, 1, Len(stack) - 1)
                     EXCEPT ![Len(stack) - 1] = [parent EXCEPT !.result = given]]
  /\ resolved' = Bind(resolved, top.node, top.result)
  /\ usedDisclosures' = usedDisclosures \cup RevealedBy
  /\ UNCHANGED <<doc, status, usedDigests>>

(* Bug: it is enough that something was disclosed. *)
SomeUsed == Presented(doc) = {} \/ usedDisclosures # {}

AllUsed == Cardinality(usedDisclosures) = Cardinality(Presented(doc))

(* Lines 37-52: the outermost call has returned. *)
Finish ==
  /\ Running /\ Finished /\ Len(stack) = 1
  /\ IF AllUsed
       THEN /\ status' = "ok"
            /\ resolved' = Bind(resolved, top.node, top.result)
            /\ stack' = <<>>
            /\ UNCHANGED <<doc, usedDigests, usedDisclosures>>
       ELSE Fail

Next == \/ Begin \/ RejectInput
        \/ VisitKey \/ SkipDigest \/ OpenDisclosure \/ RejectDigest
        \/ VisitItem \/ RejectValue \/ Return \/ Finish

Spec == Init /\ [][Next]_vars

-----------------------------------------------------------------------------
(* Values have their types, and a call's result the shape of its node. *)
TypeOK ==
  /\ doc \in Document
  /\ status \in {"called", "running", "ok", "error"}
  /\ stack \in Seq(Call)
  /\ usedDigests \subseteq Digest
  /\ usedDisclosures \subseteq Presented(doc)
  /\ DOMAIN resolved \subseteq Node /\ \A n \in DOMAIN resolved : resolved[n] \in Result
  /\ status = "running" => stack # <<>>

(***************************************************************************)
(* The verdict does not depend on the order of map iteration, and is the   *)
(* one RFC 9901 asks for: an error exactly for an invalid document.        *)
(***************************************************************************)
VerdictExact ==
  status \in {"ok", "error"} => (status = "ok" <=> ValidDocument(doc))

(***************************************************************************)
(* A successful result contains exactly the revealed part of the document: *)
(* nothing withheld, nothing invented, array items in order, whatever the  *)
(* order of map iteration.                                                 *)
(***************************************************************************)
ResultExact ==
  status = "ok" => /\ DOMAIN resolved = Revealed(doc)
                   /\ \A n \in DOMAIN resolved : resolved[n] = Expected(doc, n)

(* The claims of object n include every signed one with the signed value. *)
KeepsSigned(d, n, claims) ==
  d.kind[n] = "obj" =>
    \A k \in DOMAIN d.props[n] : k \in DOMAIN claims /\ claims[k] = d.props[n][k]

(***************************************************************************)
(* No disclosure, wherever it is embedded and whatever its name, removes   *)
(* or replaces a claim that the issuer signed in clear.                    *)
(***************************************************************************)
SignedClaimsKept == \A n \in DOMAIN resolved : KeepsSigned(doc, n, resolved[n].claims)

(* Object n embeds the digest of a presented disclosure of claim k = v. *)
Commits(d, n, k, v) ==
  \E i \in DOMAIN d.sd[n] :
    LET disclosure == DisclosureOf(d, d.sd[n][i])
    IN  /\ d.sd[n][i] \in Presented(d) /\ ~disclosure.isArray
        /\ disclosure.name = k /\ disclosure.value = v

(* Claims of object n not signed in clear come from its own digests. *)
FromOwnDigests(d, n, claims) ==
  d.kind[n] = "obj" =>
    \A k \in DOMAIN claims \ DOMAIN d.props[n] : Commits(d, n, k, claims[k])

(***************************************************************************)
(* Every other claim of a result is backed by the issuer: its digest is in *)
(* the "_sd" list of the very object it appears in.                        *)
(***************************************************************************)
ClaimsAreCommitted == \A n \in DOMAIN resolved : FromOwnDigests(doc, n, resolved[n].claims)

(* Success means that every presented disclosure was put to use. *)
NoUnusedDisclosure == status = "ok" => usedDisclosures = Presented(doc)

(***************************************************************************)
(* No value is processed inside itself or a second time, whatever cycle    *)
(* the digests form: the recursion is never deeper than there are values,  *)
(* and it ends.                                                            *)
(***************************************************************************)
VisitsOnce ==
  /\ \A p, q \in 1..Len(stack) : stack[p].node = stack[q].node => p = q
  /\ \A p \in 1..Len(stack) : stack[p].node \notin DOMAIN resolved
=============================================================================
