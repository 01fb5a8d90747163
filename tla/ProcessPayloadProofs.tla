------------------------ MODULE ProcessPayloadProofs ------------------------
(***************************************************************************)
(* Proofs about ProcessPayload for every document: typing, that            *)
(* disclosures never touch the claims signed in clear, that every other    *)
(* claim is backed by a digest of its own object, that success uses every  *)
(* disclosure, and that the verdict and the processed payload are those of *)
(* the reference, which knows no order of evaluation.                      *)
(*                                                                         *)
(* Two facts carry the last part: the revealed nodes are the least set     *)
(* that holds the root and the children of its members (RevealedFixed),    *)
(* and at each step the calls on the stack and the results so far are what *)
(* the places passed until then make them (RunInv).                        *)
(***************************************************************************)
EXTENDS ProcessPayload, FiniteSetTheorems, TLAPS

-----------------------------------------------------------------------------
(* Facts about the helpers. *)

(* Binding a key of S to a value of T keeps a map a map from S to T. *)
LEMMA BindPartial ==
  ASSUME NEW S, NEW T, NEW f \in Partial(S, T), NEW x \in S, NEW v \in T
  PROVE  Bind(f, x, v) \in Partial(S, T)
<1>1. PICK D \in SUBSET S : f \in [D -> T]
  BY DEF Partial
<1>2. Bind(f, x, v) \in [D \cup {x} -> T]
  BY <1>1 DEF Bind
<1>3. D \cup {x} \in SUBSET S
  BY <1>1
<1> QED
  BY <1>2, <1>3 DEF Partial

(* A partial map's domain and values are where they should be. *)
LEMMA PartialFacts ==
  ASSUME NEW S, NEW T, NEW f \in Partial(S, T)
  PROVE  DOMAIN f \subseteq S /\ \A x \in DOMAIN f : f[x] \in T
BY DEF Partial

(* The parts of a document have their types. *)
LEMMA DocFacts ==
  ASSUME NEW d \in Document, NEW n \in Node
  PROVE  /\ d.kind[n] \in Kind
         /\ DOMAIN d.props[n] \subseteq Name
         /\ \A k \in DOMAIN d.props[n] : d.props[n][k] \in Node
         /\ d.sd[n] \in Seq(Digest)
         /\ d.items[n] \in Seq(Node)
         /\ d.hides[n] \in Digest
         /\ d.disclosures \in Seq(Disclosure)
<1>1. d.props[n] \in Partial(Name, Node)
  BY DEF Document, Parts
<1>2. /\ DOMAIN d.props[n] \subseteq Name
      /\ \A k \in DOMAIN d.props[n] : d.props[n][k] \in Node
  BY <1>1, PartialFacts
<1>3. /\ d.kind \in [Node -> Kind]
      /\ d.sd \in [Node -> Seq(Digest)]
      /\ d.items \in [Node -> Seq(Node)]
      /\ d.hides \in [Node -> Digest]
      /\ d.disclosures \in Seq(Disclosure)
  BY DEF Document, Parts
<1> QED
  BY <1>2, <1>3

(* disclosureMap maps each presented digest to a disclosure with it. *)
LEMMA DisclosureFacts ==
  ASSUME NEW d \in Document, NEW g \in Presented(d)
  PROVE  DisclosureOf(d, g) \in Disclosure /\ g \in Digest
<1>1. d.disclosures \in Seq(Disclosure)
  BY DEF Document, Parts
<1>2. PICK i \in DOMAIN d.disclosures : d.disclosures[i].digest = g
  BY DEF Presented
<1>3. \A j \in DOMAIN d.disclosures : d.disclosures[j] \in Disclosure
  BY <1>1
<1> QED
  BY <1>2, <1>3 DEF DisclosureOf, Disclosure

(* There are finitely many presented digests. *)
LEMMA PresentedFinite ==
  ASSUME NEW d \in Document
  PROVE  IsFiniteSet(Presented(d))
<1>1. d.disclosures \in Seq(Disclosure)
  BY DEF Document, Parts
<1>2. Len(d.disclosures) \in Nat /\ DOMAIN d.disclosures = 1..Len(d.disclosures)
  BY <1>1
<1>3. IsFiniteSet(DOMAIN d.disclosures)
  <2>1. 1 \in Int /\ Len(d.disclosures) \in Int
    BY <1>2
  <2>2. IsFiniteSet(1..Len(d.disclosures))
    BY <2>1, FS_Interval
  <2> QED
    BY <1>2, <2>2
<1> DEFINE digestAt == [i \in DOMAIN d.disclosures |-> d.disclosures[i].digest]
<1>4. digestAt \in Surjection(DOMAIN d.disclosures, Presented(d))
  BY DEF Surjection, Presented
<1> QED
  BY <1>3, <1>4, FS_Surjection

(* A new call is well typed. *)
LEMMA VisitTyped ==
  ASSUME doc \in Document, NEW n \in Node, NEW slot \in Slot
  PROVE  /\ Visit(n, slot) \in Call
         /\ Visit(n, slot).node = n /\ Visit(n, slot).slot = slot
         /\ Visit(n, slot).result = NoResult
         /\ doc.kind[n] = "obj" => Visit(n, slot).todo = DOMAIN doc.props[n]
<1>1. NoResult \in Result
  <2>1. [k \in {} |-> k] \in [{} -> Node]
    OBVIOUS
  <2>2. [k \in {} |-> k] \in Partial(Name, Node)
    BY <2>1 DEF Partial
  <2> QED
    BY <2>2 DEF NoResult, Result
<1>2. DOMAIN doc.props[n] \subseteq Name
  BY DocFacts
<1> QED
  BY <1>1, <1>2 DEF Visit, Call

-----------------------------------------------------------------------------
(* The inductive invariant. *)

(* Plain key k of call f's object is yet to visit, or attached. *)
Settled(d, f, k) ==
  \/ k \in f.todo
  \/ k \in DOMAIN f.result.claims /\ f.result.claims[k] = d.props[f.node][k]

(* Call f on its own: the claims it attached are backed. *)
CallOK(d, f) ==
  /\ f.slot.digest \in Presented(d) \cup {NoDigest}
  /\ d.kind[f.node] = "obj" => f.todo \subseteq DOMAIN d.props[f.node]
  /\ FromOwnDigests(d, f.node, f.result.claims)

(* The innermost call: no plain key is lost. *)
TopOK(d, f) ==
  d.kind[f.node] = "obj" => \A k \in DOMAIN d.props[f.node] : Settled(d, f, k)

(* Call f and the call it waits for: the one plain key not settled is the  *)
(* one being computed, and what is computed may be attached.               *)
LinkOK(d, f, child) ==
  LET k == child.slot.label
      plain == child.slot.digest = NoDigest
  IN  d.kind[f.node] = "obj" =>
        /\ k # Elem
        /\ \A key \in DOMAIN d.props[f.node] : Settled(d, f, key) \/ (plain /\ key = k)
        /\ plain => k \in DOMAIN d.props[f.node] /\ child.node = d.props[f.node][k]
        /\ ~plain => k \notin DOMAIN d.props[f.node] /\ Commits(d, f.node, k, child.node)

StackInv ==
  /\ \A p \in 1..Len(stack) : CallOK(doc, stack[p])
  /\ \A p \in 1..Len(stack) - 1 : LinkOK(doc, stack[p], stack[p + 1])
  /\ stack # <<>> => TopOK(doc, stack[Len(stack)])

IInv == TypeOK /\ StackInv /\ SignedClaimsKept /\ ClaimsAreCommitted /\ NoUnusedDisclosure

(* A fresh call has everything to do and nothing attached. *)
LEMMA VisitFresh ==
  ASSUME doc \in Document, NEW n \in Node, NEW slot \in Slot,
         slot.digest \in Presented(doc) \cup {NoDigest}
  PROVE  CallOK(doc, Visit(n, slot)) /\ TopOK(doc, Visit(n, slot))
BY VisitTyped DEF CallOK, TopOK, Settled, FromOwnDigests, NoResult

(* Attaching keeps a result well typed. *)
LEMMA AttachTyped ==
  ASSUME NEW r \in Result, NEW l \in Name \cup {Elem}, NEW n \in Node
  PROVE  /\ Attach(r, l, n) \in Result
         /\ l = Elem => Attach(r, l, n).claims = r.claims
         /\ l # Elem => Attach(r, l, n).claims = Bind(r.claims, l, n)
<1>1. r.claims \in Partial(Name, Node) /\ r.items \in Seq(Node)
  BY DEF Result
<1>2. CASE l = Elem
  <2>1. Append(r.items, n) \in Seq(Node)
    BY <1>1
  <2> QED
    BY <1>2, <2>1, <1>1 DEF Attach, Result
<1>3. CASE l # Elem
  <2>1. Bind(r.claims, l, n) \in Partial(Name, Node)
    BY <1>1, <1>3, BindPartial
  <2> QED
    BY <1>3, <2>1, <1>1 DEF Attach, Result
<1> QED
  BY <1>2, <1>3

LEMMA InitIInv == Init => IInv
<1> SUFFICES ASSUME Init PROVE IInv
  OBVIOUS
<1>1. Len(stack) = 0 /\ stack \in Seq(Call)
  BY DEF Init, Start
<1>2. StackInv
  BY <1>1 DEF StackInv
<1> QED
  BY <1>1, <1>2
     DEF Init, Start, IInv, TypeOK, SignedClaimsKept, ClaimsAreCommitted, NoUnusedDisclosure

(* A failing call leaves nothing behind. *)
LEMMA FailIInv == IInv /\ Fail => IInv'
<1> SUFFICES ASSUME IInv, Fail PROVE IInv'
  OBVIOUS
<1>1. Len(stack') = 0 /\ stack' \in Seq(Call)
  BY DEF Fail
<1>2. StackInv'
  BY <1>1 DEF StackInv
<1> QED
  BY <1>1, <1>2
     DEF Fail, IInv, TypeOK, SignedClaimsKept, ClaimsAreCommitted, NoUnusedDisclosure, Presented

(***************************************************************************)
(* Calling: the innermost call, with its loop moved on, calls Visit(n,     *)
(* slot), where slot says how the value may be attached.                   *)
(***************************************************************************)
LEMMA PushIInv ==
  ASSUME IInv, status = "running",
         NEW caller \in Call, NEW n \in Node, NEW slot \in Slot,
         stack' = Push(caller, Visit(n, slot)),
         UNCHANGED <<doc, status, usedDisclosures, resolved>>,
         usedDigests' \subseteq Digest,
         caller.node = top.node, caller.slot = top.slot, caller.result = top.result,
         caller.todo \subseteq top.todo,
         slot.digest \in Presented(doc) \cup {NoDigest},
         LinkOK(doc, caller, Visit(n, slot))
  PROVE  IInv'
<1> DEFINE m == Len(stack)
           child == Visit(n, slot)
<1>1. /\ stack \in Seq(Call) /\ stack # <<>> /\ doc \in Document
      /\ m \in Nat \ {0} /\ top = stack[m] /\ top \in Call
  BY DEF IInv, TypeOK, top
<1>2. child \in Call /\ CallOK(doc, child) /\ TopOK(doc, child)
  BY <1>1, VisitTyped, VisitFresh
<1>3. /\ stack' \in Seq(Call) /\ Len(stack') = m + 1
      /\ \A p \in 1..m - 1 : stack'[p] = stack[p]
      /\ stack'[m] = caller /\ stack'[m + 1] = child
  BY <1>1, <1>2 DEF Push, Continue
<1> HIDE DEF child
<1>4. TypeOK'
  BY <1>1, <1>3 DEF IInv, TypeOK
<1>5. StackInv'
  <2>1. CallOK(doc, caller)
    BY <1>1 DEF IInv, StackInv, CallOK
  <2>2. ASSUME NEW p \in 1..m + 1 PROVE CallOK(doc, stack'[p])
    <3>1. CASE p \in 1..m - 1
      BY <3>1, <1>1, <1>3 DEF IInv, StackInv
    <3>2. CASE p = m
      BY <2>1, <3>2, <1>3
    <3>3. CASE p = m + 1
      BY <3>3, <1>2, <1>3
    <3> QED
      BY <3>1, <3>2, <3>3, <1>1
  <2>3. \A p \in 1..m - 1 : LinkOK(doc, stack'[p], stack'[p + 1])
    <3>1. \A f \in Call : LinkOK(doc, f, top) => LinkOK(doc, f, caller)
      BY DEF LinkOK
    <3> TAKE p \in 1..m - 1
    <3>2. LinkOK(doc, stack[p], stack[p + 1]) /\ stack'[p] = stack[p] /\ stack[p] \in Call
      BY <1>1, <1>3 DEF IInv, StackInv
    <3>3. CASE p = m - 1
      BY <3>1, <3>2, <3>3, <1>1, <1>3
    <3>4. CASE p < m - 1
      BY <3>2, <3>4, <1>1, <1>3
    <3> QED
      BY <3>3, <3>4, <1>1
  <2>4. LinkOK(doc, stack'[m], stack'[m + 1])
    BY <1>3 DEF child
  <2>5. \A p \in 1..m : LinkOK(doc, stack'[p], stack'[p + 1])
    BY <2>3, <2>4, <1>1
  <2> QED
    BY <2>2, <2>5, <1>1, <1>2, <1>3 DEF StackInv
<1> QED
  BY <1>4, <1>5 DEF IInv, SignedClaimsKept, ClaimsAreCommitted, NoUnusedDisclosure

-----------------------------------------------------------------------------
(* Each action preserves the invariant. *)

(* What holds of the innermost call of a running process. *)
LEMMA TopFacts ==
  ASSUME IInv, status = "running"
  PROVE  /\ stack \in Seq(Call) /\ Len(stack) \in Nat \ {0} /\ doc \in Document
         /\ top = stack[Len(stack)] /\ top \in Call /\ top.node \in Node
         /\ CallOK(doc, top) /\ TopOK(doc, top)
         /\ Advanced \in Call /\ Advanced.node = top.node /\ Advanced.slot = top.slot
         /\ Advanced.result = top.result /\ Advanced.todo = top.todo
<1>1. stack \in Seq(Call) /\ stack # <<>> /\ doc \in Document
  BY DEF IInv, TypeOK
<1>2. Len(stack) \in Nat \ {0} /\ top = stack[Len(stack)] /\ top \in Call
  BY <1>1 DEF top
<1>3. CallOK(doc, top) /\ TopOK(doc, top)
  BY <1>1, <1>2 DEF IInv, StackInv
<1>4. /\ Advanced \in Call /\ Advanced.node = top.node /\ Advanced.slot = top.slot
      /\ Advanced.result = top.result /\ Advanced.todo = top.todo /\ top.node \in Node
  BY <1>2 DEF Advanced, Call
<1> QED
  BY <1>1, <1>2, <1>3, <1>4

LEMMA BeginIInv == IInv /\ Begin => IInv'
<1> SUFFICES ASSUME IInv, Begin PROVE IInv'
  OBVIOUS
<1> DEFINE slot == [label |-> Elem, digest |-> NoDigest]
           call == Visit(Root, slot)
<1>1. doc \in Document /\ Root \in Node /\ slot \in Slot
  BY RootIsNode DEF IInv, TypeOK, Slot
<1>2. call \in Call /\ CallOK(doc, call) /\ TopOK(doc, call)
  BY <1>1, VisitTyped, VisitFresh
<1>3. stack' = <<call>> /\ UNCHANGED <<doc, usedDigests, usedDisclosures, resolved>>
  BY DEF Begin
<1> HIDE DEF call
<1>4. stack' \in Seq(Call) /\ Len(stack') = 1 /\ stack'[1] = call
  BY <1>2, <1>3
<1>5. StackInv'
  BY <1>2, <1>3, <1>4 DEF StackInv
<1>6. TypeOK'
  BY <1>3, <1>4 DEF IInv, TypeOK, Begin
<1> QED
  BY <1>3, <1>5, <1>6
     DEF IInv, Begin, SignedClaimsKept, ClaimsAreCommitted, NoUnusedDisclosure

LEMMA VisitKeyIInv == IInv /\ VisitKey => IInv'
<1> SUFFICES ASSUME IInv, VisitKey PROVE IInv'
  OBVIOUS
<1>1. status = "running" /\ kindOf = "obj"
  BY DEF VisitKey, Running
<1>2. PICK k \in top.todo :
        stack' = Push([top EXCEPT !.todo = @ \ {k}],
                      Visit(doc.props[top.node][k], [label |-> k, digest |-> NoDigest]))
  BY DEF VisitKey
<1> DEFINE caller == [top EXCEPT !.todo = @ \ {k}]
           n == doc.props[top.node][k]
           slot == [label |-> k, digest |-> NoDigest]
<1>3. /\ caller \in Call /\ caller.node = top.node /\ caller.slot = top.slot
      /\ caller.result = top.result /\ caller.todo = top.todo \ {k}
      /\ k \in Name /\ k # Elem /\ slot \in Slot
  BY <1>1, TopFacts, MarkersAreFresh DEF Call, Slot
<1>4. /\ TopOK(doc, top) /\ doc \in Document /\ top.node \in Node
      /\ k \in DOMAIN doc.props[top.node]
  BY <1>1, TopFacts DEF CallOK, kindOf
<1>5. n \in Node
  BY <1>4, DocFacts
<1>6. LinkOK(doc, caller, Visit(n, slot))
  <2>1. Visit(n, slot).slot = slot /\ Visit(n, slot).node = n
    BY <1>3, <1>4, <1>5, VisitTyped
  <2> QED
    BY <2>1, <1>1, <1>3, <1>4 DEF LinkOK, TopOK, Settled, kindOf
<1>7. usedDigests' \subseteq Digest /\ UNCHANGED <<doc, status, usedDisclosures, resolved>>
  BY DEF IInv, TypeOK, VisitKey
<1> HIDE DEF caller, n, slot
<1> QED
  BY <1>1, <1>2, <1>3, <1>5, <1>6, <1>7, PushIInv DEF caller, n, slot

LEMMA VisitItemIInv == IInv /\ VisitItem => IInv'
<1> SUFFICES ASSUME IInv, VisitItem PROVE IInv'
  OBVIOUS
<1> DEFINE slot == [label |-> Elem, digest |-> NoDigest]
<1>1. status = "running" /\ kindOf = "arr" /\ top.next <= Len(doc.items[top.node])
  BY DEF VisitItem, Running, AtItem
<1>2. top \in Call /\ top.node \in Node /\ doc \in Document /\ Advanced.node = top.node
  BY <1>1, TopFacts
<1>3. item \in Node
  <2>1. doc.items[top.node] \in Seq(Node) /\ top.next \in Nat \ {0}
    BY <1>2, DocFacts DEF Call
  <2> QED
    BY <2>1, <1>1 DEF item
<1>4. slot \in Slot
  BY DEF Slot
<1>5. LinkOK(doc, Advanced, Visit(item, slot))
  BY <1>1, <1>2 DEF LinkOK, kindOf
<1>6. /\ stack' = Push(Advanced, Visit(item, slot))
      /\ usedDigests' \subseteq Digest /\ UNCHANGED <<doc, status, usedDisclosures, resolved>>
  BY DEF IInv, TypeOK, VisitItem
<1> QED
  BY <1>1, <1>3, <1>4, <1>5, <1>6, TopFacts, PushIInv

LEMMA OpenDisclosureIInv == IInv /\ OpenDisclosure => IInv'
<1> SUFFICES ASSUME IInv, OpenDisclosure PROVE IInv'
  OBVIOUS
<1>1. status = "running"
  BY DEF OpenDisclosure, Running
<1>2. PICK g \in Presented(doc) \ usedDigests :
        LET d == DisclosureOf(doc, g)
            label == IF kindOf = "arr" THEN Elem ELSE d.name
        IN  /\ AtDigest(g) /\ Fits(d)
            /\ usedDigests' = usedDigests \cup {g}
            /\ stack' = Push(Advanced, Visit(d.value, [label |-> label, digest |-> g]))
  BY DEF OpenDisclosure
<1> DEFINE d == DisclosureOf(doc, g)
           label == IF kindOf = "arr" THEN Elem ELSE d.name
           slot == [label |-> label, digest |-> g]
<1>3. /\ doc \in Document /\ top.node \in Node /\ top \in Call /\ TopOK(doc, top)
      /\ Advanced.node = top.node /\ Advanced.todo = top.todo /\ Advanced.result = top.result
  BY <1>1, TopFacts
<1>4. d \in Disclosure /\ g \in Digest /\ g # NoDigest
  BY <1>3, DisclosureFacts, MarkersAreFresh
<1>5. d.value \in Node /\ d.name \in Name /\ d.name # Elem /\ slot \in Slot
  BY <1>4, MarkersAreFresh DEF Disclosure, Slot
<1>6. LinkOK(doc, Advanced, Visit(d.value, slot))
  <2>1. CASE kindOf = "obj"
    <3>1. AtDigestOfObject /\ g = doc.sd[top.node][top.next]
      BY <1>2, <2>1 DEF AtDigest, AtPlaceholder, AtItem
    <3>2. top.todo = {} /\ top.next \in DOMAIN doc.sd[top.node]
      <4>1. doc.sd[top.node] \in Seq(Digest) /\ top.next \in Nat \ {0}
        BY <1>3, DocFacts DEF Call
      <4> QED
        BY <3>1, <4>1 DEF AtDigestOfObject
    <3>3. ~d.isArray /\ d.name \notin DOMAIN top.result.claims
      BY <1>2, <2>1 DEF Fits
    <3>4. d.name \notin DOMAIN doc.props[top.node]
      BY <1>3, <2>1, <3>2, <3>3 DEF TopOK, Settled, kindOf
    <3>5. Commits(doc, top.node, d.name, d.value)
      BY <3>1, <3>2, <3>3 DEF Commits
    <3>6. \A key \in DOMAIN doc.props[top.node] : Settled(doc, Advanced, key)
      BY <1>3, <2>1 DEF TopOK, Settled, kindOf
    <3>7. Visit(d.value, slot).slot = slot /\ Visit(d.value, slot).node = d.value
      BY <1>3, <1>5, VisitTyped
    <3>8. slot.label = d.name /\ slot.digest = g
      BY <2>1
    <3> QED
      BY <1>3, <1>4, <1>5, <3>4, <3>5, <3>6, <3>7, <3>8 DEF LinkOK
  <2>2. CASE kindOf # "obj"
    BY <1>3, <2>2 DEF LinkOK, kindOf
  <2> QED
    BY <2>1, <2>2
<1>7. /\ stack' = Push(Advanced, Visit(d.value, slot))
      /\ usedDigests' \subseteq Digest
      /\ UNCHANGED <<doc, status, usedDisclosures, resolved>>
  BY <1>2, <1>4 DEF IInv, TypeOK, OpenDisclosure
<1>8. slot.digest \in Presented(doc) \cup {NoDigest}
  OBVIOUS
<1> HIDE DEF d, label, slot
<1> QED
  BY <1>1, <1>5, <1>6, <1>7, <1>8, TopFacts, PushIInv

LEMMA SkipDigestIInv == IInv /\ SkipDigest => IInv'
<1> SUFFICES ASSUME IInv, SkipDigest PROVE IInv'
  OBVIOUS
<1> DEFINE m == Len(stack)
<1>1. status = "running" /\ UNCHANGED <<doc, status, usedDisclosures, resolved>>
  BY DEF SkipDigest, Running
<1>2. /\ stack \in Seq(Call) /\ m \in Nat \ {0} /\ doc \in Document
      /\ top = stack[m] /\ CallOK(doc, top) /\ TopOK(doc, top)
      /\ Advanced \in Call /\ Advanced.node = top.node /\ Advanced.slot = top.slot
      /\ Advanced.result = top.result /\ Advanced.todo = top.todo
  BY <1>1, TopFacts
<1>3. /\ stack' \in Seq(Call) /\ Len(stack') = m
      /\ \A p \in 1..m - 1 : stack'[p] = stack[p]
      /\ stack'[m] = Advanced
  BY <1>2 DEF SkipDigest, Continue
<1>4. TypeOK'
  BY <1>1, <1>2, <1>3 DEF IInv, TypeOK, SkipDigest
<1>5. CallOK(doc, Advanced) /\ TopOK(doc, Advanced)
  BY <1>2 DEF CallOK, TopOK, Settled
<1>6. \A f \in Call : LinkOK(doc, f, top) => LinkOK(doc, f, Advanced)
  BY <1>2 DEF LinkOK
<1>7. ASSUME NEW p \in 1..m PROVE CallOK(doc, stack'[p])
  <2>1. CASE p \in 1..m - 1
    BY <2>1, <1>2, <1>3 DEF IInv, StackInv
  <2>2. CASE p = m
    BY <2>2, <1>3, <1>5
  <2> QED
    BY <2>1, <2>2, <1>2
<1>8. ASSUME NEW p \in 1..m - 1 PROVE LinkOK(doc, stack'[p], stack'[p + 1])
  <2>1. LinkOK(doc, stack[p], stack[p + 1]) /\ stack'[p] = stack[p] /\ stack[p] \in Call
    BY <1>2, <1>3 DEF IInv, StackInv
  <2>2. CASE p = m - 1
    BY <2>1, <2>2, <1>2, <1>3, <1>6
  <2>3. CASE p < m - 1
    BY <2>1, <2>3, <1>2, <1>3
  <2> QED
    BY <2>2, <2>3, <1>2
<1>9. StackInv'
  BY <1>1, <1>3, <1>5, <1>7, <1>8 DEF StackInv
<1> QED
  BY <1>1, <1>4, <1>9 DEF IInv, SignedClaimsKept, ClaimsAreCommitted, NoUnusedDisclosure

(* What a finished call hands back satisfies both claim properties. *)
LEMMA FinishedResult ==
  ASSUME IInv, status = "running", Finished
  PROVE  /\ KeepsSigned(doc, top.node, top.result.claims)
         /\ FromOwnDigests(doc, top.node, top.result.claims)
         /\ top.result \in Result
<1>1. CallOK(doc, top) /\ TopOK(doc, top) /\ top \in Call
  BY TopFacts
<1>2. kindOf = "obj" => top.todo = {}
  BY DEF Finished
<1> QED
  BY <1>1, <1>2 DEF CallOK, TopOK, Settled, KeepsSigned, kindOf, Call

(* Recording a finished call keeps the properties of recorded results. *)
LEMMA ResolvedKept ==
  ASSUME IInv, status = "running", Finished, doc' = doc,
         resolved' = Bind(resolved, top.node, top.result)
  PROVE  /\ SignedClaimsKept' /\ ClaimsAreCommitted'
         /\ DOMAIN resolved' \subseteq Node
         /\ \A n \in DOMAIN resolved' : resolved'[n] \in Result
<1>1. top.node \in Node
  BY TopFacts
<1>2. /\ DOMAIN resolved' = DOMAIN resolved \cup {top.node}
      /\ \A n \in DOMAIN resolved' :
           resolved'[n] = IF n = top.node THEN top.result ELSE resolved[n]
  BY DEF Bind
<1> QED
  BY <1>1, <1>2, FinishedResult DEF IInv, TypeOK, SignedClaimsKept, ClaimsAreCommitted

(* Attaching a finished call's value to its caller. *)
LEMMA AttachOK ==
  ASSUME doc \in Document, NEW f \in Call, NEW child \in Call,
         CallOK(doc, f), LinkOK(doc, f, child),
         NEW g \in Call,
         g = [f EXCEPT !.result = Attach(f.result, child.slot.label, child.node)]
  PROVE  CallOK(doc, g) /\ TopOK(doc, g)
<1> DEFINE k == child.slot.label
           given == Attach(f.result, k, child.node)
<1>1. f.result \in Result /\ k \in Name \cup {Elem} /\ child.node \in Node
  BY DEF Call, Slot
<1>2. g.node = f.node /\ g.slot = f.slot /\ g.todo = f.todo /\ g.result = given
  BY DEF Call
<1>3. CASE doc.kind[f.node] # "obj"
  BY <1>2, <1>3 DEF CallOK, TopOK, FromOwnDigests
<1>4. CASE doc.kind[f.node] = "obj"
  <2>1. /\ k # Elem
        /\ \A key \in DOMAIN doc.props[f.node] :
             Settled(doc, f, key) \/ (child.slot.digest = NoDigest /\ key = k)
        /\ child.slot.digest = NoDigest =>
             k \in DOMAIN doc.props[f.node] /\ child.node = doc.props[f.node][k]
        /\ child.slot.digest # NoDigest =>
             k \notin DOMAIN doc.props[f.node] /\ Commits(doc, f.node, k, child.node)
    BY <1>4 DEF LinkOK
  <2>2. given.claims = Bind(f.result.claims, k, child.node)
    BY <1>1, <2>1, AttachTyped
  <2>3. /\ DOMAIN given.claims = DOMAIN f.result.claims \cup {k}
        /\ \A key \in DOMAIN given.claims :
             given.claims[key] = IF key = k THEN child.node ELSE f.result.claims[key]
    BY <2>2 DEF Bind
  <2> HIDE DEF given
  <2>4. FromOwnDigests(doc, f.node, given.claims)
    BY <1>4, <2>1, <2>3 DEF CallOK, FromOwnDigests
  <2>5. TopOK(doc, g)
    BY <1>2, <1>4, <2>1, <2>3 DEF TopOK, Settled
  <2> QED
    BY <1>2, <2>4, <2>5 DEF CallOK
<1> QED
  BY <1>3, <1>4

(* Dropping the last element and replacing the one before it. *)
LEMMA PopReplace ==
  ASSUME NEW S, NEW s \in Seq(S), NEW n \in Nat \ {0}, Len(s) = n + 1, NEW c \in S,
         NEW t, t = [SubSeq(s, 1, n) EXCEPT ![n] = c]
  PROVE  t \in Seq(S) /\ Len(t) = n /\ t[n] = c /\ \A p \in 1..n - 1 : t[p] = s[p]
<1> DEFINE low == SubSeq(s, 1, n)
<1>1. low \in Seq(S) /\ Len(low) = n /\ \A p \in 1..n : low[p] = s[p]
  <2>1. n <= Len(s) /\ 1 <= n
    OBVIOUS
  <2>2. SubSeq(s, 1, n) = [p \in 1..n |-> s[p]]
    BY <2>1
  <2>3. \A p \in 1..n : s[p] \in S
    OBVIOUS
  <2> QED
    BY <2>2, <2>3
<1> HIDE DEF low
<1>2. t = [low EXCEPT ![n] = c]
  BY DEF low
<1>3. DOMAIN low = 1..n /\ n \in 1..n
  BY <1>1
<1> QED
  BY <1>1, <1>2, <1>3

LEMMA ReturnIInv == IInv /\ Return => IInv'
<1> SUFFICES ASSUME IInv, Return PROVE IInv'
  OBVIOUS
<1>1. /\ status = "running" /\ Finished /\ Len(stack) > 1
      /\ UNCHANGED <<doc, status, usedDigests>>
      /\ resolved' = Bind(resolved, top.node, top.result)
      /\ usedDisclosures' = usedDisclosures \cup RevealedBy
  BY DEF Return, Running
<1>2. /\ stack \in Seq(Call) /\ doc \in Document /\ CallOK(doc, top)
      /\ top = stack[Len(stack)] /\ top \in Call
  BY <1>1, TopFacts
<1>3. PICK n \in Nat \ {0} : Len(stack) = n + 1 /\ Len(stack) - 1 = n
  <2>1. Len(stack) - 1 \in Nat \ {0} /\ Len(stack) = (Len(stack) - 1) + 1
    BY <1>1, <1>2
  <2> QED
    BY <2>1
<1> DEFINE parent == stack[n]
           caller == [parent EXCEPT !.result = Attach(parent.result, top.slot.label, top.node)]
<1>4. \A p \in 1..n : /\ stack[p] \in Call /\ CallOK(doc, stack[p])
                      /\ LinkOK(doc, stack[p], stack[p + 1])
  <2>1. /\ \A p \in 1..n + 1 : CallOK(doc, stack[p])
        /\ \A p \in 1..n : LinkOK(doc, stack[p], stack[p + 1])
    BY <1>1, <1>3 DEF IInv, StackInv
  <2>2. \A p \in 1..n + 1 : stack[p] \in Call
    BY <1>2, <1>3
  <2> QED
    BY <2>1, <2>2
<1>5. n \in 1..n /\ parent \in Call /\ CallOK(doc, parent) /\ LinkOK(doc, parent, top)
  BY <1>2, <1>3, <1>4
<1>6. caller \in Call /\ caller.slot = parent.slot /\ caller.node = parent.node
  <2>1. Attach(parent.result, top.slot.label, top.node) \in Result
    BY <1>2, <1>5, AttachTyped DEF Call, Slot
  <2> QED
    BY <1>5, <2>1 DEF Call
<1>7. CallOK(doc, caller) /\ TopOK(doc, caller)
  BY <1>2, <1>5, <1>6, AttachOK
<1>8. stack' = [SubSeq(stack, 1, n) EXCEPT ![n] = caller]
  BY <1>3 DEF Return
<1> HIDE DEF caller
<1>9. /\ stack' \in Seq(Call) /\ Len(stack') = n /\ stack'[n] = caller
      /\ \A p \in 1..n - 1 : stack'[p] = stack[p]
  BY <1>2, <1>3, <1>6, <1>8, PopReplace
<1>10. \A f \in Call : LinkOK(doc, f, parent) => LinkOK(doc, f, caller)
  BY <1>6 DEF LinkOK
<1>11. ASSUME NEW p \in 1..n PROVE CallOK(doc, stack'[p])
  <2>1. CASE p \in 1..n - 1
    BY <2>1, <1>4, <1>9
  <2>2. CASE p = n
    BY <2>2, <1>7, <1>9
  <2> QED
    BY <2>1, <2>2
<1>12. ASSUME NEW p \in 1..n - 1 PROVE LinkOK(doc, stack'[p], stack'[p + 1])
  <2>1. LinkOK(doc, stack[p], stack[p + 1]) /\ stack'[p] = stack[p] /\ stack[p] \in Call
    BY <1>4, <1>9
  <2>2. CASE p = n - 1
    <3>1. p + 1 = n
      BY <2>2
    <3> QED
      BY <2>1, <3>1, <1>9, <1>10
  <2>3. CASE p # n - 1
    <3>1. p + 1 \in 1..n - 1
      BY <2>3
    <3> QED
      BY <2>1, <3>1, <1>9
  <2> QED
    BY <2>2, <2>3
<1>13. StackInv'
  BY <1>1, <1>7, <1>9, <1>11, <1>12 DEF StackInv
<1>14. TypeOK' /\ SignedClaimsKept' /\ ClaimsAreCommitted'
  <2>1. RevealedBy \subseteq Presented(doc)
    BY <1>2 DEF RevealedBy, CallOK
  <2>2. stack' # <<>>
    BY <1>9
  <2>3. usedDisclosures' \subseteq Presented(doc)'
    BY <1>1, <2>1 DEF IInv, TypeOK, Presented
  <2> QED
    BY <1>1, <1>9, <2>2, <2>3, ResolvedKept DEF IInv, TypeOK
<1> QED
  BY <1>1, <1>13, <1>14 DEF IInv, NoUnusedDisclosure

LEMMA FinishIInv == IInv /\ Finish => IInv'
<1> SUFFICES ASSUME IInv, Finish PROVE IInv'
  OBVIOUS
<1>1. status = "running" /\ Finished
  BY DEF Finish, Running
<1>2. CASE ~AllUsed
  BY <1>2, FailIInv DEF Finish
<1>3. CASE AllUsed
  <2>1. /\ status' = "ok" /\ resolved' = Bind(resolved, top.node, top.result)
        /\ stack' = <<>> /\ UNCHANGED <<doc, usedDigests, usedDisclosures>>
    BY <1>3 DEF Finish
  <2>2. usedDisclosures = Presented(doc)
    <3>1. IsFiniteSet(Presented(doc)) /\ usedDisclosures \in SUBSET Presented(doc)
      BY PresentedFinite DEF IInv, TypeOK
    <3> QED
      BY <1>3, <3>1, FS_Subset DEF AllUsed
  <2>3. stack' \in Seq(Call) /\ Len(stack') = 0
    BY <2>1
  <2>4. StackInv'
    BY <2>1, <2>3 DEF StackInv
  <2>5. TypeOK' /\ SignedClaimsKept' /\ ClaimsAreCommitted'
    BY <1>1, <2>1, <2>3, ResolvedKept DEF IInv, TypeOK
  <2> QED
    BY <2>1, <2>2, <2>4, <2>5 DEF IInv, NoUnusedDisclosure
<1> QED
  BY <1>2, <1>3

-----------------------------------------------------------------------------
(* IInv is an invariant: it holds at first and every step preserves it. *)
THEOREM Inductive == Spec => []IInv
<1>1. IInv /\ [Next]_vars => IInv'
  <2> SUFFICES ASSUME IInv, [Next]_vars PROVE IInv'
    OBVIOUS
  <2>1. CASE Begin
    BY <2>1, BeginIInv
  <2>2. CASE RejectInput \/ RejectDigest \/ RejectValue
    BY <2>2, FailIInv DEF RejectInput, RejectDigest, RejectValue
  <2>3. CASE VisitKey
    BY <2>3, VisitKeyIInv
  <2>4. CASE SkipDigest
    BY <2>4, SkipDigestIInv
  <2>5. CASE OpenDisclosure
    BY <2>5, OpenDisclosureIInv
  <2>6. CASE VisitItem
    BY <2>6, VisitItemIInv
  <2>7. CASE Return
    BY <2>7, ReturnIInv
  <2>8. CASE Finish
    BY <2>8, FinishIInv
  <2>9. CASE UNCHANGED vars
    BY <2>9
       DEF vars, IInv, TypeOK, StackInv, SignedClaimsKept, ClaimsAreCommitted, NoUnusedDisclosure
  <2> QED
    BY <2>1, <2>2, <2>3, <2>4, <2>5, <2>6, <2>7, <2>8, <2>9 DEF Next
<1> QED
  BY InitIInv, <1>1, PTL DEF Spec

(* Every reachable state is well typed, for every document. *)
THEOREM TypeCorrect == Spec => []TypeOK
BY Inductive, PTL DEF IInv

(***************************************************************************)
(* For every payload, every list of disclosures and every order of map     *)
(* iteration, no object loses a claim signed in clear or has it replaced   *)
(* by a disclosed one.                                                     *)
(***************************************************************************)
THEOREM SignedClaimsSafe == Spec => []SignedClaimsKept
BY Inductive, PTL DEF IInv

(***************************************************************************)
(* Every other claim of a processed object is one whose digest the issuer  *)
(* put into that very object.                                              *)
(***************************************************************************)
THEOREM DisclosedClaimsSafe == Spec => []ClaimsAreCommitted
BY Inductive, PTL DEF IInv

(* Comparing the sizes of usedDisclosures and disclosureMap is enough:     *)
(* success means that no presented disclosure was left over.               *)
THEOREM SuccessUsesAll == Spec => []NoUnusedDisclosure
BY Inductive, PTL DEF IInv

-----------------------------------------------------------------------------
(* Induction over data.  The library's theorem on minimal elements takes   *)
(* sets, not formulas, and yields induction over sets of numbers.          *)

LEMMA PredecessorIsLess == \A x \in Nat \ {0} : <<x - 1, x>> \in OpToRel(<, Nat)
<1> TAKE x \in Nat \ {0}
<1> DEFINE y == x - 1
<1>1. x \in Nat /\ y \in Nat /\ y < x
  OBVIOUS
<1> HIDE DEF y
<1>2. <<y, x>> \in OpToRel(<, Nat)
  BY <1>1, Zenon DEF OpToRel
<1> QED
  BY <1>2 DEF y

(* A set of numbers that holds 0 and each successor holds them all. *)
LEMMA SetInduction ==
  ASSUME NEW S, 0 \in S, \A n \in Nat : n \in S => n + 1 \in S
  PROVE  Nat \subseteq S
<1> DEFINE T == Nat \ S
           R == OpToRel(<, Nat)
<1> SUFFICES ASSUME T # {} PROVE FALSE
  OBVIOUS
<1>1. T \subseteq Nat
  OBVIOUS
<1>2. IsWellFoundedOn(R, Nat) /\ \A x \in Nat \ {0} : <<x - 1, x>> \in R
  BY NatLessThanWellFounded, PredecessorIsLess
<1> HIDE DEF T, R
<1>3. PICK x \in T : \A y \in T : ~(<<y, x>> \in R)
  BY <1>1, <1>2, WFMin
<1>4. x \in Nat \ {0} /\ x \notin S
  BY DEF T
<1>5. x - 1 \in Nat /\ x - 1 \notin S
  BY <1>4
<1>6. x - 1 \in T
  BY <1>5 DEF T
<1> QED
  BY <1>2, <1>3, <1>4, <1>6

(* f is the function on 0..n with first value a and the given step. *)
IsRecursion(f, S, a, step, n) ==
  f \in [0..n -> S] /\ f[0] = a /\ \A k \in 1..n : f[k] = step[k][f[k - 1]]

(* A function given by its first value and a step exists. *)
LEMMA RecursionExists ==
  ASSUME NEW S, NEW a \in S, NEW step \in [Nat -> [S -> S]], NEW n \in Nat
  PROVE  \E f : IsRecursion(f, S, a, step, n)
<1> DEFINE Good(m, f) == f[0] = a /\ \A k \in 1..m : f[k] = step[k][f[k - 1]]
           M == {m \in Nat : \E f \in [0..m -> S] : Good(m, f)}
<1>1. 0 \in M
  <2> DEFINE f == [k \in 0..0 |-> a]
  <2>1. f \in [0..0 -> S] /\ Good(0, f)
    OBVIOUS
  <2> QED
    BY <2>1
<1>2. ASSUME NEW m \in Nat, m \in M PROVE m + 1 \in M
  <2>1. PICK f \in [0..m -> S] : Good(m, f)
    BY <1>2
  <2> DEFINE g == [k \in 0..m + 1 |-> IF k = m + 1 THEN step[m + 1][f[m]] ELSE f[k]]
  <2>2. m \in 0..m /\ f[m] \in S /\ step[m + 1] \in [S -> S]
    OBVIOUS
  <2>3. g \in [0..m + 1 -> S]
    BY <2>2
  <2>4. g[m + 1] = step[m + 1][f[m]] /\ \A k \in 0..m : g[k] = f[k]
    OBVIOUS
  <2>5. ASSUME NEW k \in 1..m + 1 PROVE g[k] = step[k][g[k - 1]]
    <3>1. CASE k = m + 1
      <4>1. k - 1 = m
        BY <3>1
      <4> QED
        BY <3>1, <4>1, <2>2, <2>4
    <3>2. CASE k \in 1..m
      <4>1. k \in 0..m /\ k - 1 \in 0..m
        BY <3>2
      <4> QED
        BY <3>2, <4>1, <2>1, <2>4
    <3> QED
      BY <3>1, <3>2
  <2> HIDE DEF g
  <2>6. Good(m + 1, g)
    <3>1. 0 \in 0..m
      OBVIOUS
    <3> QED
      BY <2>1, <2>4, <2>5, <3>1
  <2> QED
    BY <2>3, <2>6
<1> HIDE DEF M
<1>3. Nat \subseteq M
  BY <1>1, <1>2, SetInduction
<1> QED
  BY <1>3 DEF M, IsRecursion

(* G enlarges the subsets of V, and more the larger they are. *)
GrowsIn(G, V) ==
  /\ G \in [SUBSET V -> SUBSET V] /\ \A S \in SUBSET V : S \subseteq G[S]
  /\ \A S, T \in SUBSET V : S \subseteq T => G[S] \subseteq G[T]

AreLayers(w, G, V, r) ==
  /\ w \in [0..Cardinality(V) -> SUBSET V] /\ w[0] = {r}
  /\ \A k \in 1..Cardinality(V) : w[k] = G[w[k - 1]]

LeastClosed(L, G, V, r) ==
  /\ L \in SUBSET V /\ r \in L /\ G[L] \subseteq L
  /\ \A T \in SUBSET V : r \in T /\ G[T] \subseteq T => L \subseteq T

(***************************************************************************)
(* Layers of a finite set V, each grown from the one before.  As many as V *)
(* has members are enough: a layer that is not closed has more members     *)
(* than the one before, and the last has no room.  Whatever holds the      *)
(* first and is closed holds them all.                                     *)
(***************************************************************************)
LEMMA LayersClosed ==
  ASSUME NEW V, IsFiniteSet(V), NEW r \in V, NEW G, GrowsIn(G, V), NEW w, AreLayers(w, G, V, r)
  PROVE  LeastClosed(w[Cardinality(V)], G, V, r)
<1> DEFINE N == Cardinality(V)
<1>10. /\ w[0] = {r} /\ (\A k \in 1..N : w[k] = G[w[k - 1]]) /\ w \in [0..N -> SUBSET V]
       /\ G \in [SUBSET V -> SUBSET V] /\ \A S \in SUBSET V : S \subseteq G[S]
       /\ \A S, T \in SUBSET V : S \subseteq T => G[S] \subseteq G[T]
  BY DEF AreLayers, GrowsIn
<1>11. N \in Nat /\ N = Cardinality(V)
  BY FS_CardinalityType
<1> HIDE DEF N
<1>1. N \in Nat
  BY <1>11
<1>2. w[0] = {r} /\ (\A k \in 1..N : w[k] = G[w[k - 1]]) /\ w \in [0..N -> SUBSET V]
  BY <1>10
<1> DEFINE Closed(k) == G[w[k]] = w[k]
           Big(k) == Cardinality(w[k]) >= k + 1
           M == {k \in Nat : k \in 0..N => r \in w[k] /\ (Closed(k) \/ Big(k))}
<1>3. 0 \in M
  <2>1. Cardinality({r}) = 1
    BY FS_Singleton
  <2>2. 0 \in 0..N => r \in w[0] /\ Big(0)
    BY <1>2, <2>1
  <2> QED
    BY <2>2
<1>4. ASSUME NEW k \in Nat, k \in M PROVE k + 1 \in M
  <2> SUFFICES ASSUME k + 1 \in 0..N PROVE r \in w[k + 1] /\ (Closed(k + 1) \/ Big(k + 1))
    OBVIOUS
  <2>1. k \in 0..N /\ k + 1 \in 1..N /\ (k + 1) - 1 = k
    BY <1>1
  <2>2. w[k] \in SUBSET V /\ w[k + 1] \in SUBSET V /\ w[k + 1] = G[w[k]]
    BY <1>2, <2>1
  <2>3. r \in w[k] /\ (Closed(k) \/ Big(k))
    BY <1>4, <2>1
  <2>4. w[k] \subseteq w[k + 1]
    BY <1>10, <2>2
  <2>5. CASE w[k + 1] = w[k]
    BY <2>2, <2>3, <2>5
  <2>6. CASE w[k + 1] # w[k] /\ Big(k)
    <3>1. IsFiniteSet(w[k + 1])
      BY <2>2, FS_Subset
    <3>2. /\ Cardinality(w[k]) <= Cardinality(w[k + 1])
          /\ Cardinality(w[k]) # Cardinality(w[k + 1])
      BY <3>1, <2>4, <2>6, FS_Subset
    <3>3. Cardinality(w[k]) \in Nat /\ Cardinality(w[k + 1]) \in Nat
      BY <3>1, <2>4, FS_Subset, FS_CardinalityType
    <3>4. Big(k + 1)
      BY <2>6, <3>2, <3>3
    <3> QED
      BY <2>3, <2>4, <3>4
  <2>7. CASE w[k + 1] # w[k] /\ Closed(k)
    BY <2>2, <2>7
  <2> QED
    BY <2>3, <2>5, <2>6, <2>7
<1> HIDE DEF M
<1>5. N \in M
  BY <1>1, <1>3, <1>4, SetInduction
<1>6. N \in 0..N /\ w[N] \in SUBSET V
  <2>1. N \in 0..N
    BY <1>1
  <2> QED
    BY <1>2, <2>1
<1>7. r \in w[N] /\ (Closed(N) \/ Big(N))
  BY <1>5, <1>6 DEF M
<1>8. Closed(N)
  <2>1. CASE Big(N)
    <3>1. Cardinality(w[N]) <= N
      BY <1>6, <1>11, FS_Subset
    <3>2. Cardinality(w[N]) \in Nat
      BY <1>6, FS_Subset, FS_CardinalityType
    <3> QED
      BY <1>1, <2>1, <3>1, <3>2
  <2> QED
    BY <1>7, <2>1
<1>9. ASSUME NEW T \in SUBSET V, r \in T, G[T] \subseteq T PROVE w[N] \subseteq T
  <2> DEFINE L == {k \in Nat : k \in 0..N => w[k] \subseteq T}
  <2>1. 0 \in L
    BY <1>2, <1>9
  <2>2. ASSUME NEW k \in Nat, k \in L PROVE k + 1 \in L
    <3> SUFFICES ASSUME k + 1 \in 0..N PROVE w[k + 1] \subseteq T
      OBVIOUS
    <3>1. k \in 0..N /\ k + 1 \in 1..N /\ (k + 1) - 1 = k
      BY <1>1
    <3>2. w[k] \subseteq T /\ w[k] \in SUBSET V /\ w[k + 1] = G[w[k]]
      BY <1>2, <2>2, <3>1
    <3> QED
      BY <1>10, <1>9, <3>2
  <2> HIDE DEF L
  <2>3. N \in L
    BY <1>1, <2>1, <2>2, SetInduction
  <2> QED
    BY <1>6, <2>3 DEF L
<1> QED
  BY <1>6, <1>7, <1>8, <1>9 DEF LeastClosed, N

-----------------------------------------------------------------------------
(* The revealed nodes are the least closed set that holds the root.        *)

(* S with the children of its members, clear or disclosed. *)
Grow(d, S) == UNION {{n} \cup PlainChildren(d, n) \cup DisclosedChildren(d, n) : n \in S}

LEMMA ChildrenTyped ==
  ASSUME NEW d \in Document, NEW n \in Node
  PROVE  PlainChildren(d, n) \subseteq Node /\ DisclosedChildren(d, n) \subseteq Node
<1>1. \A x \in PlainAt(d, n) : ChildAt(d, n, x) \in Node
  <2>1. CASE d.kind[n] = "obj"
    BY <2>1, DocFacts DEF PlainAt, ChildAt
  <2>2. CASE d.kind[n] = "arr"
    BY <2>2, DocFacts DEF PlainAt, ChildAt
  <2>3. CASE d.kind[n] \notin {"obj", "arr"}
    BY <2>3 DEF PlainAt
  <2> QED
    BY <2>1, <2>2, <2>3
<1>2. \A g \in Presented(d) : DisclosureOf(d, g).value \in Node
  BY DisclosureFacts DEF Disclosure
<1> QED
  BY <1>1, <1>2 DEF PlainChildren, DisclosedChildren

(* The layers by which Revealed is computed. *)
LEMMA LayersExist ==
  ASSUME NEW d \in Document
  PROVE  \E w \in [0..Cardinality(Node) -> SUBSET Node] :
            /\ w[0] = {Root}
            /\ \A k \in 1..Cardinality(Node) : w[k] = Grow(d, w[k - 1])
            /\ Revealed(d) = w[Cardinality(Node)]
<1> DEFINE N == Cardinality(Node)
           step == [k \in Nat |-> [S \in SUBSET Node |-> Grow(d, S)]]
           Eqn(w) == w = [k \in 0..N |->
                            IF k = 0
                              THEN {Root}
                              ELSE UNION {{n} \cup PlainChildren(d, n) \cup DisclosedChildren(d, n) :
                                            n \in w[k - 1]}]
<1>1. N \in Nat
  BY NodesFinite, FS_CardinalityType
<1>2. step \in [Nat -> [SUBSET Node -> SUBSET Node]]
  <2>1. \A S \in SUBSET Node : Grow(d, S) \in SUBSET Node
    BY ChildrenTyped DEF Grow
  <2> QED
    BY <2>1
<1>3. {Root} \in SUBSET Node
  BY RootIsNode
<1> HIDE DEF step, N
<1>4. PICK f \in [0..N -> SUBSET Node] :
        f[0] = {Root} /\ \A k \in 1..N : f[k] = step[k][f[k - 1]]
  <2>1. \E f : IsRecursion(f, SUBSET Node, {Root}, step, N)
    BY <1>1, <1>2, <1>3, RecursionExists
  <2> QED
    BY <2>1 DEF IsRecursion
<1>5. \A k \in 1..N : f[k] = Grow(d, f[k - 1])
  <2> TAKE k \in 1..N
  <2>1. k - 1 \in 0..N /\ k \in Nat
    BY <1>1
  <2>2. k \in Nat /\ f[k - 1] \in SUBSET Node
    BY <2>1
  <2>3. step[k][f[k - 1]] = Grow(d, f[k - 1])
    BY <2>2 DEF step
  <2> QED
    BY <1>4, <2>3
<1>6. Eqn(f)
  <2>1. \A k \in 0..N : k # 0 => k \in 1..N
    BY <1>1
  <2>2. \A k \in 0..N : f[k] = IF k = 0 THEN {Root} ELSE Grow(d, f[k - 1])
    BY <1>4, <1>5, <2>1
  <2> QED
    BY <2>2 DEF Grow
<1>7. PICK w : Eqn(w) /\ Revealed(d) = w[N]
  BY <1>6, Zenon DEF Revealed, N
<1>8. \A k \in 0..N : w[k] = IF k = 0 THEN {Root} ELSE Grow(d, w[k - 1])
  BY <1>7, Zenon DEF Grow
<1>9. /\ DOMAIN w = 0..N /\ w = [k \in DOMAIN w |-> w[k]]
      /\ w[0] = {Root} /\ \A k \in 1..N : w[k] = Grow(d, w[k - 1])
  <2>1. 0 \in 0..N /\ \A k \in 1..N : k \in 0..N /\ k # 0
    BY <1>1
  <2>2. DOMAIN w = 0..N /\ w = [k \in DOMAIN w |-> w[k]]
    BY <1>7
  <2> QED
    BY <1>8, <2>1, <2>2
<1>10. \A k \in 0..N : w[k] \in SUBSET Node
  <2> DEFINE M == {k \in Nat : k \in 0..N => w[k] \in SUBSET Node}
  <2>1. 0 \in M
    BY <1>3, <1>9
  <2>2. ASSUME NEW k \in Nat, k \in M PROVE k + 1 \in M
    <3> SUFFICES ASSUME k + 1 \in 0..N PROVE w[k + 1] \in SUBSET Node
      OBVIOUS
    <3>1. k \in 0..N /\ k + 1 \in 1..N /\ (k + 1) - 1 = k
      BY <1>1
    <3>2. w[k] \in SUBSET Node /\ w[k + 1] = Grow(d, w[k])
      BY <1>9, <2>2, <3>1
    <3> QED
      BY <3>2, ChildrenTyped DEF Grow
  <2> HIDE DEF M
  <2>3. Nat \subseteq M
    BY <2>1, <2>2, SetInduction
  <2> QED
    BY <2>3, <1>1 DEF M
<1>11. w \in [0..N -> SUBSET Node]
  BY <1>9, <1>10
<1> QED
  BY <1>7, <1>9, <1>11 DEF N


LEMMA GrowFacts ==
  ASSUME NEW d \in Document, NEW S \in SUBSET Node
  PROVE  S \subseteq Grow(d, S) /\ Grow(d, S) \in SUBSET Node
BY ChildrenTyped DEF Grow

LEMMA GrowMonotonic ==
  ASSUME NEW d, NEW S, NEW T, S \subseteq T
  PROVE  Grow(d, S) \subseteq Grow(d, T)
BY DEF Grow

(* The revealed nodes are closed, and the least that are and hold the root. *)
LEMMA RevealedFixed ==
  ASSUME NEW d \in Document
  PROVE  LeastClosed(Revealed(d), [S \in SUBSET Node |-> Grow(d, S)], Node, Root)
<1> DEFINE N == Cardinality(Node)
           G == [S \in SUBSET Node |-> Grow(d, S)]
<1>1. PICK w \in [0..N -> SUBSET Node] :
         w[0] = {Root} /\ (\A k \in 1..N : w[k] = Grow(d, w[k - 1])) /\ Revealed(d) = w[N]
  BY LayersExist
<1>2. GrowsIn(G, Node)
  BY GrowFacts, GrowMonotonic DEF GrowsIn
<1>3. \A k \in 1..N : w[k] = G[w[k - 1]]
  <2>1. N \in Nat
    BY NodesFinite, FS_CardinalityType
  <2>2. \A k \in 1..N : k - 1 \in 0..N
    BY <2>1
  <2> QED
    BY <1>1, <2>2
<1> HIDE DEF G
<1>4. AreLayers(w, G, Node, Root)
  BY <1>1, <1>3 DEF AreLayers
<1>5. LeastClosed(w[N], G, Node, Root)
  BY <1>2, <1>4, NodesFinite, RootIsNode, LayersClosed
<1> QED
  BY <1>1, <1>5 DEF G

LEMMA RevealedClosed ==
  ASSUME NEW d \in Document
  PROVE  /\ Root \in Revealed(d) /\ Revealed(d) \subseteq Node
         /\ Grow(d, Revealed(d)) \subseteq Revealed(d)
BY RevealedFixed DEF LeastClosed

(* Whatever holds the root and is closed holds every revealed node. *)
LEMMA RevealedLeast ==
  ASSUME NEW d \in Document, NEW S \in SUBSET Node, Root \in S, Grow(d, S) \subseteq S
  PROVE  Revealed(d) \subseteq S
BY RevealedFixed DEF LeastClosed

(* What position i adds to the items of array n before it. *)
ItemAdded(d, n, i, s) ==
  LET m == d.items[n][i]
      g == d.hides[m]
  IN  IF d.kind[m] # "ph" THEN Append(s, m)
      ELSE IF g \in Presented(d) THEN Append(s, DisclosureOf(d, g).value) ELSE s

(* The prefixes of an array's expected items follow its positions. *)
LEMMA ItemsByPosition ==
  ASSUME NEW d \in Document, NEW n \in Node
  PROVE  /\ ItemsUpTo(d, n)[0] = <<>>
         /\ \A i \in 1..Len(d.items[n]) :
              ItemsUpTo(d, n)[i] = ItemAdded(d, n, i, ItemsUpTo(d, n)[i - 1])
<1> DEFINE N == Len(d.items[n])
           Add(i, s) == IF i \in 1..N THEN ItemAdded(d, n, i, s) ELSE s
           step == [i \in Nat |-> [s \in Seq(Node) |-> Add(i, s)]]
           Eqn(w) == w = [i \in 0..N |->
                            IF i = 0
                              THEN <<>>
                              ELSE LET m == d.items[n][i]
                                       g == d.hides[m]
                                   IN  IF d.kind[m] # "ph" THEN Append(w[i - 1], m)
                                       ELSE IF g \in Presented(d)
                                              THEN Append(w[i - 1], DisclosureOf(d, g).value)
                                              ELSE w[i - 1]]
<1>1. N \in Nat /\ d.items[n] \in Seq(Node)
  BY DocFacts
<1>2. step \in [Nat -> [Seq(Node) -> Seq(Node)]]
  <2>1. ASSUME NEW i \in Nat, NEW s \in Seq(Node) PROVE Add(i, s) \in Seq(Node)
    <3> SUFFICES ASSUME i \in 1..N PROVE ItemAdded(d, n, i, s) \in Seq(Node)
      OBVIOUS
    <3>1. d.items[n][i] \in Node
      BY <1>1
    <3>2. \A g \in Presented(d) : DisclosureOf(d, g).value \in Node
      BY DisclosureFacts DEF Disclosure
    <3> QED
      BY <3>1, <3>2 DEF ItemAdded
  <2> HIDE DEF Add
  <2> QED
    BY <2>1
<1>3. <<>> \in Seq(Node)
  OBVIOUS
<1> HIDE DEF step, N, Add
<1>4. PICK f \in [0..N -> Seq(Node)] :
        f[0] = <<>> /\ \A k \in 1..N : f[k] = step[k][f[k - 1]]
  <2>1. \E f : IsRecursion(f, Seq(Node), <<>>, step, N)
    BY <1>1, <1>2, <1>3, RecursionExists
  <2> QED
    BY <2>1 DEF IsRecursion
<1>5. \A k \in 1..N : f[k] = ItemAdded(d, n, k, f[k - 1])
  <2> TAKE k \in 1..N
  <2>1. k - 1 \in 0..N
    BY <1>1
  <2>2. k \in Nat /\ f[k - 1] \in Seq(Node)
    BY <2>1
  <2>3. step[k][f[k - 1]] = Add(k, f[k - 1])
    BY <2>2 DEF step
  <2> QED
    BY <1>4, <2>3 DEF Add
<1>6. Eqn(f)
  <2>1. \A k \in 0..N : k # 0 => k \in 1..N
    BY <1>1
  <2>2. \A k \in 0..N : f[k] = IF k = 0 THEN <<>> ELSE ItemAdded(d, n, k, f[k - 1])
    BY <1>4, <1>5, <2>1
  <2> QED
    BY <2>2, Zenon DEF ItemAdded
<1>7. PICK w : Eqn(w) /\ ItemsUpTo(d, n) = w
  BY <1>6, Zenon DEF ItemsUpTo, N
<1>8. \A k \in 0..N : w[k] = IF k = 0 THEN <<>> ELSE ItemAdded(d, n, k, w[k - 1])
  BY <1>7, Zenon DEF ItemAdded
<1>9. 0 \in 0..N /\ \A k \in 1..N : k \in 0..N /\ k # 0
  BY <1>1
<1> QED
  BY <1>7, <1>8, <1>9 DEF N

-----------------------------------------------------------------------------
(* The invariant of a running call: what has been visited, which places    *)
(* were passed, and what each pending result is worth.                     *)

(* Node n has been entered: it is being processed, or resolved.            *)
Visited(n) == n \in DOMAIN resolved \/ \E p \in 1..Len(stack) : stack[p].node = n

(* Key k of object n has been taken up. *)
KeyTaken(n, k) ==
  n \in DOMAIN resolved \/ \E p \in 1..Len(stack) : stack[p].node = n /\ k \notin stack[p].todo

(* Position i of n has been passed. *)
Passed(n, i) ==
  n \in DOMAIN resolved \/ \E p \in 1..Len(stack) : stack[p].node = n /\ i < stack[p].next

(* Place x of n, a key or a position in clear, has been taken up. *)
Taken(n, x) == IF doc.kind[n] = "obj" THEN KeyTaken(n, x) ELSE Passed(n, x)

(* Visited nodes are revealed, from the root on. *)
VisitsRevealed ==
  /\ \A n \in Node : Visited(n) => n \in Revealed(doc)
  /\ stack[1].node = Root /\ stack[1].slot.digest = NoDigest

(* A node is visited exactly when its only place was taken up. *)
VisitedByPlace ==
  /\ \A n \in Node : \A x \in PlainAt(doc, n) : Taken(n, x) <=> Visited(ChildAt(doc, n, x))
  /\ \A g \in Presented(doc) : g \in usedDigests <=> Visited(DisclosureOf(doc, g).value)

(* The digests used are those of the places passed, each passed once. *)
DigestsOfPassed ==
  /\ \A g \in usedDigests : \E n \in Node : \E i \in Embeds(doc, n) :
        Passed(n, i) /\ EmbeddedAt(doc, n, i) = g
  /\ \A n \in Node : \A i \in Embeds(doc, n) : Passed(n, i) => EmbeddedAt(doc, n, i) \in usedDigests
  /\ \A m, n \in Node : \A i \in Embeds(doc, m), j \in Embeds(doc, n) :
        Passed(m, i) /\ Passed(n, j) /\ EmbeddedAt(doc, m, i) = EmbeddedAt(doc, n, j)
        => m = n /\ i = j

(* Every disclosure opened is recorded as used, or is about to be. *)
OpenedRecorded ==
  /\ \A p \in 1..Len(stack) : stack[p].slot.digest \in usedDigests \cup {NoDigest}
  /\ usedDisclosures \subseteq usedDigests
  /\ \A g \in usedDigests \cap Presented(doc) :
        g \in usedDisclosures \/ \E p \in 1..Len(stack) : stack[p].slot.digest = g

(* What passing a place has established about it. *)
PlaceOK(d, n, i) ==
  /\ d.kind[n] = "arr" => ~d.malformed[d.items[n][i]]
  /\ EmbeddedAt(d, n, i) \in Presented(d) => LegalIn(d, n, EmbeddedAt(d, n, i))

NameAt(d, n, i) == DisclosureOf(d, d.sd[n][i]).name

PassedOK ==
  /\ \A n \in Node : \A i \in Embeds(doc, n) : Passed(n, i) => PlaceOK(doc, n, i)
  /\ \A n \in Node : doc.kind[n] = "obj" =>
       \A i, j \in DOMAIN doc.sd[n] :
         /\ Passed(n, i) /\ doc.sd[n][i] \in Presented(doc)
         /\ Passed(n, j) /\ doc.sd[n][j] \in Presented(doc)
         /\ NameAt(doc, n, i) = NameAt(doc, n, j)
         => i = j

(* Positions of object n before i that a presented disclosure opens. *)
OpenedBefore(d, n, i) == {j \in DOMAIN d.sd[n] : j < i /\ d.sd[n][j] \in Presented(d)}

(* The map an object's call has built when todo is left and i is next. *)
ClaimsSoFar(d, n, todo, i, claims) ==
  /\ DOMAIN claims = (DOMAIN d.props[n] \ todo) \cup {NameAt(d, n, j) : j \in OpenedBefore(d, n, i)}
  /\ \A k \in DOMAIN d.props[n] \ todo : claims[k] = d.props[n][k]
  /\ \A j \in OpenedBefore(d, n, i) :
        claims[NameAt(d, n, j)] = DisclosureOf(d, d.sd[n][j]).value

(* The items an array's call has collected when i is next. *)
ItemsSoFar(d, n, i, items) == i <= Len(d.items[n]) + 1 /\ items = ItemsUpTo(d, n)[i - 1]

(* Result r is what todo and the next position i leave behind of n's. *)
SoFar(d, n, todo, i, r) ==
  /\ IF d.kind[n] = "obj" THEN ClaimsSoFar(d, n, todo, i, r.claims) ELSE r.claims = <<>>
  /\ IF d.kind[n] = "arr" THEN ItemsSoFar(d, n, i, r.items) ELSE r.items = <<>>

CallSoFar(f, r) == SoFar(doc, f.node, f.todo, f.next, r)

(* The result of f once its callee c has returned. *)
After(f, c) == Attach(f.result, c.slot.label, c.node)

CallsSoFar ==
  /\ \A p \in 1..Len(stack) - 1 : CallSoFar(stack[p], After(stack[p], stack[p + 1]))
  /\ CallSoFar(top, top.result)

(* What returning from a node has established about it. *)
ResolvedOK ==
  \A n \in DOMAIN resolved :
    /\ doc.kind[n] # "ph" /\ (doc.kind[n] = "obj" => ~doc.malformed[n])
    /\ resolved[n] = Expected(doc, n)

RunInv ==
  /\ InputOK
  /\ VisitsOnce /\ VisitsRevealed /\ VisitedByPlace
  /\ DigestsOfPassed /\ OpenedRecorded
  /\ PassedOK /\ CallsSoFar /\ ResolvedOK

(* The verdict on a document, as far as it is known. *)
ExactInv ==
  /\ status = "called" => resolved = <<>> /\ usedDigests = {} /\ usedDisclosures = {}
  /\ status = "running" => RunInv
  /\ status # "running" => stack = <<>>
  /\ VerdictExact /\ ResultExact

-----------------------------------------------------------------------------
(* What calling, moving on and returning do to what is visited and passed. *)

(* The stack after a call. *)
LEMMA PushShape ==
  ASSUME IInv, status = "running", NEW caller \in Call, NEW child \in Call,
         stack' = Push(caller, child)
  PROVE  /\ Len(stack') = Len(stack) + 1
         /\ \A p \in 1..Len(stack) - 1 : stack'[p] = stack[p]
         /\ stack'[Len(stack)] = caller /\ stack'[Len(stack) + 1] = child
BY TopFacts DEF Push, Continue

(* The stack after the innermost call moved on. *)
LEMMA ContinueShape ==
  ASSUME IInv, status = "running", NEW caller \in Call, stack' = Continue(caller)
  PROVE  /\ Len(stack') = Len(stack)
         /\ \A p \in 1..Len(stack) - 1 : stack'[p] = stack[p]
         /\ stack'[Len(stack)] = caller
BY TopFacts DEF Continue

(* The stack after a return: the caller has its callee's value. *)
LEMMA ReturnShape ==
  ASSUME IInv, Return, NEW parent, parent = stack[Len(stack) - 1]
  PROVE  /\ parent \in Call
         /\ Len(stack') = Len(stack) - 1 /\ Len(stack) - 1 \in Nat \ {0}
         /\ \A p \in 1..Len(stack) - 2 : stack'[p] = stack[p]
         /\ stack'[Len(stack) - 1] = [parent EXCEPT !.result = After(parent, top)]
         /\ stack'[Len(stack) - 1] \in Call
<1>1. status = "running" /\ Len(stack) > 1
  BY DEF Return, Running
<1>2. stack \in Seq(Call) /\ top \in Call
  BY <1>1, TopFacts
<1>3. PICK n \in Nat \ {0} : Len(stack) = n + 1 /\ Len(stack) - 1 = n
  <2>1. \A l \in Nat : l > 1 => l - 1 \in Nat \ {0} /\ l = (l - 1) + 1
    OBVIOUS
  <2>2. Len(stack) \in Nat
    BY <1>2
  <2> QED
    BY <1>1, <2>1, <2>2
<1>4. parent \in Call
  BY <1>2, <1>3
<1> DEFINE caller == [parent EXCEPT !.result = After(parent, top)]
<1>5. caller \in Call
  <2>1. After(parent, top) \in Result
    BY <1>2, <1>4, AttachTyped DEF Call, Slot, After
  <2> QED
    BY <1>4, <2>1 DEF Call
<1>6. stack' = [SubSeq(stack, 1, n) EXCEPT ![n] = caller]
  BY <1>3 DEF Return, After
<1> HIDE DEF caller
<1>7. Len(stack') = n /\ stack'[n] = caller /\ \A p \in 1..n - 1 : stack'[p] = stack[p]
  BY <1>2, <1>3, <1>5, <1>6, PopReplace
<1>8. Len(stack) - 2 = n - 1
  BY <1>3
<1> QED
  BY <1>3, <1>4, <1>5, <1>7, <1>8 DEF caller

(* A call of Visit(n, slot) visits n; its caller takes up what it skips.   *)
LEMMA PushView ==
  ASSUME IInv, status = "running",
         NEW caller \in Call, NEW n \in Node, NEW slot \in Slot,
         stack' = Push(caller, Visit(n, slot)), UNCHANGED <<doc, resolved>>,
         caller.node = top.node, caller.slot = top.slot,
         caller.todo \subseteq top.todo, caller.next \in {top.next, top.next + 1}
  PROVE  /\ \A m : Visited(m)' <=> Visited(m) \/ m = n
         /\ \A m \in Node : doc.kind[m] = "obj" => \A k \in DOMAIN doc.props[m] :
              KeyTaken(m, k)' <=> KeyTaken(m, k) \/ (m = top.node /\ k \notin caller.todo)
         /\ \A m, i : i \in Nat \ {0} =>
              (Passed(m, i)' <=> Passed(m, i) \/ (m = top.node /\ i < caller.next))
         /\ \A p \in 1..Len(stack) : stack'[p].node = stack[p].node /\ stack'[p].slot = stack[p].slot
         /\ Len(stack') = Len(stack) + 1
         /\ stack'[Len(stack) + 1].node = n /\ stack'[Len(stack) + 1].slot = slot
<1> DEFINE l == Len(stack)
           child == Visit(n, slot)
<1>1. l \in Nat \ {0} /\ doc \in Document /\ top = stack[l] /\ top \in Call
  BY TopFacts
<1>2. /\ child \in Call /\ child.node = n /\ child.slot = slot /\ child.next = 1
      /\ doc.kind[n] = "obj" => child.todo = DOMAIN doc.props[n]
  BY <1>1, VisitTyped DEF Visit
<1> HIDE DEF child
<1>3. /\ Len(stack') = l + 1 /\ \A p \in 1..l - 1 : stack'[p] = stack[p]
      /\ stack'[l] = caller /\ stack'[l + 1] = child
  BY <1>2, PushShape DEF child
<1>4. \A p \in 1..l + 1 : p \in 1..l - 1 \/ p = l \/ p = l + 1
  BY <1>1
<1>5. \A p \in 1..l : (p \in 1..l - 1 \/ p = l) /\ p \in 1..l + 1
  BY <1>1
<1>6. l \in 1..l + 1 /\ l + 1 \in 1..l + 1 /\ l \in 1..l
  BY <1>1
<1>7. \A p \in 1..l : stack'[p].node = stack[p].node /\ stack'[p].slot = stack[p].slot
  BY <1>1, <1>3, <1>5
<1>8. ASSUME NEW m PROVE Visited(m)' <=> Visited(m) \/ m = n
  <2>1. ASSUME Visited(m)' PROVE Visited(m) \/ m = n
    BY <1>1, <1>2, <1>3, <1>4, <1>5, <1>7, <2>1 DEF Visited
  <2>2. ASSUME Visited(m) PROVE Visited(m)'
    BY <1>3, <1>5, <1>7, <2>2 DEF Visited
  <2>3. Visited(n)'
    BY <1>2, <1>3, <1>6 DEF Visited
  <2> QED
    BY <2>1, <2>2, <2>3
<1>9. ASSUME NEW m \in Node, doc.kind[m] = "obj", NEW k \in DOMAIN doc.props[m]
      PROVE  KeyTaken(m, k)' <=> KeyTaken(m, k) \/ (m = top.node /\ k \notin caller.todo)
  <2>1. ASSUME KeyTaken(m, k)' PROVE KeyTaken(m, k) \/ (m = top.node /\ k \notin caller.todo)
    BY <1>1, <1>2, <1>3, <1>4, <1>5, <1>9, <2>1 DEF KeyTaken
  <2>2. ASSUME KeyTaken(m, k) PROVE KeyTaken(m, k)'
    BY <1>1, <1>3, <1>5, <2>2 DEF KeyTaken
  <2>3. ASSUME m = top.node, k \notin caller.todo PROVE KeyTaken(m, k)'
    BY <1>1, <1>3, <1>6, <2>3 DEF KeyTaken
  <2> QED
    BY <2>1, <2>2, <2>3
<1>10. ASSUME NEW m, NEW i \in Nat \ {0}
       PROVE  Passed(m, i)' <=> Passed(m, i) \/ (m = top.node /\ i < caller.next)
  <2>1. ASSUME Passed(m, i)' PROVE Passed(m, i) \/ (m = top.node /\ i < caller.next)
    BY <1>1, <1>2, <1>3, <1>4, <1>5, <2>1 DEF Passed
  <2>2. ASSUME Passed(m, i) PROVE Passed(m, i)'
    <3>1. top.next \in Nat /\ (i < top.next => i < caller.next)
      BY <1>1 DEF Call
    <3> QED
      BY <1>1, <1>3, <1>5, <2>2, <3>1 DEF Passed
  <2>3. ASSUME m = top.node, i < caller.next PROVE Passed(m, i)'
    BY <1>1, <1>3, <1>6, <2>3 DEF Passed
  <2> QED
    BY <2>1, <2>2, <2>3
<1> QED
  BY <1>2, <1>3, <1>7, <1>8, <1>9, <1>10

(* Passing a withheld digest visits nothing. *)
LEMMA SkipView ==
  ASSUME IInv, status = "running", stack' = Continue(Advanced), UNCHANGED <<doc, resolved>>
  PROVE  /\ \A m : Visited(m)' <=> Visited(m)
         /\ \A m, k : KeyTaken(m, k)' <=> KeyTaken(m, k)
         /\ \A m, i : i \in Nat \ {0} =>
              (Passed(m, i)' <=> Passed(m, i) \/ (m = top.node /\ i < Advanced.next))
         /\ \A p \in 1..Len(stack) : stack'[p].node = stack[p].node /\ stack'[p].slot = stack[p].slot
         /\ Len(stack') = Len(stack)
<1> DEFINE l == Len(stack)
<1>1. /\ l \in Nat \ {0} /\ doc \in Document /\ top = stack[l] /\ top \in Call
      /\ Advanced \in Call /\ Advanced.node = top.node /\ Advanced.slot = top.slot
      /\ Advanced.todo = top.todo /\ Advanced.next = top.next + 1
  BY TopFacts DEF Advanced, Call
<1>2. /\ Len(stack') = l /\ \A p \in 1..l - 1 : stack'[p] = stack[p]
      /\ stack'[l] = Advanced
  BY <1>1, ContinueShape
<1>3. l \in 1..l /\ \A p \in 1..l : p \in 1..l - 1 \/ p = l
  BY <1>1
<1>4. \A p \in 1..l : /\ stack'[p].node = stack[p].node /\ stack'[p].slot = stack[p].slot
                      /\ stack'[p].todo = stack[p].todo
  BY <1>1, <1>2, <1>3
<1>5. \A m : Visited(m)' <=> Visited(m)
  BY <1>2, <1>4 DEF Visited
<1>6. \A m, k : KeyTaken(m, k)' <=> KeyTaken(m, k)
  BY <1>2, <1>4 DEF KeyTaken
<1>7. ASSUME NEW m, NEW i \in Nat \ {0}
      PROVE  Passed(m, i)' <=> Passed(m, i) \/ (m = top.node /\ i < Advanced.next)
  <2>1. ASSUME Passed(m, i)' PROVE Passed(m, i) \/ (m = top.node /\ i < Advanced.next)
    BY <1>1, <1>2, <1>3, <2>1 DEF Passed
  <2>2. ASSUME Passed(m, i) PROVE Passed(m, i)'
    <3>1. top.next \in Nat /\ (i < top.next => i < Advanced.next)
      BY <1>1 DEF Call
    <3> QED
      BY <1>1, <1>2, <1>3, <2>2, <3>1 DEF Passed
  <2>3. ASSUME m = top.node, i < Advanced.next PROVE Passed(m, i)'
    BY <1>1, <1>2, <1>3, <2>3 DEF Passed
  <2> QED
    BY <2>1, <2>2, <2>3
<1> QED
  BY <1>2, <1>4, <1>5, <1>6, <1>7

(* The positions of node n that its call passes. *)
Positions(d, n) ==
  IF d.kind[n] = "obj" THEN DOMAIN d.sd[n] ELSE IF d.kind[n] = "arr" THEN DOMAIN d.items[n] ELSE {}

(* A call that is finished has taken up all its places. *)
LEMMA FinishedAll ==
  ASSUME IInv, status = "running", Finished
  PROVE  /\ kindOf = "obj" => top.todo = {} /\ ~doc.malformed[top.node]
         /\ kindOf # "ph"
         /\ \A i \in Positions(doc, top.node) : i < top.next
<1>1. top \in Call /\ top.node \in Node /\ doc \in Document /\ top.next \in Nat
  BY TopFacts DEF Call
<1>2. doc.sd[top.node] \in Seq(Digest) /\ doc.items[top.node] \in Seq(Node)
  BY <1>1, DocFacts
<1>3. \A i \in DOMAIN doc.sd[top.node] : i \in Nat /\ i <= Len(doc.sd[top.node])
  BY <1>2
<1>4. \A i \in DOMAIN doc.items[top.node] : i \in Nat /\ i <= Len(doc.items[top.node])
  BY <1>2
<1>5. Len(doc.sd[top.node]) \in Nat /\ Len(doc.items[top.node]) \in Nat
  BY <1>2
<1> QED
  BY <1>1, <1>3, <1>4, <1>5 DEF Finished, Positions, kindOf, AtItem

(* A return resolves its node and takes up nothing. *)
LEMMA ReturnView ==
  ASSUME IInv, Return
  PROVE  /\ \A m : Visited(m)' <=> Visited(m)
         /\ \A m \in Node : doc.kind[m] = "obj" => \A k : KeyTaken(m, k)' <=> KeyTaken(m, k)
         /\ \A m \in Node : \A i \in Positions(doc, m) : Passed(m, i)' <=> Passed(m, i)
         /\ \A p \in 1..Len(stack) - 1 :
              stack'[p].node = stack[p].node /\ stack'[p].slot = stack[p].slot
         /\ Len(stack') = Len(stack) - 1 /\ Len(stack) - 1 \in Nat \ {0}
         /\ DOMAIN resolved' = DOMAIN resolved \cup {top.node}
<1> DEFINE l == Len(stack) - 1
           parent == stack[l]
<1>1. status = "running" /\ Finished /\ resolved' = Bind(resolved, top.node, top.result)
  BY DEF Return, Running
<1>2. top = stack[Len(stack)] /\ Len(stack) = l + 1 /\ top \in Call
  BY <1>1, TopFacts
<1>3. /\ parent \in Call /\ Len(stack') = l /\ l \in Nat \ {0}
      /\ \A p \in 1..Len(stack) - 2 : stack'[p] = stack[p]
      /\ stack'[l] = [parent EXCEPT !.result = After(parent, top)]
  BY ReturnShape
<1>4. /\ stack'[l].node = parent.node /\ stack'[l].slot = parent.slot
      /\ stack'[l].todo = parent.todo /\ stack'[l].next = parent.next
  BY <1>3 DEF Call
<1> HIDE DEF l
<1>5. \A p \in 1..l : p \in 1..Len(stack) - 2 \/ p = l
  BY <1>2, <1>3
<1>6. \A p \in 1..l : /\ stack'[p].node = stack[p].node /\ stack'[p].slot = stack[p].slot
                      /\ stack'[p].todo = stack[p].todo /\ stack'[p].next = stack[p].next
  BY <1>3, <1>4, <1>5
<1>7. \A p \in 1..l + 1 : p \in 1..l \/ p = l + 1
  BY <1>3
<1>8. l + 1 \in 1..l + 1 /\ \A p \in 1..l : p \in 1..l + 1
  BY <1>3
<1>9. DOMAIN resolved' = DOMAIN resolved \cup {top.node}
  BY <1>1 DEF Bind
<1>10. \A m : Visited(m)' <=> Visited(m)
  BY <1>2, <1>3, <1>6, <1>7, <1>8, <1>9 DEF Visited
<1>11. kindOf = "obj" => top.todo = {}
  BY <1>1, FinishedAll
<1>12. ASSUME NEW m \in Node, doc.kind[m] = "obj", NEW k PROVE KeyTaken(m, k)' <=> KeyTaken(m, k)
  BY <1>2, <1>3, <1>6, <1>7, <1>8, <1>9, <1>11, <1>12 DEF KeyTaken, kindOf
<1>13. ASSUME NEW m \in Node, NEW i \in Positions(doc, m) PROVE Passed(m, i)' <=> Passed(m, i)
  <2>1. m = top.node => i < top.next
    BY <1>1, FinishedAll
  <2> QED
    BY <1>2, <1>3, <1>6, <1>7, <1>8, <1>9, <2>1 DEF Passed
<1> QED
  BY <1>3, <1>6, <1>9, <1>10, <1>12, <1>13 DEF l

-----------------------------------------------------------------------------
(* Facts about trees, and about the place the innermost call looks at. *)

LEMMA TreeFacts ==
  ASSUME NEW d \in Document
  PROVE  /\ \A m, n \in Node : \A x \in PlainAt(d, m), y \in PlainAt(d, n) :
              ChildAt(d, m, x) = ChildAt(d, n, y) => m = n /\ x = y
         /\ \A g, h \in Presented(d) :
              DisclosureOf(d, g).value = DisclosureOf(d, h).value => g = h
         /\ \A n \in Node : \A x \in PlainAt(d, n) :
              /\ ChildAt(d, n, x) # Root
              /\ \A g \in Presented(d) : ChildAt(d, n, x) # DisclosureOf(d, g).value
         /\ \A g \in Presented(d) : DisclosureOf(d, g).value # Root
<1>1. IsTree(d)
  BY DEF Document
<1>2. \A n \in Node : \A x \in PlainAt(d, n) :
         /\ ChildAt(d, n, x) # Root
         /\ \A g \in Presented(d) : ChildAt(d, n, x) # DisclosureOf(d, g).value
  <2> TAKE n \in Node
  <2> TAKE x \in PlainAt(d, n)
  <2>1. PlainChildren(d, n) \cap ({Root} \cup DisclosedValues(d)) = {}
    BY <1>1 DEF IsTree
  <2>2. ChildAt(d, n, x) \in PlainChildren(d, n)
    BY DEF PlainChildren
  <2>3. \A g \in Presented(d) : DisclosureOf(d, g).value \in DisclosedValues(d)
    BY DEF DisclosedValues
  <2> QED
    BY <2>1, <2>2, <2>3
<1>3. \A g \in Presented(d) : DisclosureOf(d, g).value # Root
  BY <1>1 DEF IsTree, DisclosedValues
<1> QED
  BY <1>1, <1>2, <1>3 DEF IsTree

(* Embedding positions are positions; a key or item in clear is no embedding. *)
LEMMA PositionFacts ==
  ASSUME NEW d \in Document, NEW n \in Node
  PROVE  /\ Embeds(d, n) \subseteq Positions(d, n)
         /\ Positions(d, n) \subseteq Nat \ {0}
         /\ d.kind[n] = "arr" => /\ PlainAt(d, n) \subseteq Positions(d, n)
                                   /\ PlainAt(d, n) \cap Embeds(d, n) = {}
         /\ d.kind[n] = "obj" => PlainAt(d, n) = DOMAIN d.props[n]
         /\ d.kind[n] \notin {"obj", "arr"} => PlainAt(d, n) = {} /\ Embeds(d, n) = {}
<1>1. d.sd[n] \in Seq(Digest) /\ d.items[n] \in Seq(Node)
  BY DocFacts
<1>2. DOMAIN d.sd[n] \subseteq Nat \ {0} /\ DOMAIN d.items[n] \subseteq Nat \ {0}
  BY <1>1
<1> QED
  BY <1>2 DEF Embeds, Positions, PlainAt

(* The innermost call has not taken up what it has left, and passed the rest. *)
LEMMA TopPlaces ==
  ASSUME IInv, RunInv, status = "running"
  PROVE  /\ \A k \in top.todo : ~KeyTaken(top.node, k)
         /\ \A k : k \notin top.todo => KeyTaken(top.node, k)
         /\ \A i \in Nat : Passed(top.node, i) <=> i < top.next
         /\ top.node \notin DOMAIN resolved
         /\ Visited(top.node)
<1> DEFINE l == Len(stack)
<1>1. l \in Nat \ {0} /\ top = stack[l]
  BY TopFacts
<1>2. l \in 1..l
  BY <1>1
<1>3. /\ \A p \in 1..l : stack[p].node = top.node => p = l
      /\ top.node \notin DOMAIN resolved
  BY <1>1, <1>2 DEF RunInv, VisitsOnce
<1> QED
  BY <1>1, <1>2, <1>3 DEF KeyTaken, Passed, Visited

(* The digest the innermost call looks at is the one at its next position. *)
LEMMA AtDigestFacts ==
  ASSUME IInv, status = "running", NEW g, AtDigest(g)
  PROVE  /\ top.next \in Embeds(doc, top.node)
         /\ EmbeddedAt(doc, top.node, top.next) = g /\ g \in Digest
         /\ \/ /\ kindOf = "obj" /\ top.todo = {} /\ top.next \in DOMAIN doc.sd[top.node]
               /\ doc.sd[top.node][top.next] = g /\ ~doc.malformed[top.node]
            \/ /\ kindOf = "arr" /\ top.next \in 1..Len(doc.items[top.node])
               /\ doc.kind[item] = "ph" /\ doc.hides[item] = g /\ ~doc.malformed[item]
<1>1. top \in Call /\ top.node \in Node /\ doc \in Document /\ top.next \in Nat \ {0}
  BY TopFacts DEF Call
<1>2. doc.sd[top.node] \in Seq(Digest) /\ doc.items[top.node] \in Seq(Node)
  BY <1>1, DocFacts
<1>3. CASE AtDigestOfObject /\ g = doc.sd[top.node][top.next]
  <2>1. top.next \in DOMAIN doc.sd[top.node]
    BY <1>1, <1>2, <1>3 DEF AtDigestOfObject
  <2> QED
    BY <1>2, <1>3, <2>1 DEF AtDigestOfObject, Embeds, EmbeddedAt, kindOf
<1>4. CASE AtPlaceholder /\ ~doc.malformed[item] /\ g = doc.hides[item]
  <2>1. top.next \in 1..Len(doc.items[top.node]) /\ top.next \in DOMAIN doc.items[top.node]
    BY <1>1, <1>2, <1>4 DEF AtPlaceholder, AtItem
  <2>2. item \in Node /\ item = doc.items[top.node][top.next]
    BY <1>2, <2>1 DEF item
  <2>3. doc.hides[item] \in Digest
    BY <1>1, <2>2, DocFacts
  <2> QED
    BY <1>4, <2>1, <2>2, <2>3 DEF AtPlaceholder, AtItem, Embeds, EmbeddedAt, kindOf
<1> QED
  BY <1>3, <1>4 DEF AtDigest

(* Children of visited nodes are revealed. *)
LEMMA ChildrenRevealed ==
  ASSUME NEW d \in Document, NEW n \in Revealed(d)
  PROVE  /\ n \in Node
         /\ \A x \in PlainAt(d, n) : ChildAt(d, n, x) \in Revealed(d)
         /\ \A i \in Embeds(d, n) : EmbeddedAt(d, n, i) \in Presented(d) =>
              DisclosureOf(d, EmbeddedAt(d, n, i)).value \in Revealed(d)
<1>1. n \in Node /\ Grow(d, Revealed(d)) \subseteq Revealed(d)
  BY RevealedClosed
<1>2. PlainChildren(d, n) \cup DisclosedChildren(d, n) \subseteq Revealed(d)
  BY <1>1 DEF Grow
<1> QED
  BY <1>1, <1>2 DEF PlainChildren, DisclosedChildren

-----------------------------------------------------------------------------
(* Visiting a value in clear: its place is new, so the value is, and the   *)
(* digests are what they were.                                             *)

LEMMA PlainVisit ==
  ASSUME IInv, RunInv, status = "running",
         NEW caller \in Call, NEW x \in PlainAt(doc, top.node), NEW n \in Node, NEW slot \in Slot,
         n = ChildAt(doc, top.node, x), slot.digest = NoDigest,
         stack' = Push(caller, Visit(n, slot)),
         UNCHANGED <<doc, resolved, usedDigests, usedDisclosures>>,
         caller.node = top.node, caller.slot = top.slot,
         caller.todo \subseteq top.todo, caller.next \in {top.next, top.next + 1},
         ~Taken(top.node, x),
         \A m \in Node : \A y \in PlainAt(doc, m) :
            Taken(m, y)' <=> Taken(m, y) \/ (m = top.node /\ y = x),
         \A m \in Node : \A i \in Embeds(doc, m) : Passed(m, i)' <=> Passed(m, i)
  PROVE  /\ VisitsOnce' /\ VisitsRevealed' /\ VisitedByPlace'
         /\ DigestsOfPassed' /\ OpenedRecorded' /\ PassedOK' /\ ResolvedOK'
<1> DEFINE l == Len(stack)
<1>1. l \in Nat \ {0} /\ doc \in Document /\ top.node \in Node
  BY TopFacts
<1>2. /\ \A m : Visited(m)' <=> Visited(m) \/ m = n
      /\ \A p \in 1..l : stack'[p].node = stack[p].node /\ stack'[p].slot = stack[p].slot
      /\ Len(stack') = l + 1 /\ stack'[l + 1].node = n /\ stack'[l + 1].slot = slot
  BY PushView
<1>3. /\ \A p \in 1..l + 1 : p \in 1..l \/ p = l + 1
      /\ \A p \in 1..l : p \in 1..l + 1
      /\ 1 \in 1..l
  BY <1>1
<1>4. ~Visited(n)
  BY <1>1 DEF RunInv, VisitedByPlace
<1>5. VisitsOnce'
  <2>1. n \notin DOMAIN resolved /\ \A p \in 1..l : stack[p].node # n
    BY <1>4 DEF Visited
  <2>2. ASSUME NEW p \in 1..l + 1, NEW q \in 1..l + 1, stack'[p].node = stack'[q].node
        PROVE  p = q
    BY <1>2, <1>3, <2>1, <2>2 DEF RunInv, VisitsOnce
  <2>3. \A p \in 1..l + 1 : stack'[p].node \notin DOMAIN resolved
    BY <1>2, <1>3, <2>1 DEF RunInv, VisitsOnce
  <2> QED
    BY <1>2, <2>2, <2>3 DEF VisitsOnce
<1>6. VisitsRevealed'
  <2>1. top.node \in Revealed(doc)
    BY <1>1, TopPlaces DEF RunInv, VisitsRevealed
  <2>2. n \in Revealed(doc)
    BY <1>1, <2>1, ChildrenRevealed
  <2> QED
    BY <1>2, <1>3, <2>2 DEF RunInv, VisitsRevealed
<1>7. VisitedByPlace'
  <2>1. ASSUME NEW m \in Node, NEW y \in PlainAt(doc, m)
        PROVE  Taken(m, y)' <=> Visited(ChildAt(doc, m, y))'
    <3>1. ChildAt(doc, m, y) = n <=> m = top.node /\ y = x
      BY <1>1, TreeFacts
    <3>2. Taken(m, y) <=> Visited(ChildAt(doc, m, y))
      BY DEF RunInv, VisitedByPlace
    <3> QED
      BY <1>2, <3>1, <3>2
  <2>2. ASSUME NEW g \in Presented(doc)
        PROVE  g \in usedDigests <=> Visited(DisclosureOf(doc, g).value)'
    <3>1. DisclosureOf(doc, g).value # n
      BY <1>1, TreeFacts
    <3> QED
      BY <1>2, <3>1 DEF RunInv, VisitedByPlace
  <2> QED
    BY <2>1, <2>2 DEF VisitedByPlace
<1>8. DigestsOfPassed'
  BY DEF RunInv, DigestsOfPassed
<1>9. OpenedRecorded'
  BY <1>2, <1>3 DEF RunInv, OpenedRecorded
<1>10. PassedOK'
  <2>1. \A m \in Node : doc.kind[m] = "obj" => Embeds(doc, m) = DOMAIN doc.sd[m]
    BY DEF Embeds
  <2> QED
    BY <2>1 DEF RunInv, PassedOK
<1>11. ResolvedOK'
  BY DEF RunInv, ResolvedOK
<1> QED
  BY <1>5, <1>6, <1>7, <1>8, <1>9, <1>10, <1>11

(***************************************************************************)
(* Passing a digest not used before: it becomes used, and the place tells  *)
(* apart from every other.                                                 *)
(***************************************************************************)
LEMMA DigestPassed ==
  ASSUME IInv, RunInv, status = "running", UNCHANGED doc,
         NEW g, AtDigest(g), g \notin usedDigests, usedDigests' = usedDigests \cup {g},
         \A m, i : i \in Nat \ {0} =>
            (Passed(m, i)' <=> Passed(m, i) \/ (m = top.node /\ i < top.next + 1))
  PROVE  DigestsOfPassed'
<1>1. /\ doc \in Document /\ top.node \in Node /\ top.next \in Embeds(doc, top.node)
      /\ EmbeddedAt(doc, top.node, top.next) = g
  BY TopFacts, AtDigestFacts
<1>2. \A m \in Node : Embeds(doc, m) \subseteq Nat \ {0}
  BY <1>1, PositionFacts
<1>3. ASSUME NEW m \in Node, NEW i \in Embeds(doc, m)
      PROVE  Passed(m, i)' <=> Passed(m, i) \/ (m = top.node /\ i = top.next)
  <2>1. i \in Nat \ {0} /\ top.next \in Nat \ {0}
    BY <1>1, <1>2
  <2>2. i < top.next + 1 <=> i < top.next \/ i = top.next
    BY <2>1
  <2>3. i < top.next => Passed(top.node, i)
    BY <2>1, TopPlaces
  <2> QED
    BY <2>1, <2>2, <2>3
<1>4. ASSUME NEW m \in Node, NEW i \in Embeds(doc, m), Passed(m, i)
      PROVE  EmbeddedAt(doc, m, i) \in usedDigests
  BY <1>4 DEF RunInv, DigestsOfPassed
<1>5. \A h \in usedDigests' : \E m \in Node : \E i \in Embeds(doc, m) :
         Passed(m, i)' /\ EmbeddedAt(doc, m, i) = h
  <2> TAKE h \in usedDigests'
  <2>1. CASE h = g
    BY <1>1, <1>3, <2>1
  <2>2. CASE h \in usedDigests
    BY <1>3, <2>2 DEF RunInv, DigestsOfPassed
  <2> QED
    BY <2>1, <2>2
<1>6. \A m \in Node : \A i \in Embeds(doc, m) : Passed(m, i)' => EmbeddedAt(doc, m, i) \in usedDigests'
  BY <1>1, <1>3, <1>4
<1>7. ASSUME NEW m \in Node, NEW n \in Node, NEW i \in Embeds(doc, m), NEW j \in Embeds(doc, n),
             Passed(m, i)', Passed(n, j)', EmbeddedAt(doc, m, i) = EmbeddedAt(doc, n, j)
      PROVE  m = n /\ i = j
  <2>1. CASE Passed(m, i) /\ Passed(n, j)
    BY <1>7, <2>1 DEF RunInv, DigestsOfPassed
  <2>2. CASE ~Passed(m, i)
    <3>1. m = top.node /\ i = top.next
      BY <1>3, <1>7, <2>2
    <3>2. ~Passed(n, j)
      BY <1>1, <1>4, <1>7, <3>1
    <3> QED
      BY <1>3, <1>7, <3>1, <3>2
  <2>3. CASE ~Passed(n, j)
    <3>1. n = top.node /\ j = top.next
      BY <1>3, <1>7, <2>3
    <3>2. ~Passed(m, i)
      BY <1>1, <1>4, <1>7, <3>1
    <3> QED
      BY <1>3, <1>7, <3>1, <3>2
  <2> QED
    BY <2>1, <2>2, <2>3
<1> QED
  BY <1>5, <1>6, <1>7 DEF DigestsOfPassed

(* The place passed is fit for what it embeds, and for no name twice. *)
LEMMA PlacePassed ==
  ASSUME IInv, RunInv, status = "running", UNCHANGED doc,
         NEW g, AtDigest(g), g \in Presented(doc) => Fits(DisclosureOf(doc, g)),
         \A m, i : i \in Nat \ {0} =>
            (Passed(m, i)' <=> Passed(m, i) \/ (m = top.node /\ i < top.next + 1))
  PROVE  PassedOK'
<1>1. /\ doc \in Document /\ top.node \in Node /\ top.next \in Embeds(doc, top.node)
      /\ EmbeddedAt(doc, top.node, top.next) = g
  BY TopFacts, AtDigestFacts
<1>2. \A m \in Node : Embeds(doc, m) \subseteq Nat \ {0}
  BY <1>1, PositionFacts
<1>3. ASSUME NEW m \in Node, NEW i \in Embeds(doc, m)
      PROVE  Passed(m, i)' <=> Passed(m, i) \/ (m = top.node /\ i = top.next)
  <2>1. i \in Nat \ {0} /\ top.next \in Nat \ {0}
    BY <1>1, <1>2
  <2>2. i < top.next + 1 <=> i < top.next \/ i = top.next
    BY <2>1
  <2>3. i < top.next => Passed(top.node, i)
    BY <2>1, TopPlaces
  <2> QED
    BY <2>1, <2>2, <2>3
<1>4. kindOf = "obj" =>
        /\ DOMAIN top.result.claims = DOMAIN doc.props[top.node]
             \cup {NameAt(doc, top.node, j) : j \in OpenedBefore(doc, top.node, top.next)}
        /\ top.next \in DOMAIN doc.sd[top.node] /\ doc.sd[top.node][top.next] = g
  <2> SUFFICES ASSUME kindOf = "obj"
               PROVE  /\ DOMAIN top.result.claims = DOMAIN doc.props[top.node]
                           \cup {NameAt(doc, top.node, j) :
                                   j \in OpenedBefore(doc, top.node, top.next)}
                      /\ top.next \in DOMAIN doc.sd[top.node] /\ doc.sd[top.node][top.next] = g
    OBVIOUS
  <2>1. ClaimsSoFar(doc, top.node, top.todo, top.next, top.result.claims)
    BY DEF RunInv, CallsSoFar, CallSoFar, SoFar, kindOf
  <2>2. top.todo = {} /\ top.next \in DOMAIN doc.sd[top.node] /\ doc.sd[top.node][top.next] = g
    BY AtDigestFacts
  <2> QED
    BY <2>1, <2>2 DEF ClaimsSoFar
<1>5. PlaceOK(doc, top.node, top.next)
  <2>1. CASE kindOf = "obj"
    BY <1>1, <1>4, <2>1 DEF PlaceOK, LegalIn, Fits, kindOf
  <2>2. CASE kindOf = "arr"
    BY <1>1, <2>2, AtDigestFacts DEF PlaceOK, LegalIn, Fits, kindOf, item
  <2> QED
    BY <2>1, <2>2, AtDigestFacts
<1>6. \A m \in Node : \A i \in Embeds(doc, m) : Passed(m, i)' => PlaceOK(doc, m, i)
  BY <1>3, <1>5 DEF RunInv, PassedOK
<1>7. ASSUME NEW j \in DOMAIN doc.sd[top.node], kindOf = "obj", g \in Presented(doc),
             Passed(top.node, j), doc.sd[top.node][j] \in Presented(doc)
      PROVE  NameAt(doc, top.node, j) # NameAt(doc, top.node, top.next)
  <2>1. j \in Embeds(doc, top.node) /\ j \in Nat
    BY <1>1, <1>2, <1>7 DEF Embeds, kindOf
  <2>2. j \in OpenedBefore(doc, top.node, top.next)
    BY <1>7, <2>1, TopPlaces DEF OpenedBefore
  <2>3. DisclosureOf(doc, g).name \notin DOMAIN top.result.claims
    BY <1>7 DEF Fits
  <2> QED
    BY <1>4, <1>7, <2>2, <2>3 DEF NameAt
<1>8. ASSUME NEW m \in Node, doc.kind[m] = "obj",
             NEW i \in DOMAIN doc.sd[m], NEW j \in DOMAIN doc.sd[m],
             Passed(m, i)', doc.sd[m][i] \in Presented(doc),
             Passed(m, j)', doc.sd[m][j] \in Presented(doc),
             NameAt(doc, m, i) = NameAt(doc, m, j)
      PROVE  i = j
  <2>1. i \in Embeds(doc, m) /\ j \in Embeds(doc, m)
    BY <1>8 DEF Embeds
  <2>2. CASE Passed(m, i) /\ Passed(m, j)
    BY <1>8, <2>2 DEF RunInv, PassedOK
  <2>3. CASE ~Passed(m, i)
    <3>1. m = top.node /\ i = top.next
      BY <1>3, <1>8, <2>1, <2>3
    <3> QED
      BY <1>3, <1>4, <1>7, <1>8, <2>1, <3>1 DEF kindOf
  <2>4. CASE ~Passed(m, j)
    <3>1. m = top.node /\ j = top.next
      BY <1>3, <1>8, <2>1, <2>4
    <3> QED
      BY <1>3, <1>4, <1>7, <1>8, <2>1, <3>1 DEF kindOf
  <2> QED
    BY <2>2, <2>3, <2>4
<1> QED
  BY <1>6, <1>8 DEF PassedOK

-----------------------------------------------------------------------------
(* What the pending results are worth. *)

(* A new call has built nothing, as it should. *)
LEMMA FreshSoFar ==
  ASSUME doc \in Document, NEW n \in Node, NEW slot \in Slot
  PROVE  CallSoFar(Visit(n, slot), NoResult)
<1> DEFINE f == Visit(n, slot)
<1>1. /\ f.node = n /\ f.next = 1 /\ (doc.kind[n] = "obj" => f.todo = DOMAIN doc.props[n])
      /\ f \in Call
  BY VisitTyped DEF Visit
<1> HIDE DEF f
<1>2. /\ NoResult.claims = [k \in {} |-> k] /\ NoResult.items = <<>>
      /\ NoResult.claims = <<>> /\ DOMAIN NoResult.claims = {}
  <2>1. [k \in {} |-> k] = <<>>
    OBVIOUS
  <2> QED
    BY <2>1 DEF NoResult
<1>3. OpenedBefore(doc, n, 1) = {}
  <2>1. DOMAIN doc.sd[n] \subseteq Nat \ {0}
    BY DocFacts
  <2> QED
    BY <2>1 DEF OpenedBefore
<1>4. doc.kind[n] = "obj" => ClaimsSoFar(doc, n, f.todo, 1, NoResult.claims)
  BY <1>1, <1>2, <1>3 DEF ClaimsSoFar
<1>5. ItemsSoFar(doc, n, 1, NoResult.items)
  <2>1. Len(doc.items[n]) \in Nat
    BY DocFacts
  <2>2. 1 <= Len(doc.items[n]) + 1 /\ 1 - 1 = 0
    BY <2>1
  <2> QED
    BY <1>2, <2>2, ItemsByPosition DEF ItemsSoFar
<1>6. SoFar(doc, n, f.todo, 1, NoResult)
  BY <1>2, <1>4, <1>5 DEF SoFar
<1> QED
  BY <1>1, <1>6 DEF CallSoFar, f

(* What attaching does to the two parts of a result. *)
LEMMA AttachParts ==
  ASSUME NEW r \in Result, NEW label, NEW n
  PROVE  /\ label = Elem => /\ Attach(r, label, n).claims = r.claims
                            /\ Attach(r, label, n).items = Append(r.items, n)
         /\ label # Elem => /\ Attach(r, label, n).claims = Bind(r.claims, label, n)
                            /\ Attach(r, label, n).items = r.items
BY DEF Attach, Result

(* A call from a caller that will be in order once it has the value. *)
LEMMA CallsPush ==
  ASSUME IInv, RunInv, status = "running", UNCHANGED doc,
         NEW caller \in Call, NEW n \in Node, NEW slot \in Slot,
         stack' = Push(caller, Visit(n, slot)),
         caller.node = top.node, caller.slot = top.slot, caller.result = top.result,
         CallSoFar(caller, Attach(top.result, slot.label, n))
  PROVE  CallsSoFar'
<1> DEFINE l == Len(stack)
           child == Visit(n, slot)
<1>1. l \in Nat \ {0} /\ doc \in Document /\ top = stack[l]
  BY TopFacts
<1>2. child \in Call /\ child.node = n /\ child.slot = slot /\ child.result = NoResult
  BY <1>1, VisitTyped
<1>3. CallSoFar(child, child.result)
  BY <1>1, <1>2, FreshSoFar
<1> HIDE DEF child
<1>4. /\ Len(stack') = l + 1 /\ \A p \in 1..l - 1 : stack'[p] = stack[p]
      /\ stack'[l] = caller /\ stack'[l + 1] = child
  BY <1>2, PushShape DEF child
<1>5. \A f : CallSoFar(f, After(f, top)) => CallSoFar(f, After(f, caller))
  BY DEF After
<1>6. CallSoFar(caller, After(caller, child))
  BY <1>2 DEF After
<1>7. ASSUME NEW p \in 1..l PROVE CallSoFar(stack'[p], After(stack'[p], stack'[p + 1]))
  <2>1. CASE p = l
    BY <1>4, <1>6, <2>1
  <2>2. CASE p # l
    <3>1. p \in 1..l - 1 /\ (p + 1 \in 1..l - 1 \/ p + 1 = l)
      BY <1>1, <2>2
    <3>2. CallSoFar(stack[p], After(stack[p], stack[p + 1]))
      BY <3>1 DEF RunInv, CallsSoFar
    <3> QED
      BY <1>1, <1>4, <1>5, <3>1, <3>2
  <2> QED
    BY <2>1, <2>2
<1>8. top' = child /\ Len(stack') - 1 = l
  BY <1>1, <1>4 DEF top
<1>9. \A f, r : CallSoFar(f, r) => SoFar(doc', f.node, f.todo, f.next, r)
  BY DEF CallSoFar
<1> QED
  BY <1>3, <1>4, <1>7, <1>8, <1>9 DEF CallsSoFar, CallSoFar, After

-----------------------------------------------------------------------------
(* Each step of a running call preserves its invariant. *)

LEMMA VisitKeyRun == IInv /\ RunInv /\ VisitKey => RunInv'
<1> SUFFICES ASSUME IInv, RunInv, VisitKey PROVE RunInv'
  OBVIOUS
<1>1. /\ status = "running" /\ kindOf = "obj"
      /\ UNCHANGED <<doc, status, usedDigests, usedDisclosures, resolved>>
  BY DEF VisitKey, Running
<1>2. PICK k \in top.todo :
        stack' = Push([top EXCEPT !.todo = @ \ {k}],
                      Visit(doc.props[top.node][k], [label |-> k, digest |-> NoDigest]))
  BY DEF VisitKey
<1> DEFINE caller == [top EXCEPT !.todo = @ \ {k}]
           n == doc.props[top.node][k]
           slot == [label |-> k, digest |-> NoDigest]
<1>3. /\ caller \in Call /\ caller.node = top.node /\ caller.slot = top.slot
      /\ caller.result = top.result /\ caller.todo = top.todo \ {k} /\ caller.next = top.next
      /\ k \in Name /\ k # Elem /\ slot \in Slot /\ top.result \in Result
  BY <1>1, TopFacts, MarkersAreFresh DEF Call, Slot
<1>4. /\ doc \in Document /\ top.node \in Node /\ top \in Call
      /\ k \in DOMAIN doc.props[top.node] /\ top.todo \subseteq DOMAIN doc.props[top.node]
  BY <1>1, TopFacts DEF CallOK, kindOf
<1>5. n \in Node /\ k \in PlainAt(doc, top.node) /\ n = ChildAt(doc, top.node, k)
  BY <1>1, <1>4, DocFacts DEF PlainAt, ChildAt, kindOf
<1>6. slot.digest = NoDigest /\ slot.label = k /\ stack' = Push(caller, Visit(n, slot))
  BY <1>2
<1> HIDE DEF caller, n, slot
<1>7. /\ \A m \in Node : doc.kind[m] = "obj" => \A key \in DOMAIN doc.props[m] :
              KeyTaken(m, key)' <=> KeyTaken(m, key) \/ (m = top.node /\ key \notin caller.todo)
      /\ \A m, i : i \in Nat \ {0} =>
              (Passed(m, i)' <=> Passed(m, i) \/ (m = top.node /\ i < caller.next))
  BY <1>1, <1>3, <1>5, <1>6, PushView
<1>8. ~Taken(top.node, k)
  BY <1>1, TopPlaces DEF Taken, kindOf
<1>9. \A m, i : i \in Nat \ {0} => (Passed(m, i)' <=> Passed(m, i))
  BY <1>1, <1>3, <1>7, TopPlaces
<1>10. ASSUME NEW m \in Node, NEW y \in PlainAt(doc, m)
       PROVE  Taken(m, y)' <=> Taken(m, y) \/ (m = top.node /\ y = k)
  <2>1. CASE doc.kind[m] = "obj"
    <3>1. y \in DOMAIN doc.props[m]
      BY <1>4, <2>1, PositionFacts
    <3>2. KeyTaken(m, y)' <=> KeyTaken(m, y) \/ (m = top.node /\ y = k)
      BY <1>1, <1>3, <1>7, <2>1, <3>1, TopPlaces
    <3> QED
      BY <1>1, <2>1, <3>2 DEF Taken
  <2>2. CASE doc.kind[m] # "obj"
    <3>1. y \in Nat \ {0} /\ m # top.node
      BY <1>1, <1>4, <2>2, PositionFacts DEF kindOf
    <3> QED
      BY <1>1, <1>9, <2>2, <3>1 DEF Taken
  <2> QED
    BY <2>1, <2>2
<1>11. \A m \in Node : \A i \in Embeds(doc, m) : Passed(m, i)' <=> Passed(m, i)
  BY <1>4, <1>9, PositionFacts
<1>12. /\ VisitsOnce' /\ VisitsRevealed' /\ VisitedByPlace'
       /\ DigestsOfPassed' /\ OpenedRecorded' /\ PassedOK' /\ ResolvedOK'
  BY <1>1, <1>3, <1>5, <1>6, <1>8, <1>10, <1>11, PlainVisit
<1>13. CallSoFar(caller, Attach(top.result, slot.label, n))
  <2> DEFINE r == Attach(top.result, slot.label, n)
  <2>a. r.items = top.result.items /\ r.claims = Bind(top.result.claims, k, n)
    BY <1>3, <1>6, AttachParts
  <2> HIDE DEF r
  <2>1. /\ DOMAIN r.claims = DOMAIN top.result.claims \cup {k}
        /\ \A x \in DOMAIN r.claims : r.claims[x] = IF x = k THEN n ELSE top.result.claims[x]
    BY <2>a DEF Bind
  <2>2. /\ ClaimsSoFar(doc, top.node, top.todo, top.next, top.result.claims)
        /\ top.result.items = <<>>
    BY <1>1 DEF RunInv, CallsSoFar, CallSoFar, SoFar, kindOf
  <2>3. \A j \in OpenedBefore(doc, top.node, top.next) : NameAt(doc, top.node, j) # k
    <3> TAKE j \in OpenedBefore(doc, top.node, top.next)
    <3>1. j \in Embeds(doc, top.node) /\ j < top.next /\ doc.sd[top.node][j] \in Presented(doc)
      BY <1>1 DEF Embeds, OpenedBefore, kindOf
    <3>2. Passed(top.node, j)
      BY <1>1, <1>4, <3>1, PositionFacts, TopPlaces
    <3>3. PlaceOK(doc, top.node, j)
      BY <1>4, <3>1, <3>2 DEF RunInv, PassedOK
    <3> QED
      BY <1>1, <1>4, <3>1, <3>3 DEF PlaceOK, LegalIn, EmbeddedAt, NameAt, kindOf
  <2>4. ClaimsSoFar(doc, top.node, caller.todo, top.next, r.claims)
    BY <1>3, <1>4, <2>1, <2>2, <2>3 DEF ClaimsSoFar, n
  <2> QED
    BY <1>1, <1>3, <2>a, <2>2, <2>4 DEF CallSoFar, SoFar, kindOf, r
<1>14. CallsSoFar'
  BY <1>1, <1>3, <1>5, <1>6, <1>13, CallsPush
<1> QED
  BY <1>1, <1>12, <1>14 DEF RunInv, InputOK

LEMMA VisitItemRun == IInv /\ RunInv /\ VisitItem => RunInv'
<1> SUFFICES ASSUME IInv, RunInv, VisitItem PROVE RunInv'
  OBVIOUS
<1> DEFINE n == item
           slot == [label |-> Elem, digest |-> NoDigest]
<1>1. /\ status = "running" /\ kindOf = "arr" /\ top.next <= Len(doc.items[top.node])
      /\ doc.kind[item] # "ph"
      /\ UNCHANGED <<doc, status, usedDigests, usedDisclosures, resolved>>
  BY DEF VisitItem, Running, AtItem, AtPlaceholder
<1>2. /\ doc \in Document /\ top \in Call /\ top.node \in Node /\ top.result \in Result
      /\ top.next \in Nat \ {0}
      /\ Advanced \in Call /\ Advanced.node = top.node /\ Advanced.slot = top.slot
      /\ Advanced.result = top.result /\ Advanced.todo = top.todo /\ Advanced.next = top.next + 1
  BY <1>1, TopFacts DEF Call, Advanced
<1>3. /\ top.next \in 1..Len(doc.items[top.node]) /\ top.next \in DOMAIN doc.items[top.node]
      /\ n \in Node
  <2>1. doc.items[top.node] \in Seq(Node)
    BY <1>2, DocFacts
  <2> QED
    BY <1>1, <1>2, <2>1 DEF item
<1>4. top.next \in PlainAt(doc, top.node) /\ n = ChildAt(doc, top.node, top.next)
  BY <1>1, <1>3 DEF PlainAt, ChildAt, Embeds, kindOf, item
<1>5. slot \in Slot /\ slot.digest = NoDigest /\ slot.label = Elem
  BY DEF Slot
<1>6. stack' = Push(Advanced, Visit(n, slot))
  BY DEF VisitItem
<1> HIDE DEF n, slot
<1>7. /\ \A m \in Node : doc.kind[m] = "obj" => \A key \in DOMAIN doc.props[m] :
              KeyTaken(m, key)' <=> KeyTaken(m, key) \/ (m = top.node /\ key \notin Advanced.todo)
      /\ \A m, i : i \in Nat \ {0} =>
              (Passed(m, i)' <=> Passed(m, i) \/ (m = top.node /\ i < Advanced.next))
  BY <1>1, <1>2, <1>3, <1>5, <1>6, PushView
<1>8. ~Taken(top.node, top.next)
  BY <1>1, <1>2, TopPlaces DEF Taken, kindOf
<1>9. ASSUME NEW m \in Node, NEW i \in Nat \ {0}
      PROVE  Passed(m, i)' <=> Passed(m, i) \/ (m = top.node /\ i = top.next)
  <2>1. i < Advanced.next <=> i < top.next \/ i = top.next
    BY <1>2
  <2> QED
    BY <1>1, <1>7, <2>1, TopPlaces
<1>10. ASSUME NEW m \in Node, NEW y \in PlainAt(doc, m)
       PROVE  Taken(m, y)' <=> Taken(m, y) \/ (m = top.node /\ y = top.next)
  <2>1. CASE doc.kind[m] = "obj"
    <3>1. y \in DOMAIN doc.props[m] /\ m # top.node
      BY <1>1, <1>2, <2>1, PositionFacts DEF kindOf
    <3> QED
      BY <1>1, <1>7, <2>1, <3>1 DEF Taken
  <2>2. CASE doc.kind[m] # "obj"
    <3>1. y \in Nat \ {0}
      BY <1>2, <2>2, PositionFacts
    <3> QED
      BY <1>1, <1>9, <2>2, <3>1 DEF Taken
  <2> QED
    BY <2>1, <2>2
<1>11. ASSUME NEW m \in Node, NEW i \in Embeds(doc, m) PROVE Passed(m, i)' <=> Passed(m, i)
  <2>1. i \in Nat \ {0}
    BY <1>2, PositionFacts
  <2>2. m = top.node => i # top.next
    BY <1>1, <1>2, <1>4, PositionFacts DEF kindOf
  <2> QED
    BY <1>9, <2>1, <2>2
<1>12. /\ VisitsOnce' /\ VisitsRevealed' /\ VisitedByPlace'
       /\ DigestsOfPassed' /\ OpenedRecorded' /\ PassedOK' /\ ResolvedOK'
  BY <1>1, <1>2, <1>3, <1>4, <1>5, <1>6, <1>8, <1>10, <1>11, PlainVisit
<1>13. CallSoFar(Advanced, Attach(top.result, slot.label, n))
  <2> DEFINE r == Attach(top.result, slot.label, n)
  <2>1. r.claims = top.result.claims /\ r.items = Append(top.result.items, n)
    BY <1>2, <1>5, AttachParts
  <2> HIDE DEF r
  <2>2. /\ top.result.claims = <<>>
        /\ ItemsSoFar(doc, top.node, top.next, top.result.items)
    BY <1>1 DEF RunInv, CallsSoFar, CallSoFar, SoFar, kindOf
  <2>3. ItemsUpTo(doc, top.node)[top.next] =
          ItemAdded(doc, top.node, top.next, ItemsUpTo(doc, top.node)[top.next - 1])
    BY <1>2, <1>3, ItemsByPosition
  <2>4. Advanced.next - 1 = top.next /\ Advanced.next <= Len(doc.items[top.node]) + 1
    BY <1>2, <1>3
  <2>5. ItemsSoFar(doc, top.node, Advanced.next, r.items)
    BY <1>1, <2>1, <2>2, <2>3, <2>4 DEF ItemsSoFar, ItemAdded, item, n
  <2> QED
    BY <1>1, <1>2, <2>1, <2>2, <2>5 DEF CallSoFar, SoFar, kindOf, r
<1>14. CallsSoFar'
  BY <1>1, <1>2, <1>3, <1>5, <1>6, <1>13, CallsPush
<1> QED
  BY <1>1, <1>12, <1>14 DEF RunInv, InputOK

(* What both outcomes of a new digest have in common. *)
LEMMA DigestStep ==
  ASSUME IInv, RunInv, status = "running", UNCHANGED doc,
         NEW g, AtDigest(g), g \notin usedDigests, usedDigests' = usedDigests \cup {g},
         g \in Presented(doc) => Fits(DisclosureOf(doc, g)),
         \A m, i : i \in Nat \ {0} =>
            (Passed(m, i)' <=> Passed(m, i) \/ (m = top.node /\ i < top.next + 1)),
         \A m \in Node : doc.kind[m] = "obj" => \A k \in DOMAIN doc.props[m] :
            KeyTaken(m, k)' <=> KeyTaken(m, k) \/ (m = top.node /\ k \notin top.todo)
  PROVE  /\ DigestsOfPassed' /\ PassedOK'
         /\ \A m \in Node : \A y \in PlainAt(doc, m) : Taken(m, y)' <=> Taken(m, y)
<1>1. doc \in Document /\ top.node \in Node /\ top.next \in Embeds(doc, top.node)
  BY TopFacts, AtDigestFacts
<1>2. DigestsOfPassed' /\ PassedOK'
  BY DigestPassed, PlacePassed
<1>3. ASSUME NEW m \in Node, NEW y \in PlainAt(doc, m) PROVE Taken(m, y)' <=> Taken(m, y)
  <2>1. CASE doc.kind[m] = "obj"
    <3>1. y \in DOMAIN doc.props[m]
      BY <1>1, <2>1, PositionFacts
    <3>2. KeyTaken(m, y)' <=> KeyTaken(m, y)
      BY <2>1, <3>1, TopPlaces
    <3> QED
      BY <2>1, <3>2 DEF Taken
  <2>2. CASE doc.kind[m] # "obj"
    <3>1. y \in Nat \ {0} /\ y \notin Embeds(doc, m) /\ top.next \in Nat \ {0}
      BY <1>1, <2>2, PositionFacts
    <3>2. m = top.node => (y < top.next + 1 <=> y < top.next)
      BY <1>1, <3>1
    <3>3. Passed(m, y)' <=> Passed(m, y)
      BY <3>1, <3>2, TopPlaces
    <3> QED
      BY <2>2, <3>3 DEF Taken
  <2> QED
    BY <2>1, <2>2
<1> QED
  BY <1>2, <1>3

LEMMA SkipDigestRun == IInv /\ RunInv /\ SkipDigest => RunInv'
<1> SUFFICES ASSUME IInv, RunInv, SkipDigest PROVE RunInv'
  OBVIOUS
<1>1. /\ status = "running" /\ stack' = Continue(Advanced)
      /\ UNCHANGED <<doc, status, usedDisclosures, resolved>>
  BY DEF SkipDigest, Running
<1>2. PICK g \in Digest \ (usedDigests \cup Presented(doc)) :
        AtDigest(g) /\ usedDigests' = usedDigests \cup {g}
  BY DEF SkipDigest
<1>3. /\ doc \in Document /\ top \in Call /\ top.node \in Node /\ top.next \in Nat \ {0}
      /\ Advanced \in Call /\ Advanced.node = top.node /\ Advanced.slot = top.slot
      /\ Advanced.result = top.result /\ Advanced.todo = top.todo /\ Advanced.next = top.next + 1
      /\ Len(stack) \in Nat \ {0} /\ top = stack[Len(stack)]
  BY <1>1, TopFacts DEF Call, Advanced
<1>4. /\ \A m : Visited(m)' <=> Visited(m)
      /\ \A m, k : KeyTaken(m, k)' <=> KeyTaken(m, k)
      /\ \A m, i : i \in Nat \ {0} =>
           (Passed(m, i)' <=> Passed(m, i) \/ (m = top.node /\ i < top.next + 1))
      /\ \A p \in 1..Len(stack) : stack'[p].node = stack[p].node /\ stack'[p].slot = stack[p].slot
      /\ Len(stack') = Len(stack)
  BY <1>1, <1>3, SkipView
<1>5. \A m, k : KeyTaken(m, k)' <=> KeyTaken(m, k) \/ (m = top.node /\ k \notin top.todo)
  BY <1>1, <1>4, TopPlaces
<1>6. /\ DigestsOfPassed' /\ PassedOK'
      /\ \A m \in Node : \A y \in PlainAt(doc, m) : Taken(m, y)' <=> Taken(m, y)
  BY <1>1, <1>2, <1>4, <1>5, DigestStep
<1>7. VisitsOnce'
  BY <1>1, <1>4 DEF RunInv, VisitsOnce
<1>8. VisitsRevealed'
  <2>1. 1 \in 1..Len(stack)
    BY <1>3
  <2> QED
    BY <1>1, <1>4, <2>1 DEF RunInv, VisitsRevealed
<1>9. VisitedByPlace'
  <2>1. \A m \in Node : \A x \in PlainAt(doc, m) : Taken(m, x)' <=> Visited(ChildAt(doc, m, x))'
    BY <1>1, <1>4, <1>6 DEF RunInv, VisitedByPlace
  <2>2. \A h \in Presented(doc) : h \in usedDigests' <=> Visited(DisclosureOf(doc, h).value)'
    BY <1>1, <1>2, <1>4 DEF RunInv, VisitedByPlace
  <2> QED
    BY <1>1, <2>1, <2>2 DEF VisitedByPlace
<1>10. OpenedRecorded'
  BY <1>1, <1>2, <1>4 DEF RunInv, OpenedRecorded
<1>11. ResolvedOK'
  BY <1>1 DEF RunInv, ResolvedOK
<1>12. CallSoFar(Advanced, top.result)
  <2>1. SoFar(doc, top.node, top.todo, top.next, top.result)
    BY DEF RunInv, CallsSoFar, CallSoFar
  <2>2. CASE kindOf = "obj"
    <3>1. top.next \in DOMAIN doc.sd[top.node] /\ doc.sd[top.node][top.next] = g
      BY <1>1, <1>2, <2>2, AtDigestFacts
    <3>2. DOMAIN doc.sd[top.node] \subseteq Nat
      BY <1>3, DocFacts
    <3>3. OpenedBefore(doc, top.node, top.next + 1) = OpenedBefore(doc, top.node, top.next)
      BY <1>2, <1>3, <3>1, <3>2 DEF OpenedBefore
    <3> QED
      BY <1>3, <2>1, <2>2, <3>3 DEF CallSoFar, SoFar, ClaimsSoFar, kindOf
  <2>3. CASE kindOf = "arr"
    <3>1. /\ top.next \in 1..Len(doc.items[top.node]) /\ doc.kind[item] = "ph"
          /\ doc.hides[item] = g
      BY <1>1, <1>2, <2>3, AtDigestFacts
    <3>2. ItemsUpTo(doc, top.node)[top.next] = ItemsUpTo(doc, top.node)[top.next - 1]
      BY <1>2, <1>3, <3>1, ItemsByPosition DEF ItemAdded, item
    <3>3. Advanced.next - 1 = top.next /\ Advanced.next <= Len(doc.items[top.node]) + 1
      BY <1>3, <3>1
    <3> QED
      BY <1>3, <2>1, <2>3, <3>2, <3>3 DEF CallSoFar, SoFar, ItemsSoFar, kindOf
  <2> QED
    BY <1>1, <1>2, <2>2, <2>3, AtDigestFacts
<1>13. CallsSoFar'
  <2> DEFINE l == Len(stack)
  <2>1. /\ \A p \in 1..l - 1 : stack'[p] = stack[p]
        /\ stack'[l] = Advanced /\ Len(stack') = l
    BY <1>1, <1>3, ContinueShape
  <2>2. ASSUME NEW p \in 1..l - 1 PROVE CallSoFar(stack'[p], After(stack'[p], stack'[p + 1]))
    <3>1. CallSoFar(stack[p], After(stack[p], stack[p + 1]))
      BY DEF RunInv, CallsSoFar
    <3>2. p + 1 \in 1..l /\ p \in 1..l
      BY <1>3
    <3>3. After(stack'[p], stack'[p + 1]) = After(stack[p], stack[p + 1]) /\ stack'[p] = stack[p]
      BY <1>4, <2>1, <3>2 DEF After
    <3> QED
      BY <3>1, <3>3
  <2>3. top' = Advanced
    BY <1>3, <2>1 DEF top
  <2>4. \A f, r : CallSoFar(f, r) => SoFar(doc', f.node, f.todo, f.next, r)
    BY <1>1 DEF CallSoFar
  <2> QED
    BY <1>3, <1>12, <2>1, <2>2, <2>3, <2>4 DEF CallsSoFar, CallSoFar, After
<1> QED
  BY <1>1, <1>6, <1>7, <1>8, <1>9, <1>10, <1>11, <1>13 DEF RunInv, InputOK

LEMMA OpenDisclosureRun == IInv /\ RunInv /\ OpenDisclosure => RunInv'
<1> SUFFICES ASSUME IInv, RunInv, OpenDisclosure PROVE RunInv'
  OBVIOUS
<1>1. status = "running" /\ UNCHANGED <<doc, status, usedDisclosures, resolved>>
  BY DEF OpenDisclosure, Running
<1>2. PICK g \in Presented(doc) \ usedDigests :
        LET d == DisclosureOf(doc, g)
            label == IF kindOf = "arr" THEN Elem ELSE d.name
        IN  /\ AtDigest(g) /\ Fits(d)
            /\ usedDigests' = usedDigests \cup {g}
            /\ stack' = Push(Advanced, Visit(d.value, [label |-> label, digest |-> g]))
  BY DEF OpenDisclosure
<1> DEFINE d == DisclosureOf(doc, g)
           label == IF kindOf = "arr" THEN Elem ELSE d.name
           slot == [label |-> label, digest |-> g]
           n == d.value
           l == Len(stack)
<1>3. /\ doc \in Document /\ top \in Call /\ top.node \in Node /\ top.next \in Nat \ {0}
      /\ top.result \in Result /\ l \in Nat \ {0}
      /\ Advanced \in Call /\ Advanced.node = top.node /\ Advanced.slot = top.slot
      /\ Advanced.result = top.result /\ Advanced.todo = top.todo /\ Advanced.next = top.next + 1
  BY <1>1, TopFacts DEF Call, Advanced
<1>4. d \in Disclosure /\ g \in Digest /\ g # NoDigest
  BY <1>3, DisclosureFacts, MarkersAreFresh
<1>5. n \in Node /\ d.name \in Name /\ d.name # Elem /\ slot \in Slot
  BY <1>4, MarkersAreFresh DEF Disclosure, Slot
<1>6. /\ AtDigest(g) /\ Fits(d) /\ usedDigests' = usedDigests \cup {g}
      /\ stack' = Push(Advanced, Visit(n, slot))
      /\ slot.digest = g /\ slot.label = label
  BY <1>2
<1>7. d = DisclosureOf(doc, g) /\ n = DisclosureOf(doc, g).value
  OBVIOUS
<1>8. (kindOf = "arr" => slot.label = Elem) /\ (kindOf # "arr" => slot.label = d.name)
  OBVIOUS
<1> HIDE DEF d, label, slot, n
<1>9. /\ \A m : Visited(m)' <=> Visited(m) \/ m = n
      /\ \A m \in Node : doc.kind[m] = "obj" => \A k \in DOMAIN doc.props[m] :
              KeyTaken(m, k)' <=> KeyTaken(m, k) \/ (m = top.node /\ k \notin top.todo)
      /\ \A m, i : i \in Nat \ {0} =>
              (Passed(m, i)' <=> Passed(m, i) \/ (m = top.node /\ i < top.next + 1))
      /\ \A p \in 1..l : stack'[p].node = stack[p].node /\ stack'[p].slot = stack[p].slot
      /\ Len(stack') = l + 1 /\ stack'[l + 1].node = n /\ stack'[l + 1].slot = slot
  BY <1>1, <1>3, <1>5, <1>6, PushView
<1>10. /\ DigestsOfPassed' /\ PassedOK'
       /\ \A m \in Node : \A y \in PlainAt(doc, m) : Taken(m, y)' <=> Taken(m, y)
  BY <1>1, <1>2, <1>6, <1>7, <1>9, DigestStep
<1>11. ~Visited(n)
  BY <1>2, <1>7 DEF RunInv, VisitedByPlace
<1>12. /\ \A p \in 1..l + 1 : p \in 1..l \/ p = l + 1
       /\ \A p \in 1..l : p \in 1..l + 1
       /\ 1 \in 1..l /\ l + 1 \in 1..l + 1
  BY <1>3
<1>13. VisitsOnce'
  <2>1. n \notin DOMAIN resolved /\ \A p \in 1..l : stack[p].node # n
    BY <1>11 DEF Visited
  <2>2. ASSUME NEW p \in 1..l + 1, NEW q \in 1..l + 1, stack'[p].node = stack'[q].node
        PROVE  p = q
    BY <1>9, <1>12, <2>1, <2>2 DEF RunInv, VisitsOnce
  <2>3. \A p \in 1..l + 1 : stack'[p].node \notin DOMAIN resolved
    BY <1>9, <1>12, <2>1 DEF RunInv, VisitsOnce
  <2> QED
    BY <1>1, <1>9, <2>2, <2>3 DEF VisitsOnce
<1>14. VisitsRevealed'
  <2>1. top.node \in Revealed(doc)
    BY <1>1, <1>3, TopPlaces DEF RunInv, VisitsRevealed
  <2>2. /\ top.next \in Embeds(doc, top.node)
        /\ EmbeddedAt(doc, top.node, top.next) = g
    BY <1>1, <1>6, AtDigestFacts
  <2>3. n \in Revealed(doc)
    BY <1>2, <1>3, <1>7, <2>1, <2>2, ChildrenRevealed
  <2> QED
    BY <1>1, <1>9, <1>12, <2>3 DEF RunInv, VisitsRevealed
<1>15. VisitedByPlace'
  <2>1. ASSUME NEW m \in Node, NEW y \in PlainAt(doc, m)
        PROVE  Taken(m, y)' <=> Visited(ChildAt(doc, m, y))'
    <3>1. ChildAt(doc, m, y) # n
      BY <1>2, <1>3, <1>7, TreeFacts
    <3>2. Taken(m, y) <=> Visited(ChildAt(doc, m, y))
      BY DEF RunInv, VisitedByPlace
    <3> QED
      BY <1>1, <1>9, <1>10, <3>1, <3>2
  <2>2. ASSUME NEW h \in Presented(doc)
        PROVE  h \in usedDigests' <=> Visited(DisclosureOf(doc, h).value)'
    <3>1. DisclosureOf(doc, h).value = n <=> h = g
      BY <1>2, <1>3, <1>7, TreeFacts
    <3>2. h \in usedDigests <=> Visited(DisclosureOf(doc, h).value)
      BY DEF RunInv, VisitedByPlace
    <3> QED
      BY <1>1, <1>6, <1>9, <3>1, <3>2
  <2> QED
    BY <1>1, <2>1, <2>2 DEF VisitedByPlace
<1>16. OpenedRecorded'
  <2>1. \A p \in 1..l + 1 : stack'[p].slot.digest \in usedDigests' \cup {NoDigest}
    BY <1>6, <1>9, <1>12 DEF RunInv, OpenedRecorded
  <2>2. \A h \in usedDigests' \cap Presented(doc) :
          h \in usedDisclosures \/ \E p \in 1..l + 1 : stack'[p].slot.digest = h
    BY <1>6, <1>9, <1>12 DEF RunInv, OpenedRecorded
  <2> QED
    BY <1>1, <1>6, <1>9, <2>1, <2>2 DEF RunInv, OpenedRecorded
<1>17. ResolvedOK'
  BY <1>1 DEF RunInv, ResolvedOK
<1>18. CallSoFar(Advanced, Attach(top.result, slot.label, n))
  <2> DEFINE r == Attach(top.result, slot.label, n)
  <2>1. SoFar(doc, top.node, top.todo, top.next, top.result)
    BY DEF RunInv, CallsSoFar, CallSoFar
  <2>2. CASE kindOf = "obj"
    <3>1. r.items = top.result.items /\ r.claims = Bind(top.result.claims, d.name, n)
      BY <1>3, <1>5, <1>8, <2>2, AttachParts
    <3> HIDE DEF r
    <3>2. /\ DOMAIN r.claims = DOMAIN top.result.claims \cup {d.name}
          /\ \A x \in DOMAIN r.claims : r.claims[x] = IF x = d.name THEN n ELSE top.result.claims[x]
      BY <3>1 DEF Bind
    <3>3. /\ top.next \in DOMAIN doc.sd[top.node] /\ doc.sd[top.node][top.next] = g
          /\ top.todo = {} /\ DOMAIN doc.sd[top.node] \subseteq Nat
      BY <1>1, <1>3, <1>6, <2>2, AtDigestFacts, DocFacts
    <3>4. OpenedBefore(doc, top.node, top.next + 1) =
            OpenedBefore(doc, top.node, top.next) \cup {top.next}
      BY <1>2, <1>3, <3>3 DEF OpenedBefore
    <3>5. d.name \notin DOMAIN top.result.claims
      BY <1>6, <2>2 DEF Fits
    <3>6. NameAt(doc, top.node, top.next) = d.name
      BY <1>7, <3>3 DEF NameAt
    <3>7. ClaimsSoFar(doc, top.node, top.todo, top.next, top.result.claims)
          /\ top.result.items = <<>>
      BY <2>1, <2>2 DEF SoFar, kindOf
    <3>8. ClaimsSoFar(doc, top.node, top.todo, top.next + 1, r.claims)
      <4>1. DOMAIN r.claims = (DOMAIN doc.props[top.node] \ top.todo)
              \cup {NameAt(doc, top.node, j) : j \in OpenedBefore(doc, top.node, top.next + 1)}
        BY <3>2, <3>4, <3>6, <3>7 DEF ClaimsSoFar
      <4>2. \A k \in DOMAIN doc.props[top.node] \ top.todo : r.claims[k] = doc.props[top.node][k]
        BY <3>2, <3>5, <3>7 DEF ClaimsSoFar
      <4>3. \A j \in OpenedBefore(doc, top.node, top.next + 1) :
              r.claims[NameAt(doc, top.node, j)] = DisclosureOf(doc, doc.sd[top.node][j]).value
        <5> TAKE j \in OpenedBefore(doc, top.node, top.next + 1)
        <5>1. CASE j = top.next
          BY <1>7, <3>2, <3>3, <3>6, <5>1
        <5>2. CASE j \in OpenedBefore(doc, top.node, top.next)
          BY <3>2, <3>5, <3>7, <5>2 DEF ClaimsSoFar
        <5> QED
          BY <3>4, <5>1, <5>2
      <4> QED
        BY <4>1, <4>2, <4>3 DEF ClaimsSoFar
    <3> QED
      BY <1>3, <2>2, <3>1, <3>7, <3>8 DEF CallSoFar, SoFar, kindOf, r
  <2>3. CASE kindOf = "arr"
    <3>1. /\ top.next \in 1..Len(doc.items[top.node]) /\ doc.kind[item] = "ph"
          /\ doc.hides[item] = g
      BY <1>1, <1>6, <2>3, AtDigestFacts
    <3>2. r.claims = top.result.claims /\ r.items = Append(top.result.items, n)
      BY <1>3, <1>8, <2>3, AttachParts
    <3> HIDE DEF r
    <3>3. ItemsUpTo(doc, top.node)[top.next] =
            Append(ItemsUpTo(doc, top.node)[top.next - 1], n)
      BY <1>2, <1>3, <1>7, <3>1, ItemsByPosition DEF ItemAdded, item
    <3>4. Advanced.next - 1 = top.next /\ Advanced.next <= Len(doc.items[top.node]) + 1
      BY <1>3, <3>1
    <3> QED
      BY <1>3, <2>1, <2>3, <3>2, <3>3, <3>4 DEF CallSoFar, SoFar, ItemsSoFar, kindOf, r
  <2> QED
    BY <1>1, <1>6, <2>2, <2>3, AtDigestFacts
<1>19. CallsSoFar'
  BY <1>1, <1>3, <1>5, <1>6, <1>18, CallsPush
<1> QED
  BY <1>1, <1>10, <1>13, <1>14, <1>15, <1>16, <1>17, <1>19 DEF RunInv, InputOK

(* The result of a finished call is what its node is expected to become. *)
LEMMA FinishedExpected ==
  ASSUME IInv, RunInv, status = "running", Finished
  PROVE  top.result = Expected(doc, top.node)
<1> DEFINE n == top.node
           r == top.result
<1>1. top \in Call /\ n \in Node /\ doc \in Document /\ r \in Result /\ top.next \in Nat \ {0}
  BY TopFacts DEF Call
<1>2. SoFar(doc, n, top.todo, top.next, r)
  BY DEF RunInv, CallsSoFar, CallSoFar
<1>3. /\ kindOf = "obj" => top.todo = {}
      /\ \A i \in Positions(doc, n) : i < top.next
  BY FinishedAll
<1>4. CASE kindOf = "obj"
  <2> DEFINE opened == {i \in DOMAIN doc.sd[n] : doc.sd[n][i] \in Presented(doc)}
             D(i) == DisclosureOf(doc, doc.sd[n][i])
             E == ExpectedClaims(doc, n)
  <2>1. OpenedBefore(doc, n, top.next) = opened
    BY <1>3, <1>4 DEF OpenedBefore, Positions, kindOf
  <2>2. /\ DOMAIN r.claims = DOMAIN doc.props[n] \cup {D(i).name : i \in opened}
        /\ \A k \in DOMAIN doc.props[n] : r.claims[k] = doc.props[n][k]
        /\ \A i \in opened : r.claims[D(i).name] = D(i).value
        /\ r.items = <<>>
    BY <1>2, <1>3, <1>4, <2>1 DEF SoFar, ClaimsSoFar, NameAt, kindOf
  <2> HIDE DEF n, r
  <2>3. E = [k \in DOMAIN doc.props[n] \cup {D(i).name : i \in opened} |->
               IF k \in DOMAIN doc.props[n]
                 THEN doc.props[n][k]
                 ELSE D(CHOOSE i \in opened : D(i).name = k).value]
    BY DEF ExpectedClaims
  <2> DEFINE Backer(k) == CHOOSE i \in opened : D(i).name = k
  <2>4. ASSUME NEW k \in DOMAIN r.claims, k \notin DOMAIN doc.props[n]
        PROVE  r.claims[k] = D(Backer(k)).value
    <3>1. \E i \in opened : D(i).name = k
      BY <2>2, <2>4
    <3>2. Backer(k) \in opened /\ D(Backer(k)).name = k
      BY <3>1
    <3> HIDE DEF opened, D, Backer
    <3> QED
      BY <2>2, <3>2
  <2> HIDE DEF E
  <2>5. DOMAIN E = DOMAIN r.claims /\ \A k \in DOMAIN r.claims : E[k] = r.claims[k]
    BY <2>2, <2>3, <2>4
  <2>6. r.claims = [k \in DOMAIN r.claims |-> r.claims[k]] /\ E = [k \in DOMAIN E |-> E[k]]
    <3>1. r.claims \in Partial(Name, Node)
      BY <1>1 DEF Result
    <3>2. PICK S : r.claims \in [S -> Node]
      BY <3>1 DEF Partial
    <3>3. r.claims = [k \in DOMAIN r.claims |-> r.claims[k]]
      BY <3>2
    <3> HIDE DEF opened, D
    <3>4. E = [k \in DOMAIN E |-> E[k]]
      BY <2>3
    <3> QED
      BY <3>3, <3>4
  <2>7. r.claims = E
    BY <2>5, <2>6
  <2>8. r = [claims |-> r.claims, items |-> r.items]
    BY <1>1 DEF Result
  <2>9. Expected(doc, n) = [claims |-> E, items |-> <<>>]
    BY <1>4 DEF Expected, E, n, kindOf
  <2> QED
    BY <2>2, <2>7, <2>8, <2>9 DEF n, r
<1>5. CASE kindOf = "arr"
  <2>1. r.claims = <<>> /\ ItemsSoFar(doc, n, top.next, r.items)
    BY <1>2, <1>5 DEF SoFar, kindOf
  <2>2. top.next - 1 = Len(doc.items[n])
    <3>1. Len(doc.items[n]) \in Nat
      BY <1>1, DocFacts
    <3>2. ~(top.next <= Len(doc.items[n]))
      BY <1>5 DEF Finished, AtItem
    <3> QED
      BY <1>1, <2>1, <3>1, <3>2 DEF ItemsSoFar
  <2>3. r.items = ExpectedItems(doc, n)
    BY <2>1, <2>2 DEF ItemsSoFar, ExpectedItems
  <2>4. r = [claims |-> r.claims, items |-> r.items]
    BY <1>1 DEF Result
  <2> QED
    BY <1>5, <2>1, <2>3, <2>4 DEF Expected, kindOf
<1>6. CASE kindOf \notin {"obj", "arr"}
  <2>1. r.claims = <<>> /\ r.items = <<>>
    BY <1>2, <1>6 DEF SoFar, kindOf
  <2>2. r = [claims |-> r.claims, items |-> r.items]
    BY <1>1 DEF Result
  <2> QED
    BY <1>6, <2>1, <2>2 DEF Expected, kindOf
<1> QED
  BY <1>4, <1>5, <1>6

LEMMA ReturnRun == IInv /\ RunInv /\ Return => RunInv'
<1> SUFFICES ASSUME IInv, RunInv, Return PROVE RunInv'
  OBVIOUS
<1> DEFINE l == Len(stack) - 1
           parent == stack[l]
<1>1. /\ status = "running" /\ Finished /\ UNCHANGED <<doc, status, usedDigests>>
      /\ resolved' = Bind(resolved, top.node, top.result)
      /\ usedDisclosures' = usedDisclosures \cup RevealedBy
  BY DEF Return, Running
<1>2. /\ doc \in Document /\ top.node \in Node /\ top = stack[Len(stack)]
      /\ Len(stack) \in Nat \ {0} /\ Len(stack) = l + 1
  BY <1>1, TopFacts
<1>3. /\ \A m : Visited(m)' <=> Visited(m)
      /\ \A m \in Node : doc.kind[m] = "obj" => \A k : KeyTaken(m, k)' <=> KeyTaken(m, k)
      /\ \A m \in Node : \A i \in Positions(doc, m) : Passed(m, i)' <=> Passed(m, i)
      /\ \A p \in 1..l : stack'[p].node = stack[p].node /\ stack'[p].slot = stack[p].slot
      /\ Len(stack') = l /\ l \in Nat \ {0}
      /\ DOMAIN resolved' = DOMAIN resolved \cup {top.node}
  BY ReturnView
<1>4. /\ \A p \in 1..Len(stack) - 2 : stack'[p] = stack[p]
      /\ stack'[l] = [parent EXCEPT !.result = After(parent, top)]
      /\ stack'[l] \in Call /\ parent \in Call
  BY ReturnShape
<1> HIDE DEF l
<1>5. /\ \A p \in 1..l : p \in 1..l + 1 /\ p # l + 1
      /\ \A p \in 1..l + 1 : p \in 1..l \/ p = l + 1
      /\ 1 \in 1..l /\ l \in 1..l /\ l + 1 \in 1..l + 1
      /\ \A p \in 1..l - 1 : p \in 1..Len(stack) - 2 /\ p + 1 \in 1..l /\ p \in 1..l
  BY <1>2, <1>3
<1>6. \A m \in Node : \A i \in Embeds(doc, m) : Passed(m, i)' <=> Passed(m, i)
  BY <1>2, <1>3, PositionFacts
<1>7. ASSUME NEW m \in Node, NEW y \in PlainAt(doc, m) PROVE Taken(m, y)' <=> Taken(m, y)
  <2>1. CASE doc.kind[m] = "obj"
    BY <1>1, <1>3, <2>1 DEF Taken
  <2>2. CASE doc.kind[m] # "obj"
    <3>1. y \in Positions(doc, m)
      BY <1>2, <2>2, PositionFacts
    <3> QED
      BY <1>1, <1>3, <2>2, <3>1 DEF Taken
  <2> QED
    BY <2>1, <2>2
<1>8. VisitsOnce'
  <2>1. \A p, q \in 1..l + 1 : stack[p].node = stack[q].node => p = q
    BY <1>2 DEF RunInv, VisitsOnce
  <2>2. \A p \in 1..l + 1 : stack[p].node \notin DOMAIN resolved
    BY <1>2 DEF RunInv, VisitsOnce
  <2>3. \A p \in 1..l : stack[p].node # top.node
    BY <1>2, <1>5, <2>1
  <2>4. \A p, q \in 1..l : stack'[p].node = stack'[q].node => p = q
    BY <1>3, <1>5, <2>1
  <2>5. \A p \in 1..l : stack'[p].node \notin DOMAIN resolved'
    BY <1>3, <1>5, <2>2, <2>3
  <2> QED
    BY <1>3, <2>4, <2>5 DEF VisitsOnce
<1>9. VisitsRevealed'
  BY <1>1, <1>3, <1>5 DEF RunInv, VisitsRevealed
<1>10. VisitedByPlace'
  BY <1>1, <1>3, <1>7 DEF RunInv, VisitedByPlace
<1>11. DigestsOfPassed'
  BY <1>1, <1>6 DEF RunInv, DigestsOfPassed
<1>12. OpenedRecorded'
  <2>1. /\ \A p \in 1..l + 1 : stack[p].slot.digest \in usedDigests \cup {NoDigest}
        /\ usedDisclosures \subseteq usedDigests
        /\ \A g \in usedDigests \cap Presented(doc) :
             g \in usedDisclosures \/ \E p \in 1..l + 1 : stack[p].slot.digest = g
    BY <1>2 DEF RunInv, OpenedRecorded
  <2>2. \A p \in 1..l : stack'[p].slot.digest \in usedDigests \cup {NoDigest}
    BY <1>3, <1>5, <2>1
  <2>3. usedDisclosures' \subseteq usedDigests
    BY <1>1, <1>2, <1>5, <2>1 DEF RevealedBy
  <2>4. ASSUME NEW g \in usedDigests \cap Presented(doc)
        PROVE  g \in usedDisclosures' \/ \E p \in 1..l : stack'[p].slot.digest = g
    <3>1. g # NoDigest
      BY <1>2, DisclosureFacts, MarkersAreFresh
    <3>2. CASE g \in usedDisclosures
      BY <1>1, <3>2
    <3>3. CASE top.slot.digest = g
      BY <1>1, <3>1, <3>3 DEF RevealedBy
    <3>4. ASSUME NEW p \in 1..l, stack[p].slot.digest = g
          PROVE  \E q \in 1..l : stack'[q].slot.digest = g
      BY <1>3, <3>4
    <3> QED
      BY <1>2, <1>5, <2>1, <3>2, <3>3, <3>4
  <2> QED
    BY <1>1, <1>3, <2>2, <2>3, <2>4 DEF OpenedRecorded
<1>13. PassedOK'
  <2>1. \A m \in Node : doc.kind[m] = "obj" => Embeds(doc, m) = DOMAIN doc.sd[m]
    BY DEF Embeds
  <2> QED
    BY <1>1, <1>6, <2>1 DEF RunInv, PassedOK
<1>14. CallsSoFar'
  <2>1. \A p \in 1..l : CallSoFar(stack[p], After(stack[p], stack[p + 1]))
    <3>1. Len(stack) - 1 = l
      BY <1>2, <1>3
    <3> QED
      BY <3>1 DEF RunInv, CallsSoFar
  <2>2. ASSUME NEW p \in 1..l - 1 PROVE CallSoFar(stack'[p], After(stack'[p], stack'[p + 1]))
    <3>1. CallSoFar(stack[p], After(stack[p], stack[p + 1]))
      BY <1>5, <2>1
    <3>2. After(stack'[p], stack'[p + 1]) = After(stack[p], stack[p + 1]) /\ stack'[p] = stack[p]
      BY <1>3, <1>4, <1>5 DEF After
    <3> QED
      BY <3>1, <3>2
  <2>3. CallSoFar(parent, After(parent, top))
    BY <1>2, <1>5, <2>1
  <2>4. /\ stack'[l].node = parent.node /\ stack'[l].todo = parent.todo
        /\ stack'[l].next = parent.next /\ stack'[l].result = After(parent, top)
    BY <1>4 DEF Call
  <2>5. top' = stack'[l]
    BY <1>3 DEF top
  <2>6. \A f, r : CallSoFar(f, r) => SoFar(doc', f.node, f.todo, f.next, r)
    BY <1>1 DEF CallSoFar
  <2>7. CallSoFar(stack'[l], stack'[l].result)
    BY <2>3, <2>4 DEF CallSoFar
  <2> QED
    BY <1>3, <2>2, <2>5, <2>6, <2>7 DEF CallsSoFar, CallSoFar, After
<1>15. ResolvedOK'
  <2>1. \A n \in DOMAIN resolved' :
           resolved'[n] = IF n = top.node THEN top.result ELSE resolved[n]
    BY <1>1 DEF Bind
  <2>2. /\ doc.kind[top.node] # "ph" /\ (doc.kind[top.node] = "obj" => ~doc.malformed[top.node])
        /\ top.result = Expected(doc, top.node)
    BY <1>1, FinishedAll, FinishedExpected DEF kindOf
  <2> QED
    BY <1>1, <1>3, <2>1, <2>2 DEF RunInv, ResolvedOK
<1> QED
  BY <1>1, <1>8, <1>9, <1>10, <1>11, <1>12, <1>13, <1>14, <1>15 DEF RunInv, InputOK

(* The call of ProcessSDJWTPayload starts in order. *)
LEMMA BeginRun == IInv /\ ExactInv /\ Begin => RunInv'
<1> SUFFICES ASSUME IInv, ExactInv, Begin PROVE RunInv'
  OBVIOUS
<1> DEFINE slot == [label |-> Elem, digest |-> NoDigest]
           call == Visit(Root, slot)
<1>1. /\ doc \in Document /\ Root \in Node /\ slot \in Slot /\ slot.digest = NoDigest
      /\ resolved = <<>> /\ usedDigests = {} /\ usedDisclosures = {}
  BY RootIsNode DEF IInv, TypeOK, Slot, ExactInv, Begin
<1>2. /\ call \in Call /\ call.node = Root /\ call.slot = slot /\ call.result = NoResult
      /\ call.next = 1 /\ (doc.kind[Root] = "obj" => call.todo = DOMAIN doc.props[Root])
  BY <1>1, VisitTyped DEF Visit
<1>3. CallSoFar(call, call.result)
  BY <1>1, <1>2, FreshSoFar
<1>4. /\ InputOK /\ stack' = <<call>>
      /\ UNCHANGED <<doc, usedDigests, usedDisclosures, resolved>>
  BY DEF Begin
<1> HIDE DEF call, slot
<1>5. Len(stack') = 1 /\ stack'[1] = call /\ \A p \in 1..Len(stack') : p = 1
  BY <1>4
<1>6. DOMAIN resolved' = {} /\ usedDigests' = {} /\ 1 \in 1..Len(stack') /\ doc' = doc
  BY <1>1, <1>4, <1>5
<1>7. \A n : Visited(n)' <=> n = Root
  BY <1>2, <1>5, <1>6 DEF Visited
<1>8. ASSUME NEW n \in Node, NEW x \in PlainAt(doc, n) PROVE ~Taken(n, x)'
  <2>1. CASE doc.kind[n] = "obj"
    <3>1. ~KeyTaken(n, x)'
      BY <1>1, <1>2, <1>5, <1>6, <2>1, PositionFacts DEF KeyTaken
    <3> QED
      BY <1>6, <2>1, <3>1 DEF Taken
  <2>2. CASE doc.kind[n] # "obj"
    <3>1. x \in Nat \ {0}
      BY <1>1, <2>2, PositionFacts
    <3>2. ~Passed(n, x)'
      BY <1>2, <1>5, <1>6, <3>1 DEF Passed
    <3> QED
      BY <1>6, <2>2, <3>2 DEF Taken
  <2> QED
    BY <2>1, <2>2
<1>9. ASSUME NEW n \in Node, NEW i \in Embeds(doc, n) PROVE ~Passed(n, i)'
  <2>1. i \in Nat \ {0}
    BY <1>1, PositionFacts
  <2> QED
    BY <1>2, <1>5, <1>6, <2>1 DEF Passed
<1>10. VisitsOnce'
  BY <1>5, <1>6 DEF VisitsOnce
<1>11. VisitsRevealed'
  BY <1>1, <1>2, <1>5, <1>6, <1>7, RevealedClosed DEF VisitsRevealed
<1>12. VisitedByPlace'
  <2>1. \A n \in Node : \A x \in PlainAt(doc, n) : Taken(n, x)' <=> Visited(ChildAt(doc, n, x))'
    BY <1>1, <1>6, <1>7, <1>8, TreeFacts
  <2>2. \A g \in Presented(doc) : ~Visited(DisclosureOf(doc, g).value)'
    BY <1>1, <1>6, <1>7, TreeFacts
  <2> QED
    BY <1>6, <2>1, <2>2 DEF VisitedByPlace
<1>13. DigestsOfPassed'
  BY <1>6, <1>9 DEF DigestsOfPassed
<1>14. OpenedRecorded'
  BY <1>1, <1>2, <1>4, <1>5, <1>6 DEF OpenedRecorded
<1>15. PassedOK'
  <2>1. \A m \in Node : doc.kind[m] = "obj" => Embeds(doc, m) = DOMAIN doc.sd[m]
    BY DEF Embeds
  <2> QED
    BY <1>6, <1>9, <2>1 DEF PassedOK
<1>16. CallsSoFar'
  <2>1. top' = call
    BY <1>5 DEF top
  <2>2. \A p : ~(p \in 1..Len(stack') - 1)
    BY <1>5
  <2> QED
    BY <1>3, <1>6, <2>1, <2>2 DEF CallsSoFar, CallSoFar
<1>17. ResolvedOK'
  BY <1>6 DEF ResolvedOK
<1> QED
  BY <1>4, <1>10, <1>11, <1>12, <1>13, <1>14, <1>15, <1>16, <1>17 DEF RunInv, InputOK

-----------------------------------------------------------------------------
(* The verdict. *)

(* ValidDocument, place by place. *)
ValidPlaces(d, R) ==
  /\ \A n \in R : d.kind[n] # "ph" /\ (d.kind[n] = "obj" => ~d.malformed[n])
  /\ \A n \in R : \A i \in Embeds(d, n) : PlaceOK(d, n, i)
  /\ \A m, n \in R : \A i \in Embeds(d, m), j \in Embeds(d, n) :
        EmbeddedAt(d, m, i) = EmbeddedAt(d, n, j) => m = n /\ i = j
  /\ \A n \in R : d.kind[n] = "obj" =>
       \A i, j \in DOMAIN d.sd[n] :
         /\ d.sd[n][i] \in Presented(d) /\ d.sd[n][j] \in Presented(d)
         /\ NameAt(d, n, i) = NameAt(d, n, j)
         => i = j
  /\ \A g \in Presented(d) : \E n \in R : \E i \in Embeds(d, n) : EmbeddedAt(d, n, i) = g

LEMMA ValidByPlaces ==
  ASSUME NEW d
  PROVE  ValidDocument(d) <=> /\ ResolveHashAlgorithm(d) \in Supported /\ DistinctDisclosures(d)
                              /\ ValidPlaces(d, Revealed(d))
<1> DEFINE R == Revealed(d)
           Sites == UNION {{<<n, i>> : i \in Embeds(d, n)} : n \in R}
           At(s) == EmbeddedAt(d, s[1], s[2])
           Opened == {s \in Sites : At(s) \in Presented(d)}
           Placed == /\ \A n \in R : d.kind[n] # "ph" /\ (d.kind[n] = "obj" => ~d.malformed[n])
                     /\ \A s \in Sites : d.kind[s[1]] = "arr" => ~d.malformed[d.items[s[1]][s[2]]]
                     /\ \A s, t \in Sites : At(s) = At(t) => s = t
                     /\ \A s \in Opened : LegalIn(d, s[1], At(s))
                     /\ \A s, t \in Opened :
                           /\ s[1] = t[1] /\ d.kind[s[1]] = "obj"
                           /\ DisclosureOf(d, At(s)).name = DisclosureOf(d, At(t)).name
                           => s = t
                     /\ \A g \in Presented(d) : \E s \in Sites : At(s) = g
<1>1. ValidDocument(d) <=> /\ ResolveHashAlgorithm(d) \in Supported /\ DistinctDisclosures(d)
                           /\ Placed
  BY DEF ValidDocument
<1>2. \A n, i : <<n, i>> \in Sites <=> n \in R /\ i \in Embeds(d, n)
  OBVIOUS
<1>3. \A s \in Sites : s = <<s[1], s[2]>> /\ s[1] \in R /\ s[2] \in Embeds(d, s[1])
  OBVIOUS
<1>4. \A n, i : <<n, i>>[1] = n /\ <<n, i>>[2] = i /\ At(<<n, i>>) = EmbeddedAt(d, n, i)
  OBVIOUS
<1>5. \A n \in Node : d.kind[n] = "obj" =>
        Embeds(d, n) = DOMAIN d.sd[n] /\ \A i : EmbeddedAt(d, n, i) = d.sd[n][i]
  BY DEF Embeds, EmbeddedAt
<1>6. \A s : s \in Opened <=> s \in Sites /\ At(s) \in Presented(d)
  OBVIOUS
<1>7. \A n \in R : d.kind[n] = "obj" =>
        Embeds(d, n) = DOMAIN d.sd[n] /\ \A i : EmbeddedAt(d, n, i) = d.sd[n][i]
  BY DEF Embeds, EmbeddedAt
<1> HIDE DEF R, Sites, Opened
<1>8. ASSUME Placed PROVE ValidPlaces(d, R)
  <2>1. ASSUME NEW n \in R, NEW i \in Embeds(d, n) PROVE PlaceOK(d, n, i)
    <3>1. <<n, i>> \in Sites
      BY <1>2
    <3> QED
      BY <1>4, <1>6, <1>8, <3>1 DEF PlaceOK
  <2>2. ASSUME NEW m \in R, NEW n \in R, NEW i \in Embeds(d, m), NEW j \in Embeds(d, n),
               EmbeddedAt(d, m, i) = EmbeddedAt(d, n, j)
        PROVE  m = n /\ i = j
    <3>1. <<m, i>> \in Sites /\ <<n, j>> \in Sites
      BY <1>2
    <3>2. <<m, i>> = <<n, j>>
      BY <1>4, <1>8, <2>2, <3>1
    <3> QED
      BY <3>2
  <2>3. ASSUME NEW n \in R, d.kind[n] = "obj",
               NEW i \in DOMAIN d.sd[n], NEW j \in DOMAIN d.sd[n],
               d.sd[n][i] \in Presented(d), d.sd[n][j] \in Presented(d),
               NameAt(d, n, i) = NameAt(d, n, j)
        PROVE  i = j
    <3>1. <<n, i>> \in Opened /\ <<n, j>> \in Opened
      BY <1>2, <1>4, <1>6, <1>7, <2>3
    <3>2. <<n, i>> = <<n, j>>
      BY <1>4, <1>7, <1>8, <2>3, <3>1 DEF NameAt
    <3> QED
      BY <3>2
  <2>4. \A g \in Presented(d) : \E n \in R : \E i \in Embeds(d, n) : EmbeddedAt(d, n, i) = g
    BY <1>3, <1>8
  <2>5. \A n \in R : d.kind[n] # "ph" /\ (d.kind[n] = "obj" => ~d.malformed[n])
    BY <1>8
  <2> QED
    BY <2>1, <2>2, <2>3, <2>4, <2>5 DEF ValidPlaces
<1>9. ASSUME ValidPlaces(d, R) PROVE Placed
  <2>1. \A s \in Sites : PlaceOK(d, s[1], s[2])
    BY <1>3, <1>9 DEF ValidPlaces
  <2>2. \A s \in Sites : d.kind[s[1]] = "arr" => ~d.malformed[d.items[s[1]][s[2]]]
    BY <2>1 DEF PlaceOK
  <2>3. \A s \in Opened : LegalIn(d, s[1], At(s))
    BY <1>6, <2>1 DEF PlaceOK
  <2>4. ASSUME NEW s \in Sites, NEW t \in Sites, At(s) = At(t) PROVE s = t
    <3>1. s[1] = t[1] /\ s[2] = t[2]
      BY <1>3, <1>9, <2>4 DEF ValidPlaces
    <3> QED
      BY <1>3, <3>1
  <2>5. ASSUME NEW s \in Opened, NEW t \in Opened, s[1] = t[1], d.kind[s[1]] = "obj",
               DisclosureOf(d, At(s)).name = DisclosureOf(d, At(t)).name
        PROVE  s = t
    <3>1. s \in Sites /\ t \in Sites /\ s[1] \in R
      BY <1>3, <1>6
    <3>2. s[2] \in DOMAIN d.sd[s[1]] /\ t[2] \in DOMAIN d.sd[s[1]]
      BY <1>3, <1>7, <2>5, <3>1
    <3>3. /\ d.sd[s[1]][s[2]] \in Presented(d) /\ d.sd[s[1]][t[2]] \in Presented(d)
          /\ NameAt(d, s[1], s[2]) = NameAt(d, s[1], t[2])
      BY <1>6, <1>7, <2>5, <3>1 DEF NameAt
    <3>4. s[2] = t[2]
      BY <1>9, <2>5, <3>1, <3>2, <3>3 DEF ValidPlaces
    <3> QED
      BY <1>3, <2>5, <3>1, <3>4
  <2>6. \A g \in Presented(d) : \E s \in Sites : At(s) = g
    <3> TAKE g \in Presented(d)
    <3>1. PICK n \in R : \E i \in Embeds(d, n) : EmbeddedAt(d, n, i) = g
      BY <1>9 DEF ValidPlaces
    <3>2. PICK i \in Embeds(d, n) : EmbeddedAt(d, n, i) = g
      BY <3>1
    <3>3. <<n, i>> \in Sites /\ At(<<n, i>>) = g
      BY <1>2, <1>4, <3>2
    <3> QED
      BY <3>3
  <2>7. \A n \in R : d.kind[n] # "ph" /\ (d.kind[n] = "obj" => ~d.malformed[n])
    BY <1>9 DEF ValidPlaces
  <2> QED
    BY <2>2, <2>3, <2>4, <2>5, <2>6, <2>7
<1> QED
  BY <1>1, <1>8, <1>9 DEF R

(* An error before the end is about a document that is not valid. *)
LEMMA RejectedInvalid ==
  ASSUME IInv, ExactInv, RejectInput \/ RejectDigest \/ RejectValue
  PROVE  ~ValidDocument(doc)
<1>1. CASE RejectInput
  BY <1>1, ValidByPlaces DEF RejectInput, InputOK
<1>2. CASE RejectDigest \/ RejectValue
  <2> DEFINE n == top.node
  <2> SUFFICES ASSUME ValidPlaces(doc, Revealed(doc)) PROVE FALSE
    BY ValidByPlaces
  <2>1. status = "running"
    BY <1>2 DEF RejectDigest, RejectValue, Running
  <2>2. RunInv /\ top \in Call /\ n \in Node /\ doc \in Document /\ top.next \in Nat \ {0}
    BY <2>1, TopFacts DEF ExactInv, Call
  <2>3. n \in Revealed(doc)
    BY <2>1, <2>2, TopPlaces DEF RunInv, VisitsRevealed
  <2>4. CASE RejectValue
    <3>1. doc.kind[n] # "ph" /\ (doc.kind[n] = "obj" => ~doc.malformed[n])
      BY <2>3 DEF ValidPlaces
    <3>2. AtPlaceholder /\ doc.malformed[item]
      BY <2>4, <3>1 DEF RejectValue, kindOf
    <3>3. doc.items[n] \in Seq(Node)
      BY <2>2, DocFacts
    <3>4. top.next \in DOMAIN doc.items[n]
      BY <2>2, <3>2, <3>3 DEF AtPlaceholder, AtItem
    <3>5. doc.kind[n] = "arr" /\ top.next \in Embeds(doc, n)
      BY <3>2, <3>4 DEF AtPlaceholder, AtItem, item, kindOf, Embeds
    <3>6. PlaceOK(doc, n, top.next)
      BY <2>3, <3>5 DEF ValidPlaces
    <3> QED
      BY <3>2, <3>5, <3>6 DEF PlaceOK, item
  <2>5. CASE RejectDigest
    <3>1. PICK g \in Digest : /\ AtDigest(g)
                              /\ \/ g \in usedDigests
                                 \/ g \in Presented(doc) /\ ~Fits(DisclosureOf(doc, g))
      BY <2>5 DEF RejectDigest
    <3>2. /\ top.next \in Embeds(doc, n) /\ EmbeddedAt(doc, n, top.next) = g
          /\ \/ /\ kindOf = "obj" /\ top.todo = {} /\ top.next \in DOMAIN doc.sd[n]
                /\ doc.sd[n][top.next] = g
             \/ kindOf = "arr"
      BY <2>1, <3>1, AtDigestFacts
    <3>3. CASE g \in usedDigests
      <4>1. PICK m \in Node : \E i \in Embeds(doc, m) : Passed(m, i) /\ EmbeddedAt(doc, m, i) = g
        BY <2>2, <3>3 DEF RunInv, DigestsOfPassed
      <4>2. PICK i \in Embeds(doc, m) : Passed(m, i) /\ EmbeddedAt(doc, m, i) = g
        BY <4>1
      <4>3. Visited(m)
        BY <4>2 DEF Passed, Visited
      <4>4. m \in Revealed(doc)
        BY <2>2, <4>3 DEF RunInv, VisitsRevealed
      <4>5. m = n /\ i = top.next
        BY <2>3, <3>2, <4>2, <4>4 DEF ValidPlaces
      <4>6. ~Passed(n, top.next)
        BY <2>1, <2>2, TopPlaces
      <4> QED
        BY <4>2, <4>5, <4>6
    <3>4. CASE g \in Presented(doc) /\ ~Fits(DisclosureOf(doc, g))
      <4>1. LegalIn(doc, n, g)
        BY <2>3, <3>2, <3>4 DEF ValidPlaces, PlaceOK
      <4>2. CASE kindOf = "arr"
        BY <3>4, <4>1, <4>2 DEF Fits, LegalIn, kindOf
      <4>3. CASE kindOf = "obj" /\ top.todo = {} /\ top.next \in DOMAIN doc.sd[n]
                 /\ doc.sd[n][top.next] = g
        <5>1. /\ DisclosureOf(doc, g).name \in DOMAIN top.result.claims
              /\ DisclosureOf(doc, g).name \notin DOMAIN doc.props[n]
          BY <3>4, <4>1, <4>3 DEF Fits, LegalIn, kindOf
        <5>2. ClaimsSoFar(doc, n, top.todo, top.next, top.result.claims)
          BY <2>2, <4>3 DEF RunInv, CallsSoFar, CallSoFar, SoFar, kindOf
        <5>3. PICK j \in OpenedBefore(doc, n, top.next) : NameAt(doc, n, j) = DisclosureOf(doc, g).name
          BY <5>1, <5>2 DEF ClaimsSoFar
        <5>4. /\ j \in DOMAIN doc.sd[n] /\ j < top.next /\ doc.sd[n][j] \in Presented(doc)
              /\ NameAt(doc, n, j) = NameAt(doc, n, top.next)
          BY <4>3, <5>3 DEF OpenedBefore, NameAt
        <5>5. j = top.next
          BY <2>3, <3>4, <4>3, <5>4 DEF ValidPlaces, kindOf
        <5> QED
          BY <2>2, <5>4, <5>5
      <4> QED
        BY <3>2, <4>2, <4>3
    <3> QED
      BY <3>1, <3>3, <3>4
  <2> QED
    BY <1>2, <2>4, <2>5
<1> QED
  BY <1>1, <1>2

(* When the outermost call has finished, all that is revealed was visited  *)
(* and passed, and the disclosures used are the ones embedded there.       *)
LEMMA AllVisited ==
  ASSUME IInv, RunInv, status = "running", Finished, Len(stack) = 1
  PROVE  /\ top.node = Root
         /\ Revealed(doc) = DOMAIN resolved \cup {Root}
         /\ \A n \in Revealed(doc) : \A i \in Embeds(doc, n) : Passed(n, i)
         /\ usedDisclosures = usedDigests \cap Presented(doc)
         /\ \A g \in usedDigests : \E n \in Revealed(doc) : \E i \in Embeds(doc, n) :
              EmbeddedAt(doc, n, i) = g
<1> DEFINE V == DOMAIN resolved \cup {Root}
<1>1. /\ doc \in Document /\ top \in Call /\ top = stack[1] /\ top.next \in Nat \ {0}
      /\ DOMAIN resolved \subseteq Node /\ Root \in Node
  BY TopFacts, RootIsNode DEF Call, IInv, TypeOK
<1>2. top.node = Root /\ top.slot.digest = NoDigest
  BY <1>1 DEF RunInv, VisitsRevealed
<1>3. \A n : Visited(n) <=> n \in V
  <2>1. \A p \in 1..Len(stack) : p = 1
    OBVIOUS
  <2>2. 1 \in 1..Len(stack)
    OBVIOUS
  <2> QED
    BY <1>1, <1>2, <2>1, <2>2 DEF Visited
<1>4. /\ kindOf = "obj" => top.todo = {}
      /\ \A i \in Positions(doc, Root) : i < top.next
  BY <1>2, FinishedAll
<1>5. ASSUME NEW n \in V, NEW i \in Positions(doc, n) PROVE Passed(n, i)
  <2>1. CASE n \in DOMAIN resolved
    BY <2>1 DEF Passed
  <2>2. CASE n = Root
    BY <1>1, <1>2, <1>4, <2>2 DEF Passed
  <2> QED
    BY <2>1, <2>2
<1>6. ASSUME NEW n \in V, NEW x \in PlainAt(doc, n) PROVE ChildAt(doc, n, x) \in V
  <2>1. n \in Node
    BY <1>1
  <2>2. Taken(n, x)
    <3>1. CASE doc.kind[n] = "obj"
      <4>1. CASE n \in DOMAIN resolved
        BY <3>1, <4>1 DEF Taken, KeyTaken
      <4>2. CASE n = Root
        BY <1>1, <1>2, <1>4, <3>1, <4>2 DEF Taken, KeyTaken, kindOf
      <4> QED
        BY <4>1, <4>2
    <3>2. CASE doc.kind[n] # "obj"
      <4>1. x \in Positions(doc, n)
        BY <1>1, <2>1, <3>2, PositionFacts
      <4> QED
        BY <1>5, <3>2, <4>1 DEF Taken
    <3> QED
      BY <3>1, <3>2
  <2>3. Visited(ChildAt(doc, n, x))
    BY <2>1, <2>2 DEF RunInv, VisitedByPlace
  <2> QED
    BY <1>3, <2>3
<1>7. ASSUME NEW n \in V, NEW i \in Embeds(doc, n)
      PROVE  Passed(n, i) /\ EmbeddedAt(doc, n, i) \in usedDigests
  <2>1. n \in Node /\ i \in Positions(doc, n)
    BY <1>1, PositionFacts
  <2>2. Passed(n, i)
    BY <1>5, <2>1
  <2> QED
    BY <2>1, <2>2 DEF RunInv, DigestsOfPassed
<1>8. ASSUME NEW g \in usedDigests \cap Presented(doc) PROVE DisclosureOf(doc, g).value \in V
  BY <1>3 DEF RunInv, VisitedByPlace
<1> HIDE DEF V
<1>9. Grow(doc, V) \subseteq V
  <2>1. \A n \in V : PlainChildren(doc, n) \subseteq V
    BY <1>6 DEF PlainChildren
  <2>2. \A n \in V : DisclosedChildren(doc, n) \subseteq V
    BY <1>7, <1>8 DEF DisclosedChildren
  <2> QED
    BY <2>1, <2>2 DEF Grow
<1>10. Revealed(doc) = V
  <2>1. V \subseteq Node /\ Root \in V
    BY <1>1 DEF V
  <2>2. Revealed(doc) \subseteq V
    BY <1>1, <1>9, <2>1, RevealedLeast
  <2>3. V \subseteq Revealed(doc)
    BY <1>3, <2>1 DEF RunInv, VisitsRevealed
  <2> QED
    BY <2>2, <2>3
<1>11. usedDisclosures = usedDigests \cap Presented(doc)
  <2>1. usedDisclosures \subseteq usedDigests \cap Presented(doc)
    BY DEF RunInv, OpenedRecorded, IInv, TypeOK
  <2>2. ASSUME NEW g \in usedDigests \cap Presented(doc) PROVE g \in usedDisclosures
    <3>1. g # NoDigest
      BY <1>1, DisclosureFacts, MarkersAreFresh
    <3>2. \A p \in 1..Len(stack) : p = 1
      OBVIOUS
    <3>3. \A p \in 1..Len(stack) : stack[p].slot.digest # g
      BY <1>1, <1>2, <3>1, <3>2
    <3> QED
      BY <3>3 DEF RunInv, OpenedRecorded
  <2> QED
    BY <2>1, <2>2
<1>12. ASSUME NEW g \in usedDigests
       PROVE  \E n \in V : \E i \in Embeds(doc, n) : EmbeddedAt(doc, n, i) = g
  <2>1. PICK n \in Node : \E i \in Embeds(doc, n) : Passed(n, i) /\ EmbeddedAt(doc, n, i) = g
    BY DEF RunInv, DigestsOfPassed
  <2>2. PICK i \in Embeds(doc, n) : Passed(n, i) /\ EmbeddedAt(doc, n, i) = g
    BY <2>1
  <2>3. Visited(n)
    BY <2>2 DEF Passed, Visited
  <2>4. n \in V
    BY <1>3, <2>3
  <2> QED
    BY <2>2, <2>4
<1> QED
  BY <1>2, <1>7, <1>10, <1>11, <1>12 DEF V

(* The verdict of the outermost call is the right one, and so is its result. *)
LEMMA FinishExact == IInv /\ RunInv /\ Finish => (VerdictExact /\ ResultExact)'
<1> SUFFICES ASSUME IInv, RunInv, Finish PROVE (VerdictExact /\ ResultExact)'
  OBVIOUS
<1> DEFINE R == Revealed(doc)
<1>1. status = "running" /\ Finished /\ Len(stack) = 1
  BY DEF Finish, Running
<1>2. /\ top.node = Root /\ R = DOMAIN resolved \cup {Root}
      /\ \A n \in R : \A i \in Embeds(doc, n) : Passed(n, i)
      /\ usedDisclosures = usedDigests \cap Presented(doc)
      /\ \A g \in usedDigests : \E n \in R : \E i \in Embeds(doc, n) : EmbeddedAt(doc, n, i) = g
  BY <1>1, AllVisited
<1>3. R \subseteq Node /\ doc \in Document
  BY <1>1, TopFacts, RevealedClosed
<1>4. usedDisclosures = Presented(doc) <=> AllUsed
  <2>1. IsFiniteSet(Presented(doc)) /\ usedDisclosures \in SUBSET Presented(doc)
    BY <1>3, PresentedFinite DEF IInv, TypeOK
  <2> QED
    BY <2>1, FS_Subset DEF AllUsed
<1>5. CASE AllUsed
  <2>1. /\ status' = "ok" /\ doc' = doc
        /\ resolved' = Bind(resolved, top.node, top.result)
    BY <1>5 DEF Finish
  <2>2. /\ DOMAIN resolved' = R
        /\ \A n \in R : resolved'[n] = IF n = Root THEN top.result ELSE resolved[n]
    BY <1>2, <2>1 DEF Bind
  <2>3. /\ top.result = Expected(doc, Root) /\ doc.kind[Root] # "ph"
        /\ doc.kind[Root] = "obj" => ~doc.malformed[Root]
    BY <1>1, <1>2, FinishedExpected, FinishedAll DEF kindOf
  <2>4. \A n \in R : doc.kind[n] # "ph" /\ (doc.kind[n] = "obj" => ~doc.malformed[n])
    BY <1>2, <2>3 DEF RunInv, ResolvedOK
  <2>5. \A n \in R : resolved'[n] = Expected(doc, n)
    BY <1>2, <2>2, <2>3 DEF RunInv, ResolvedOK
  <2>6. \A n \in R : \A i \in Embeds(doc, n) : PlaceOK(doc, n, i)
    BY <1>2, <1>3 DEF RunInv, PassedOK
  <2>7. \A m, n \in R : \A i \in Embeds(doc, m), j \in Embeds(doc, n) :
          EmbeddedAt(doc, m, i) = EmbeddedAt(doc, n, j) => m = n /\ i = j
    BY <1>2, <1>3 DEF RunInv, DigestsOfPassed
  <2>8. \A n \in R : doc.kind[n] = "obj" =>
          \A i, j \in DOMAIN doc.sd[n] :
            /\ doc.sd[n][i] \in Presented(doc) /\ doc.sd[n][j] \in Presented(doc)
            /\ NameAt(doc, n, i) = NameAt(doc, n, j)
            => i = j
    <3>1. \A n \in R : doc.kind[n] = "obj" => \A i \in DOMAIN doc.sd[n] : Passed(n, i)
      BY <1>2 DEF Embeds
    <3> QED
      BY <1>3, <3>1 DEF RunInv, PassedOK
  <2>9. \A g \in Presented(doc) : \E n \in R : \E i \in Embeds(doc, n) : EmbeddedAt(doc, n, i) = g
    BY <1>2, <1>4, <1>5
  <2>10. ValidPlaces(doc, R)
    BY <2>4, <2>6, <2>7, <2>8, <2>9 DEF ValidPlaces
  <2>11. ValidDocument(doc)
    BY <2>10, ValidByPlaces DEF RunInv, InputOK
  <2> QED
    BY <2>1, <2>2, <2>5, <2>11 DEF VerdictExact, ResultExact
<1>6. CASE ~AllUsed
  <2>1. status' = "error" /\ doc' = doc
    BY <1>6 DEF Finish, Fail
  <2>2. ASSUME ValidDocument(doc) PROVE FALSE
    <3>1. \A g \in Presented(doc) : \E n \in R : \E i \in Embeds(doc, n) : EmbeddedAt(doc, n, i) = g
      BY <2>2, ValidByPlaces DEF ValidPlaces
    <3>2. \A n \in R : \A i \in Embeds(doc, n) : EmbeddedAt(doc, n, i) \in usedDigests
      BY <1>2, <1>3 DEF RunInv, DigestsOfPassed
    <3>3. Presented(doc) \subseteq usedDigests
      BY <3>1, <3>2
    <3> QED
      BY <1>2, <1>4, <1>6, <3>3
  <2> QED
    BY <2>1, <2>2 DEF VerdictExact, ResultExact
<1> QED
  BY <1>5, <1>6

-----------------------------------------------------------------------------
(* ExactInv is an invariant: every step of a running call keeps RunInv, and  *)
(* the step that ends it decides as the document's validity demands.        *)
THEOREM ExactInductive == Spec => []ExactInv
<1>1. Init => ExactInv
  BY DEF Init, Start, ExactInv, VerdictExact, ResultExact
<1>2. IInv /\ ExactInv /\ [Next]_vars => ExactInv'
  <2> SUFFICES ASSUME IInv, ExactInv, [Next]_vars PROVE ExactInv'
    OBVIOUS
  <2> DEFINE Step == VisitKey \/ VisitItem \/ SkipDigest \/ OpenDisclosure \/ Return
  <2>1. CASE Begin
    <3>1. RunInv' /\ status' = "running"
      BY <2>1, BeginRun DEF Begin
    <3> QED
      BY <3>1 DEF ExactInv, VerdictExact, ResultExact
  <2>2. CASE Step
    <3>1. status = "running" /\ status' = "running"
      BY <2>2 DEF VisitKey, VisitItem, SkipDigest, OpenDisclosure, Return, Running
    <3>2. RunInv
      BY <3>1 DEF ExactInv
    <3>3. RunInv'
      BY <2>2, <3>2, VisitKeyRun, VisitItemRun, SkipDigestRun, OpenDisclosureRun, ReturnRun
    <3> QED
      BY <3>1, <3>3 DEF ExactInv, VerdictExact, ResultExact
  <2>3. CASE RejectInput \/ RejectDigest \/ RejectValue
    <3>1. ~ValidDocument(doc) /\ status' = "error" /\ doc' = doc /\ stack' = <<>>
      BY <2>3, RejectedInvalid DEF RejectInput, RejectDigest, RejectValue, Fail
    <3> QED
      BY <3>1 DEF ExactInv, VerdictExact, ResultExact
  <2>4. CASE Finish
    <3>1. status = "running" /\ status' \in {"ok", "error"} /\ stack' = <<>>
      BY <2>4 DEF Finish, Fail, Running
    <3>2. (VerdictExact /\ ResultExact)'
      BY <2>4, <3>1, FinishExact DEF ExactInv
    <3> QED
      BY <3>1, <3>2 DEF ExactInv
  <2>5. CASE UNCHANGED vars
    <3>1. UNCHANGED <<doc, status, stack, usedDigests, usedDisclosures, resolved>>
      BY <2>5 DEF vars
    <3>2. RunInv => RunInv'
      BY <3>1 DEF RunInv, InputOK, VisitsOnce, VisitsRevealed, VisitedByPlace, DigestsOfPassed,
           OpenedRecorded, PassedOK, CallsSoFar, ResolvedOK, Visited, Taken, KeyTaken, Passed,
           CallSoFar, After, top
    <3>3. VerdictExact' /\ ResultExact'
      BY <3>1 DEF ExactInv, VerdictExact, ResultExact
    <3> QED
      BY <3>1, <3>2, <3>3 DEF ExactInv
  <2> QED
    BY <2>1, <2>2, <2>3, <2>4, <2>5 DEF Next
<1> QED
  BY <1>1, <1>2, Inductive, PTL DEF Spec

(***************************************************************************)
(* For every payload, every list of disclosures and every order of map     *)
(* iteration, ProcessSDJWTPayload returns an error exactly if the document *)
(* is not valid in the sense of RFC 9901, 7.1.                             *)
(***************************************************************************)
THEOREM VerdictIsExact == Spec => []VerdictExact
BY ExactInductive, PTL DEF ExactInv

(***************************************************************************)
(* When it succeeds, each node it resolved is one the disclosures reveal,  *)
(* none is missing, and each has become what the document says: signed and *)
(* disclosed claims under their names, array items in their order.         *)
(***************************************************************************)
THEOREM ResultIsExact == Spec => []ResultExact
BY ExactInductive, PTL DEF ExactInv

(***************************************************************************)
(* Whatever cycles the digests form, no value is processed inside itself   *)
(* or a second time: the recursion is as deep as there are values at most. *)
(***************************************************************************)
THEOREM ValuesAreVisitedOnce == Spec => []VisitsOnce
<1>1. ExactInv => VisitsOnce
  <2> SUFFICES ASSUME ExactInv, stack = <<>> PROVE VisitsOnce
    BY DEF ExactInv, RunInv
  <2> QED
    BY DEF VisitsOnce
<1> QED
  BY <1>1, ExactInductive, PTL
=============================================================================
