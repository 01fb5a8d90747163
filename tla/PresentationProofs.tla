------------------------- MODULE PresentationProofs -------------------------
(***************************************************************************)
(* Proofs about Presentation for every tree of claims, every disclosure    *)
(* frame, every choice of decoys and every order of the hash values.       *)
(*                                                                         *)
(* The packed payload is described value by value (ValueFacts), which      *)
(* makes it a document (CarriedTree) whose revealed part is the tree cut   *)
(* off at what is not disclosed (CarriedRevealed, CutExpected) and which   *)
(* is valid if nothing is disclosed out of reach (CarriedValid): all of it *)
(* for any set of disclosures.  With every disclosure it is RoundTrip.     *)
(*                                                                         *)
(* Each value of the tree has one path, and a path is a prefix of another  *)
(* just if one value is inside the other (PathsMean).  So the walk ends    *)
(* with every key known (KeysExact), paths select what they name and what  *)
(* is around it (SelectedOpens), and the verifier sees the tree cut off    *)
(* where the promise says (Implements).  The paths by which the verifier   *)
(* looks for required claims agree with these up to their first index      *)
(* (DisclosedSeen), and so do the objects on the way to a claim that is    *)
(* required by name (FoundExact, MissingIsExact).                          *)
(***************************************************************************)
EXTENDS Presentation, FiniteSetTheorems, TLAPS

(* What has been proved about payloads, of any document. *)
PP == INSTANCE ProcessPayloadProofs
        WITH doc <- <<>>, status <- "called", stack <- <<>>, usedDigests <- {},
             usedDisclosures <- {}, resolved <- <<>>

LEMMA Assumed == PP!RootIsNode /\ PP!NodesFinite /\ PP!DefaultIsSupported /\ PP!MarkersAreFresh
BY RootIsNode, NodesFinite, DefaultIsSupported, MarkersAreFresh
   DEF PP!RootIsNode, PP!NodesFinite, PP!DefaultIsSupported, PP!MarkersAreFresh, PP!NoDigest,
       PP!Elem, PP!IsFiniteSet, IsFiniteSet, NoVia

LEMMA SameCardinality == \A S : PP!Cardinality(S) = Cardinality(S)
BY Zenon DEF PP!Cardinality, Cardinality

(* The operators on documents are those of the instance. *)
LEMMA SameParts ==
  /\ \A d : PP!Presented(d) = Presented(d)
  /\ \A d, g : PP!DisclosureOf(d, g) = DisclosureOf(d, g)
  /\ \A d, n : PP!Embeds(d, n) = Embeds(d, n) /\ PP!PlainAt(d, n) = PlainAt(d, n)
  /\ \A d, n, i : PP!EmbeddedAt(d, n, i) = EmbeddedAt(d, n, i) /\ PP!ChildAt(d, n, i) = ChildAt(d, n, i)
BY Zenon DEF PP!Presented, Presented, PP!DisclosureOf, DisclosureOf, PP!Embeds, Embeds,
  PP!PlainAt, PlainAt, PP!EmbeddedAt, EmbeddedAt, PP!ChildAt, ChildAt

LEMMA SameChildren ==
  \A d, n : PP!PlainChildren(d, n) = PlainChildren(d, n)
            /\ PP!DisclosedChildren(d, n) = DisclosedChildren(d, n)
BY SameParts DEF PP!PlainChildren, PlainChildren, PP!DisclosedChildren, DisclosedChildren

LEMMA SameDocument == PP!Document = Document
BY Zenon DEF PP!Document, Document, PP!Parts, Parts, PP!Partial, Partial, PP!Kind, Kind,
  PP!Disclosure, Disclosure, PP!IsTree, IsTree, PP!DisclosedValues, DisclosedValues,
  PP!PlainChildren, PlainChildren, PP!PlainAt, PlainAt, PP!ChildAt, ChildAt, PP!Embeds, Embeds,
  PP!Presented, Presented, PP!DisclosureOf, DisclosureOf

LEMMA SameRevealed == \A d : PP!Revealed(d) = Revealed(d)
BY Zenon DEF PP!Revealed, Revealed, PP!Cardinality, Cardinality, PP!PlainChildren, PlainChildren,
  PP!DisclosedChildren, DisclosedChildren, PP!PlainAt, PlainAt, PP!ChildAt, ChildAt,
  PP!Embeds, Embeds, PP!EmbeddedAt, EmbeddedAt, PP!Presented, Presented, PP!DisclosureOf, DisclosureOf

LEMMA SameLegal ==
  /\ \A d : PP!ResolveHashAlgorithm(d) = ResolveHashAlgorithm(d)
  /\ \A d : PP!DistinctDisclosures(d) = DistinctDisclosures(d)
  /\ \A d, n, g : PP!LegalIn(d, n, g) = LegalIn(d, n, g)
BY Zenon DEF PP!ResolveHashAlgorithm, ResolveHashAlgorithm, PP!DistinctDisclosures,
  DistinctDisclosures, PP!LegalIn, LegalIn, PP!DisclosureOf, DisclosureOf, PP!NoAlg, NoAlg,
  PP!ReservedNames, ReservedNames

LEMMA SameValid == \A d : PP!ValidDocument(d) = ValidDocument(d)
BY SameRevealed, SameLegal, SameParts DEF PP!ValidDocument, ValidDocument

LEMMA SameItems == \A d, n : PP!ItemsUpTo(d, n) = ItemsUpTo(d, n)
BY Zenon DEF PP!ItemsUpTo, ItemsUpTo, PP!Presented, Presented, PP!DisclosureOf, DisclosureOf

(* Induction over the naturals, by sets. *)
LEMMA Induction ==
  ASSUME NEW S, 0 \in S, \A k \in Nat : k \in S => k + 1 \in S
  PROVE  Nat \subseteq S
BY PP!SetInduction, Assumed

-----------------------------------------------------------------------------
(* Sequences. *)

(* What the prefix of length i of s leaves in the list t of members of S. *)
KeptUpTo(t, s, S, i) ==
  /\ \A j \in 1..Len(t) : \E k \in 1..i : t[j] = s[k] /\ s[k] \in S
  /\ \A k \in 1..i : s[k] \in S => \E j \in 1..Len(t) : t[j] = s[k]
  /\ (\A j, l \in 1..i : s[j] = s[l] => j = l) => \A j, l \in 1..Len(t) : t[j] = t[l] => j = l

(* The elements kept so far, position by position. *)
IsKept(w, s, S) ==
  /\ w[0] = <<>> /\ Kept(s, S) = w[Len(s)]
  /\ \A i \in 1..Len(s) : w[i] = IF s[i] \in S THEN Append(w[i - 1], s[i]) ELSE w[i - 1]

LEMMA KeptByPosition ==
  ASSUME NEW T, NEW s \in Seq(T), NEW S
  PROVE  \E w : IsKept(w, s, S)
<1> DEFINE N == Len(s)
           Add(i, t) == IF i \in 1..N /\ s[i] \in S THEN Append(t, s[i]) ELSE t
           step == [i \in Nat |-> [t \in Seq(T) |-> Add(i, t)]]
           Eqn(w) == w = [i \in 0..N |->
                            IF i = 0 THEN <<>>
                            ELSE IF s[i] \in S THEN Append(w[i - 1], s[i]) ELSE w[i - 1]]
<1>1. N \in Nat /\ \A i \in 1..N : s[i] \in T
  OBVIOUS
<1>2. step \in [Nat -> [Seq(T) -> Seq(T)]]
  <2>1. ASSUME NEW i \in Nat, NEW t \in Seq(T) PROVE Add(i, t) \in Seq(T)
    BY <1>1
  <2> HIDE DEF Add
  <2> QED
    BY <2>1
<1>3. <<>> \in Seq(T)
  OBVIOUS
<1> HIDE DEF step, N, Add
<1>4. PICK f \in [0..N -> Seq(T)] :
        f[0] = <<>> /\ \A k \in 1..N : f[k] = step[k][f[k - 1]]
  <2>1. \E f : PP!IsRecursion(f, Seq(T), <<>>, step, N)
    BY <1>1, <1>2, <1>3, PP!RecursionExists, Assumed
  <2> QED
    BY <2>1 DEF PP!IsRecursion
<1>5. \A k \in 1..N : f[k] = Add(k, f[k - 1])
  <2> TAKE k \in 1..N
  <2>1. k - 1 \in 0..N
    BY <1>1
  <2>2. k \in Nat /\ f[k - 1] \in Seq(T)
    BY <2>1
  <2>3. step[k][f[k - 1]] = Add(k, f[k - 1])
    BY <2>2 DEF step
  <2> QED
    BY <1>4, <2>3
<1>6. Eqn(f)
  <2>1. \A k \in 0..N : k # 0 => k \in 1..N
    BY <1>1
  <2>2. \A k \in 0..N : f[k] = IF k = 0 THEN <<>> ELSE Add(k, f[k - 1])
    BY <1>4, <1>5, <2>1
  <2>3. \A k \in 0..N : f[k] = IF k = 0 THEN <<>>
                               ELSE IF s[k] \in S THEN Append(f[k - 1], s[k]) ELSE f[k - 1]
    BY <2>1, <2>2 DEF Add
  <2> QED
    BY <2>3
<1>7. PICK w : Eqn(w) /\ Kept(s, S) = w[N]
  BY <1>6, Zenon DEF Kept, N
<1>8. \A k \in 0..N : w[k] = IF k = 0 THEN <<>>
                             ELSE IF s[k] \in S THEN Append(w[k - 1], s[k]) ELSE w[k - 1]
  BY <1>7, Zenon
<1>9. 0 \in 0..N /\ \A k \in 1..N : k \in 0..N /\ k # 0
  BY <1>1
<1>10. IsKept(w, s, S)
  BY <1>7, <1>8, <1>9 DEF IsKept, N
<1> QED
  BY <1>10

(* Kept lists the members of S that occur in s, each once if s does. *)
LEMMA KeptFacts ==
  ASSUME NEW T, NEW s \in Seq(T), NEW S
  PROVE  Kept(s, S) \in Seq(T) /\ KeptUpTo(Kept(s, S), s, S, Len(s))
<1> DEFINE N == Len(s)
<1>1. N \in Nat /\ \A i \in 1..N : s[i] \in T
  OBVIOUS
<1>2. PICK w : IsKept(w, s, S)
  BY KeptByPosition
<1>3. /\ w[0] = <<>> /\ Kept(s, S) = w[N]
      /\ \A k \in 1..N : w[k] = IF s[k] \in S THEN Append(w[k - 1], s[k]) ELSE w[k - 1]
  BY <1>2 DEF IsKept
<1> HIDE DEF N
<1> DEFINE Good(k) == w[k] \in Seq(T) /\ KeptUpTo(w[k], s, S, k)
           M == {k \in Nat : k \in 0..N => Good(k)}
<1>4. 0 \in M
  <2>1. w[0] = <<>>
    BY <1>3
  <2>2. KeptUpTo(<<>>, s, S, 0)
    BY DEF KeptUpTo
  <2>3. <<>> \in Seq(T)
    OBVIOUS
  <2> QED
    BY <2>1, <2>2, <2>3
<1>5. ASSUME NEW k \in Nat, k \in M PROVE k + 1 \in M
  <2> SUFFICES ASSUME k + 1 \in 0..N PROVE Good(k + 1)
    OBVIOUS
  <2> DEFINE t == w[k]
             x == s[k + 1]
  <2>1. k \in 0..N /\ k + 1 \in 1..N /\ (k + 1) - 1 = k /\ k + 1 # 0
    BY <1>1
  <2>2. w[k + 1] = IF x \in S THEN Append(t, x) ELSE t
    BY <1>3, <2>1
  <2>3. t \in Seq(T) /\ KeptUpTo(t, s, S, k) /\ x \in T
    BY <1>1, <1>5, <2>1
  <2>4. \A j \in 1..k + 1 : j \in 1..k \/ j = k + 1
    OBVIOUS
  <2> DEFINE distinct == \A j, l \in 1..k + 1 : s[j] = s[l] => j = l
  <2>5. /\ \A j \in 1..k : j \in 1..k + 1 /\ (distinct => s[j] # x)
        /\ distinct => \A j, l \in 1..k : s[j] = s[l] => j = l
    OBVIOUS
  <2> HIDE DEF t, x
  <2>6. CASE x \notin S
    <3>1. /\ \A j \in 1..Len(t) : \E i \in 1..k + 1 : t[j] = s[i] /\ s[i] \in S
          /\ \A i \in 1..k + 1 : s[i] \in S => \E j \in 1..Len(t) : t[j] = s[i]
      BY <2>3, <2>4, <2>5, <2>6 DEF KeptUpTo, x
    <3>2. distinct => \A j, l \in 1..Len(t) : t[j] = t[l] => j = l
      BY <2>3, <2>5 DEF KeptUpTo
    <3>3. KeptUpTo(t, s, S, k + 1)
      BY <3>1, <3>2 DEF KeptUpTo
    <3> QED
      BY <2>2, <2>3, <2>6, <3>3
  <2>7. CASE x \in S
    <3> DEFINE u == Append(t, x)
               l == Len(t)
    <3>1. /\ l \in Nat /\ Len(u) = l + 1 /\ u[l + 1] = x /\ \A j \in 1..l : u[j] = t[j]
          /\ u \in Seq(T)
      BY <2>3
    <3>2. \A j \in 1..l + 1 : j \in 1..l \/ j = l + 1
      BY <3>1
    <3>3. /\ l + 1 \in 1..l + 1 /\ k + 1 \in 1..k + 1
          /\ \A j \in 1..l : j \in 1..l + 1
      BY <3>1
    <3> HIDE DEF u, l
    <3>4. distinct => \A j \in 1..l : u[j] # x
      BY <2>3, <2>5, <3>1 DEF KeptUpTo, l
    <3>5. \A j \in 1..Len(u) : \E i \in 1..k + 1 : u[j] = s[i] /\ s[i] \in S
      <4>1. u[l + 1] = s[k + 1] /\ s[k + 1] \in S
        BY <2>7, <3>1 DEF x
      <4>2. \A j \in 1..l : \E i \in 1..k : u[j] = s[i] /\ s[i] \in S
        BY <2>3, <3>1 DEF KeptUpTo, l
      <4> QED
        BY <2>5, <3>1, <3>2, <3>3, <4>1, <4>2
    <3>6. \A i \in 1..k + 1 : s[i] \in S => \E j \in 1..Len(u) : u[j] = s[i]
      <4>1. \A i \in 1..k : s[i] \in S => \E j \in 1..l : t[j] = s[i]
        BY <2>3 DEF KeptUpTo, l
      <4>2. \A i \in 1..k : s[i] \in S => \E j \in 1..l + 1 : u[j] = s[i]
        BY <3>1, <3>3, <4>1
      <4> QED
        BY <2>4, <3>1, <3>3, <4>2 DEF x
    <3>7. distinct => \A i, j \in 1..Len(u) : u[i] = u[j] => i = j
      <4>1. distinct => \A i, j \in 1..l : u[i] = u[j] => i = j
        BY <2>3, <2>5, <3>1 DEF KeptUpTo, l
      <4> QED
        BY <3>1, <3>2, <3>4, <4>1
    <3>8. KeptUpTo(u, s, S, k + 1)
      BY <3>5, <3>6, <3>7 DEF KeptUpTo
    <3> QED
      BY <2>2, <2>7, <3>1, <3>8 DEF u
  <2> QED
    BY <2>6, <2>7
<1> HIDE DEF M
<1>6. N \in M
  BY <1>1, <1>4, <1>5, Induction
<1>7. N \in 0..N
  BY <1>1
<1> QED
  BY <1>3, <1>6, <1>7 DEF M, N

(* A prefix with the next element is the next prefix. *)
LEMMA PrefixAppend ==
  ASSUME NEW T, NEW s \in Seq(T), NEW i \in Nat, i + 1 \in 1..Len(s)
  PROVE  Append([j \in 1..i |-> s[j]], s[i + 1]) = [j \in 1..i + 1 |-> s[j]]
<1> DEFINE t == [j \in 1..i |-> s[j]]
<1>1. \A j \in 1..i + 1 : s[j] \in T
  OBVIOUS
<1>2. t \in Seq(T) /\ Len(t) = i
  BY <1>1
<1>3. Append(t, s[i + 1]) = [j \in 1..i + 1 |-> IF j = i + 1 THEN s[i + 1] ELSE t[j]]
  BY <1>2
<1> QED
  BY <1>3

(* A list of what is all wanted stays as it is. *)
LEMMA KeptAll ==
  ASSUME NEW T, NEW s \in Seq(T), NEW S, \A i \in 1..Len(s) : s[i] \in S
  PROVE  Kept(s, S) = s
<1> DEFINE N == Len(s)
<1>1. PICK w : IsKept(w, s, S)
  BY KeptByPosition
<1>2. w[0] = <<>> /\ Kept(s, S) = w[N] /\ \A i \in 1..N : w[i] = Append(w[i - 1], s[i])
  BY <1>1 DEF IsKept
<1>3. N \in Nat
  OBVIOUS
<1> DEFINE M == {i \in Nat : i \in 0..N => w[i] = [j \in 1..i |-> s[j]]}
<1> HIDE DEF N
<1>4. 0 \in M
  BY <1>2
<1>5. ASSUME NEW i \in Nat, i \in M PROVE i + 1 \in M
  <2> SUFFICES ASSUME i + 1 \in 0..N PROVE w[i + 1] = [j \in 1..i + 1 |-> s[j]]
    OBVIOUS
  <2>1. i \in 0..N /\ i + 1 \in 1..N /\ (i + 1) - 1 = i
    BY <1>3
  <2>2. w[i + 1] = Append([j \in 1..i |-> s[j]], s[i + 1])
    BY <1>2, <1>5, <2>1
  <2> QED
    BY <2>1, <2>2, PrefixAppend DEF N
<1> HIDE DEF M
<1>6. Nat \subseteq M
  BY <1>4, <1>5, Induction
<1>7. N \in M /\ N \in 0..N
  BY <1>3, <1>6
<1>8. w[N] = [j \in 1..N |-> s[j]]
  BY <1>7 DEF M
<1>9. s = [j \in 1..N |-> s[j]]
  BY DEF N
<1> QED
  BY <1>2, <1>8, <1>9

(* Of no elements none is kept. *)
LEMMA KeptNone == \A S : Kept(<<>>, S) = <<>>
<1> TAKE S
<1>1. <<>> \in Seq({}) /\ \A i \in 1..Len(<<>>) : <<>>[i] \in S
  OBVIOUS
<1> QED
  BY <1>1, KeptAll

(* SetToSeq lists each member of a finite set once. *)
LEMMA SetToSeqFacts ==
  ASSUME NEW S, IsFiniteSet(S)
  PROVE  /\ SetToSeq(S) \in Seq(S)
         /\ \A x \in S : \E i \in 1..Len(SetToSeq(S)) : SetToSeq(S)[i] = x
         /\ \A i, j \in 1..Len(SetToSeq(S)) : SetToSeq(S)[i] = SetToSeq(S)[j] => i = j
<1> DEFINE n == Cardinality(S)
           f == SetToSeq(S)
<1>1. n \in Nat /\ ExistsBijection(1..n, S)
  BY FS_CardinalityType
<1>2. \E g \in [1..n -> S] : IsInjective(g)
  BY <1>1 DEF ExistsBijection, Bijection, Injection
<1>3. f \in [1..n -> S] /\ IsInjective(f)
  BY <1>2 DEF SetToSeq
<1>4. f \in Injection(1..n, S)
  BY <1>3 DEF Injection
<1>5. IsFiniteSet(1..n) /\ Cardinality(1..n) = n
  BY <1>1, FS_Interval
<1> HIDE DEF f, n
<1>6. \A x \in S : \E i \in 1..n : f[i] = x
  <2> SUFFICES ASSUME NEW x \in S, \A i \in 1..n : f[i] # x PROVE FALSE
    OBVIOUS
  <2> DEFINE R == S \ {x}
  <2>1. f \in Injection(1..n, R)
    BY <1>3 DEF Injection
  <2>2. IsFiniteSet(R) /\ Cardinality(R) = n - 1
    BY FS_RemoveElement DEF n
  <2>3. n <= Cardinality(R)
    BY <1>5, <2>1, <2>2, FS_Injection
  <2> QED
    BY <1>1, <2>2, <2>3
<1>7. f \in Seq(S) /\ Len(f) = n
  BY <1>1, <1>3
<1>8. \A i, j \in 1..n : f[i] = f[j] => i = j
  BY <1>3 DEF IsInjective
<1> QED
  BY <1>6, <1>7, <1>8 DEF f

-----------------------------------------------------------------------------
(* What the issuer is given: a tree of claims, and frames for parts of it. *)

(* Placeholders are nodes that are no value, one for each digest. *)
LEMMA HoleFacts ==
  /\ Value \subseteq Node /\ Value \subseteq Digest /\ IsFiniteSet(Value) /\ IsFiniteSet(Digest)
  /\ \A g \in Digest : Hole[g] \in Node /\ Hole[g] \notin Value
  /\ \A m \in Node : m \notin Value => \E g \in Digest : m = Hole[g]
  /\ \A g, h \in Digest : Hole[g] = Hole[h] => g = h
<1>1. Range(Hole) = {Hole[g] : g \in Digest}
  BY HolesAreNodes DEF Range
<1>2. IsFiniteSet(Value) /\ IsFiniteSet(Range(Hole))
  BY NodesFinite, HolesAreNodes, FS_Subset
<1>3. IsFiniteSet(Digest)
  <2> DEFINE back == [m \in Range(Hole) |-> CHOOSE g \in Digest : Hole[g] = m]
  <2>1. \A g \in Digest : Hole[g] \in Range(Hole) /\ back[Hole[g]] = g
    BY <1>1, HolesAreNodes
  <2>2. back \in [Range(Hole) -> Digest]
    BY <1>1
  <2>3. back \in Surjection(Range(Hole), Digest)
    BY <2>1, <2>2 DEF Surjection
  <2> QED
    BY <1>2, <2>3, FS_Surjection
<1> QED
  BY <1>1, <1>2, <1>3, HolesAreNodes, ValuesAreDigests

(* The claims have their types; each value of a frame is named in it once. *)
LEMMA InputFacts ==
  ASSUME InputOK
  PROVE  /\ \A n \in Value : /\ claims.kind[n] \in {"prim", "obj", "arr"}
                             /\ DOMAIN claims.props[n] \subseteq Name
                             /\ \A k \in DOMAIN claims.props[n] : claims.props[n][k] \in Value
                             /\ claims.items[n] \in Seq(Value)
                             /\ frame.decoys[n] \subseteq Decoy
         /\ frame.framed \subseteq Value /\ frame.sd \subseteq Value
         /\ input.order \in Seq(Digest) /\ input.alg \in Alg /\ input.holderKey \in BOOLEAN
         /\ DOMAIN frame.decoys = Value
<1>1. /\ claims \in Claims /\ frame \in Frame
      /\ input.order \in Seq(Digest) /\ input.alg \in Alg /\ input.holderKey \in BOOLEAN
  BY DEF InputOK, Input, claims, frame
<1>2. /\ claims.kind \in [Value -> {"prim", "obj", "arr"}]
      /\ claims.props \in [Value -> Partial(Name, Value)]
      /\ claims.items \in [Value -> Seq(Value)]
  BY <1>1 DEF Claims
<1>3. /\ frame.framed \in SUBSET Value /\ frame.sd \in SUBSET Value
      /\ frame.decoys \in [Value -> SUBSET Decoy]
  BY <1>1 DEF Frame
<1>4. \A n \in Value : claims.props[n] \in Partial(Name, Value)
  BY <1>2
<1>5. \A n \in Value : /\ DOMAIN claims.props[n] \subseteq Name
                       /\ \A k \in DOMAIN claims.props[n] : claims.props[n][k] \in Value
  BY <1>4 DEF Partial
<1> QED
  BY <1>1, <1>2, <1>3, <1>5

(* Each kind of value has its own spots, and no value is at two of them. *)
LEMMA SpotFacts ==
  ASSUME InputOK
  PROVE  /\ \A n \in Value : /\ claims.kind[n] # "obj" => claims.props[n] = <<>>
                             /\ claims.kind[n] # "arr" => claims.items[n] = <<>>
         /\ \A n \in Value : \A x \in Spots(n) : ValueAt(n, x) \in Value \ {Root, CnfValue}
         /\ \A m, n \in Value : \A x \in Spots(m), y \in Spots(n) :
              ValueAt(m, x) = ValueAt(n, y) => m = n /\ x = y
         /\ \A n \in Value : claims.kind[n] \notin {"obj", "arr"} => Spots(n) = {}
         /\ claims.kind[Root] = "obj"
         /\ input.holderKey => "cnf" \notin DOMAIN claims.props[Root]
<1>1. ClaimsOK
  BY DEF InputOK
<1>2. \A n \in Value : \A x \in Spots(n) : ValueAt(n, x) \in Value
  BY InputFacts DEF Spots, ValueAt
<1>3. \A n \in Value : \A x \in Spots(n) : ValueAt(n, x) \notin {Root, CnfValue}
  BY <1>1 DEF ClaimsOK, Members
<1>4. \A n \in Value : claims.kind[n] \notin {"obj", "arr"} => Spots(n) = {}
  BY <1>1 DEF ClaimsOK, Spots
<1> QED
  BY <1>1, <1>2, <1>3, <1>4 DEF ClaimsOK

(* What is made disclosable is at one spot of one framed value. *)
LEMMA FrameFacts ==
  ASSUME InputOK
  PROVE  /\ \A m \in frame.sd : \E n \in frame.framed : \E x \in Spots(n) : ValueAt(n, x) = m
         /\ \A m \in frame.sd : m \in Value \ {Root, CnfValue}
         /\ \A n \in Value \ frame.framed : frame.decoys[n] = {} /\ Members(n) \cap frame.sd = {}
         /\ \A m, n \in Value : frame.decoys[m] \cap frame.decoys[n] # {} => m = n
         /\ \A n \in Value : frame.decoys[n] \subseteq Range(input.order)
         /\ frame.sd \subseteq Range(input.order)
         /\ \A i, j \in DOMAIN input.order : input.order[i] = input.order[j] => i = j
<1>1. FrameOK
  BY DEF InputOK
<1>2. \A m \in frame.sd : \E n \in frame.framed : \E x \in Spots(n) : ValueAt(n, x) = m
  BY <1>1 DEF FrameOK, Members
<1>3. \A m \in frame.sd : m \in Value \ {Root, CnfValue}
  BY <1>2, InputFacts, SpotFacts
<1>4. \A n \in Value \ frame.framed : Members(n) \cap frame.sd = {}
  BY <1>2, InputFacts, SpotFacts DEF Members
<1>5. \A n \in Value : frame.decoys[n] \subseteq UNION Range(frame.decoys)
  BY InputFacts DEF Range
<1> QED
  BY <1>1, <1>2, <1>3, <1>4, <1>5 DEF FrameOK

(* The tree adds the holder's key to the claims of the root. *)
LEMMA ChildFacts ==
  ASSUME InputOK
  PROVE  \A n \in Value :
           /\ Promise!Children(Tree, n)
                = Members(n) \cup (IF n = Root /\ input.holderKey THEN {CnfValue} ELSE {})
           /\ Promise!Children(Tree, n) \cap frame.sd = Members(n) \cap frame.sd
           /\ Promise!Children(Tree, n) \subseteq Value \ {Root}
<1> TAKE n \in Value
<1> DEFINE props == claims.props[n]
           cnf == {k \in {"cnf"} : n = Root /\ input.holderKey}
<1>1. /\ Tree[n].claims = [k \in DOMAIN props \cup cnf |-> IF k \in cnf THEN CnfValue ELSE props[k]]
      /\ Tree[n].items = claims.items[n]
  BY DEF Tree
<1>2. n = Root /\ input.holderKey => "cnf" \notin DOMAIN props
  BY SpotFacts
<1>3. Range(Tree[n].claims) = Range(props) \cup (IF n = Root /\ input.holderKey THEN {CnfValue} ELSE {})
  BY <1>1, <1>2 DEF Range
<1>4. Members(n) = Range(props) \cup Range(claims.items[n])
  <2>1. claims.kind[n] = "obj" => Members(n) = Range(props) /\ Range(claims.items[n]) = {}
    BY SpotFacts DEF Members, Spots, ValueAt, Range
  <2>2. claims.kind[n] # "obj" => Members(n) = Range(claims.items[n]) /\ Range(props) = {}
    BY SpotFacts DEF Members, Spots, ValueAt, Range
  <2> QED
    BY <2>1, <2>2
<1>5. Promise!Children(Tree, n)
        = Members(n) \cup (IF n = Root /\ input.holderKey THEN {CnfValue} ELSE {})
  <2>1. \A f : Promise!Range(f) = Range(f)
    BY DEF Promise!Range, Range
  <2>2. Promise!Children(Tree, n) = Range(Tree[n].claims) \cup Range(Tree[n].items)
    BY <2>1 DEF Promise!Children
  <2> QED
    BY <1>1, <1>3, <1>4, <2>2
<1>6. CnfValue \notin frame.sd
  BY FrameFacts
<1>7. Members(n) \subseteq Value \ {Root}
  BY SpotFacts DEF Members
<1> QED
  BY <1>5, <1>6, <1>7, ValuesAreDigests

(* What the tree has at n, in terms of the claims. *)
LEMMA TreeFacts ==
  ASSUME InputOK, NEW n \in Value
  PROVE  /\ Tree[n].items = claims.items[n]
         /\ DOMAIN Tree[n].claims
              = DOMAIN claims.props[n] \cup (IF n = Root /\ input.holderKey THEN {"cnf"} ELSE {})
         /\ \A k \in DOMAIN claims.props[n] : Tree[n].claims[k] = claims.props[n][k]
         /\ n = Root /\ input.holderKey =>
              "cnf" \notin DOMAIN claims.props[n] /\ Tree[n].claims["cnf"] = CnfValue
         /\ claims.kind[n] # "obj" => DOMAIN Tree[n].claims = {}
         /\ claims.kind[n] # "arr" => DOMAIN Tree[n].items = {}
<1> DEFINE cnf == {k \in {"cnf"} : n = Root /\ input.holderKey}
<1>1. Tree[n] = [claims |-> [k \in DOMAIN claims.props[n] \cup cnf |->
                               IF k \in cnf THEN CnfValue ELSE claims.props[n][k]],
                 items |-> claims.items[n]]
  BY DEF Tree
<1>2. n = Root /\ input.holderKey => "cnf" \notin DOMAIN claims.props[n]
  BY SpotFacts
<1>3. cnf = IF n = Root /\ input.holderKey THEN {"cnf"} ELSE {}
  OBVIOUS
<1>4. \A k \in DOMAIN claims.props[n] : k \notin cnf
  BY <1>2
<1> HIDE DEF cnf
<1>5. /\ Tree[n].items = claims.items[n] /\ DOMAIN Tree[n].claims = DOMAIN claims.props[n] \cup cnf
      /\ \A k \in DOMAIN claims.props[n] : Tree[n].claims[k] = claims.props[n][k]
      /\ \A k \in cnf : Tree[n].claims[k] = CnfValue
  BY <1>1, <1>4
<1>6. /\ claims.kind[n] # "obj" => n # Root /\ claims.props[n] = <<>>
      /\ claims.kind[n] # "arr" => claims.items[n] = <<>>
  BY SpotFacts
<1> QED
  BY <1>2, <1>3, <1>5, <1>6

LEMMA KidFacts ==
  ASSUME NEW n \in Value
  PROVE  /\ \A k \in DOMAIN Tree[n].claims : Tree[n].claims[k] \in Promise!Children(Tree, n)
         /\ \A i \in DOMAIN Tree[n].items : Tree[n].items[i] \in Promise!Children(Tree, n)
<1>1. \A f : Promise!Range(f) = {f[x] : x \in DOMAIN f}
  BY DEF Promise!Range
<1> QED
  BY <1>1 DEF Promise!Children

-----------------------------------------------------------------------------
(* The packed payload. *)

(* A document with the packed payload and the disclosures of the set D. *)
Carries(d, D) ==
  /\ D \subseteq frame.sd
  /\ d.kind = Pack.kind /\ d.props = Pack.props /\ d.sd = Pack.sd /\ d.items = Pack.items
  /\ d.hides = Pack.hides /\ d.malformed = Pack.malformed
  /\ {d.disclosures[i] : i \in DOMAIN d.disclosures} = {Disclose(m) : m \in D}
  /\ \A i, j \in DOMAIN d.disclosures : d.disclosures[i] = d.disclosures[j] => i = j

(* The payload's parts, node by node. *)
LEMMA PackedParts ==
  ASSUME NEW d, NEW D, Carries(d, D)
  PROVE  /\ \A n \in Value : /\ n \in Node => d.kind[n] = claims.kind[n]
                             /\ n \in Node => d.sd[n] = SDDigests(n)
                             /\ n \in Node /\ claims.kind[n] = "arr" => d.items[n] = PackedItems(n)
         /\ \A n \in Node : d.props[n] = PlainProps(n) /\ d.malformed[n] = FALSE
BY DEF Carries, Pack

(* A placeholder is one, for its digest. *)
LEMMA PackedHoles ==
  ASSUME NEW d, NEW D, Carries(d, D)
  PROVE  \A g \in Digest : d.kind[Hole[g]] = "ph" /\ d.hides[Hole[g]] = g
<1> TAKE g \in Digest
<1>1. Hole[g] \in Node /\ Hole[g] \notin Value /\ Hole[g] \in Range(Hole)
  BY HoleFacts, HolesAreNodes DEF Range
<1>2. d.kind[Hole[g]] = "ph"
  BY <1>1 DEF Carries, Pack
<1>3. d.hides[Hole[g]] = CHOOSE h \in Digest : Hole[g] \in Range(Hole) => Hole[h] = Hole[g]
  BY <1>1 DEF Carries, Pack
<1>4. d.hides[Hole[g]] \in Digest /\ Hole[d.hides[Hole[g]]] = Hole[g]
  BY <1>1, <1>3
<1> QED
  BY <1>2, <1>4, HoleFacts

(* The claims that stay in clear in a packed object. *)
LEMMA PlainPropsFacts ==
  ASSUME InputOK, NEW n \in Value
  PROVE  /\ DOMAIN PlainProps(n)
              = {k \in DOMAIN claims.props[n] : claims.props[n][k] \notin frame.sd}
                  \cup (IF n = Root /\ input.holderKey THEN {"cnf"} ELSE {})
         /\ DOMAIN PlainProps(n) \subseteq DOMAIN Tree[n].claims
         /\ \A k \in DOMAIN PlainProps(n) :
              PlainProps(n)[k] = Tree[n].claims[k] /\ PlainProps(n)[k] \in Value \ frame.sd
         /\ PlainProps(n) \in Partial(Name, Node)
<1> DEFINE props == claims.props[n]
           cnf == {k \in {"cnf"} : n = Root /\ input.holderKey}
           stay == {k \in DOMAIN props : props[k] \notin frame.sd}
<1>1. PlainProps(n) = [k \in stay \cup cnf |-> IF k \in cnf THEN CnfValue ELSE props[k]]
  BY DEF PlainProps, ClaimsAt
<1>2. Tree[n].claims = [k \in DOMAIN props \cup cnf |-> IF k \in cnf THEN CnfValue ELSE props[k]]
  BY DEF Tree
<1>3. \A k \in stay \cup cnf :
        (IF k \in cnf THEN CnfValue ELSE props[k]) \in Value \ frame.sd /\ k \in Name
  BY InputFacts, FrameFacts, ValuesAreDigests, CnfIsName
<1>4. PlainProps(n) \in [stay \cup cnf -> Node] /\ stay \cup cnf \subseteq Name
  BY <1>1, <1>3, HoleFacts
<1>5. PlainProps(n) \in Partial(Name, Node)
  BY <1>4 DEF Partial
<1>6. cnf = IF n = Root /\ input.holderKey THEN {"cnf"} ELSE {}
  OBVIOUS
<1> QED
  BY <1>1, <1>2, <1>3, <1>5, <1>6

(* The "_sd" list of an object: what it hides and its decoys, each once. *)
LEMMA SDFacts ==
  ASSUME InputOK, NEW n \in Value
  PROVE  /\ SDDigests(n) \in Seq(Digest)
         /\ \A i, j \in DOMAIN SDDigests(n) : SDDigests(n)[i] = SDDigests(n)[j] => i = j
         /\ claims.kind[n] = "obj" =>
              {SDDigests(n)[i] : i \in DOMAIN SDDigests(n)}
                = (Members(n) \cap frame.sd) \cup frame.decoys[n]
<1> DEFINE S == (Range(claims.props[n]) \cap frame.sd) \cup frame.decoys[n]
           s == input.order
<1>1. s \in Seq(Digest) /\ \A i, j \in 1..Len(s) : s[i] = s[j] => i = j
  BY InputFacts, FrameFacts
<1>2. Kept(s, S) \in Seq(Digest) /\ KeptUpTo(Kept(s, S), s, S, Len(s))
  BY <1>1, KeptFacts
<1>3. claims.kind[n] = "obj" => Members(n) = Range(claims.props[n])
  BY DEF Members, Spots, ValueAt, Range
<1>4. CASE n \in frame.framed /\ claims.kind[n] = "obj"
  <2>1. SDDigests(n) = Kept(s, S)
    BY <1>4 DEF SDDigests
  <2>2. S \subseteq Range(s)
    BY FrameFacts
  <2>3. \A g \in S : \E k \in 1..Len(s) : s[k] = g
    BY <1>1, <2>2 DEF Range
  <2> HIDE DEF S, s
  <2> DEFINE t == Kept(s, S)
  <2>4. DOMAIN t = 1..Len(t)
    BY <1>2
  <2>5. (\A j \in 1..Len(t) : t[j] \in S) /\ \A g \in S : \E j \in 1..Len(t) : t[j] = g
    BY <1>2, <2>3 DEF KeptUpTo
  <2>6. \A i, j \in 1..Len(t) : t[i] = t[j] => i = j
    BY <1>1, <1>2 DEF KeptUpTo
  <2> HIDE DEF t
  <2>7. {t[i] : i \in DOMAIN t} = S
    BY <2>4, <2>5
  <2> QED
    BY <1>2, <1>3, <2>1, <2>4, <2>6, <2>7 DEF S, t
<1>5. CASE ~(n \in frame.framed /\ claims.kind[n] = "obj")
  <2>1. SDDigests(n) = <<>>
    BY <1>5 DEF SDDigests
  <2>2. claims.kind[n] = "obj" => (Members(n) \cap frame.sd) \cup frame.decoys[n] = {}
    BY <1>5, FrameFacts
  <2> QED
    BY <2>1, <2>2
<1> QED
  BY <1>4, <1>5

(* A packed array: placeholders in place, one for each decoy at the end. *)
IsPacking(n, w, N, y) ==
  /\ {y[j] : j \in 1..Len(y)} = frame.decoys[n]
  /\ \A i, j \in 1..Len(y) : y[i] = y[j] => i = j
  /\ N = Len(claims.items[n]) /\ w \in Seq(Node) /\ Len(w) = N + Len(y)
  /\ \A i \in 1..N : w[i] = IF claims.items[n][i] \in frame.sd THEN Hole[claims.items[n][i]]
                                                              ELSE claims.items[n][i]
  /\ \A i \in 1..N + Len(y) : i \notin 1..N => i - N \in 1..Len(y) /\ w[i] = Hole[y[i - N]]

LEMMA ItemFacts ==
  ASSUME InputOK, NEW n \in Value, claims.kind[n] = "arr"
  PROVE  \E N \in Nat, y \in Seq(Digest) : IsPacking(n, PackedItems(n), N, y)
<1> DEFINE Y == frame.decoys[n]
           y == SetToSeq(Y)
           s == claims.items[n]
           N == Len(s)
           p(m) == IF m \in frame.sd THEN Hole[m] ELSE m
           u == [i \in DOMAIN s |-> p(s[i])]
           v == [i \in DOMAIN y |-> Hole[y[i]]]
<1>1. Y \subseteq Digest /\ IsFiniteSet(Y) /\ s \in Seq(Value)
  BY InputFacts, HoleFacts, FS_Subset DEF Decoy
<1>2. /\ y \in Seq(Y) /\ (\A x \in Y : \E i \in 1..Len(y) : y[i] = x)
      /\ \A i, j \in 1..Len(y) : y[i] = y[j] => i = j
  BY <1>1, SetToSeqFacts
<1>3. PackedItems(n) = u \o v
  BY DEF PackedItems
<1> HIDE DEF Y, y, s, N
<1>4. N \in Nat /\ DOMAIN s = 1..N /\ \A i \in 1..N : s[i] \in Value
  BY <1>1 DEF N
<1>5. Len(y) \in Nat /\ DOMAIN y = 1..Len(y) /\ \A i \in 1..Len(y) : y[i] \in Y
  BY <1>2
<1>6. \A i \in 1..N : p(s[i]) \in Node
  BY <1>4, InputFacts, HoleFacts
<1>7. \A i \in 1..Len(y) : Hole[y[i]] \in Node
  BY <1>1, <1>5, HoleFacts
<1>8. u \in Seq(Node) /\ Len(u) = N /\ \A i \in 1..N : u[i] = p(s[i])
  BY <1>4, <1>6
<1>9. v \in Seq(Node) /\ Len(v) = Len(y) /\ \A i \in 1..Len(y) : v[i] = Hole[y[i]]
  BY <1>5, <1>7
<1> HIDE DEF u, v, p
<1> DEFINE w == PackedItems(n)
<1>10. w \in Seq(Node) /\ Len(w) = N + Len(y)
  <2>1. u \o v \in Seq(Node) /\ Len(u \o v) = Len(u) + Len(v)
    BY <1>8, <1>9
  <2> QED
    BY <1>3, <1>8, <1>9, <2>1
<1>11. \A i \in 1..N : w[i] = u[i]
  BY <1>3, <1>4, <1>5, <1>8, <1>9
<1>12. \A i \in 1..N + Len(y) : i \notin 1..N => i - N \in 1..Len(y) /\ w[i] = v[i - N]
  BY <1>3, <1>4, <1>5, <1>8, <1>9
<1> HIDE DEF w
<1>13. \A i \in 1..N : w[i] = p(s[i])
  BY <1>8, <1>11
<1>14. \A i \in 1..N + Len(y) : i \notin 1..N => i - N \in 1..Len(y) /\ w[i] = Hole[y[i - N]]
  BY <1>9, <1>12
<1>15. {y[j] : j \in 1..Len(y)} = Y /\ y \in Seq(Digest)
  BY <1>1, <1>2, <1>5
<1>16. IsPacking(n, w, N, y)
  BY <1>2, <1>10, <1>13, <1>14, <1>15 DEF IsPacking, Y, s, N, p
<1> QED
  BY <1>4, <1>15, <1>16 DEF w

(* What a value contains in clear, and the digests it embeds. *)
NodeFacts(d, n) ==
  /\ PlainChildren(d, n) = Promise!Children(Tree, n) \ frame.sd
  /\ \A x, y \in PlainAt(d, n) : ChildAt(d, n, x) = ChildAt(d, n, y) => x = y
  /\ Members(n) \cap frame.sd \subseteq {EmbeddedAt(d, n, i) : i \in Embeds(d, n)}
  /\ {EmbeddedAt(d, n, i) : i \in Embeds(d, n)} \subseteq (Members(n) \cap frame.sd) \cup frame.decoys[n]
  /\ \A i, j \in Embeds(d, n) : EmbeddedAt(d, n, i) = EmbeddedAt(d, n, j) => i = j

LEMMA ObjectFacts ==
  ASSUME InputOK, NEW d, NEW D, Carries(d, D), NEW n \in Value, claims.kind[n] = "obj"
  PROVE  NodeFacts(d, n)
<1>1. /\ n \in Node /\ d.kind[n] = "obj" /\ d.props[n] = PlainProps(n) /\ d.sd[n] = SDDigests(n)
  BY PackedParts, HoleFacts
<1>2. /\ Embeds(d, n) = DOMAIN SDDigests(n) /\ \A i : EmbeddedAt(d, n, i) = SDDigests(n)[i]
      /\ PlainAt(d, n) = DOMAIN PlainProps(n) /\ \A k : ChildAt(d, n, k) = PlainProps(n)[k]
  BY <1>1 DEF Embeds, EmbeddedAt, PlainAt, ChildAt
<1>3. /\ Spots(n) = DOMAIN claims.props[n] /\ \A k : ValueAt(n, k) = claims.props[n][k]
      /\ Members(n) = {claims.props[n][k] : k \in DOMAIN claims.props[n]}
  BY DEF Spots, ValueAt, Members
<1>4. \A k \in DOMAIN PlainProps(n) :
        /\ k \in DOMAIN claims.props[n] => PlainProps(n)[k] = claims.props[n][k]
        /\ k \notin DOMAIN claims.props[n] =>
             k = "cnf" /\ n = Root /\ input.holderKey /\ PlainProps(n)[k] = CnfValue
  <2>1. DOMAIN PlainProps(n)
          = {k \in DOMAIN claims.props[n] : claims.props[n][k] \notin frame.sd}
              \cup (IF n = Root /\ input.holderKey THEN {"cnf"} ELSE {})
    BY PlainPropsFacts
  <2>2. n = Root /\ input.holderKey => "cnf" \notin DOMAIN claims.props[n]
    BY SpotFacts
  <2>3. PlainProps(n) = [k \in DOMAIN PlainProps(n) |->
                           IF k \in {j \in {"cnf"} : n = Root /\ input.holderKey}
                             THEN CnfValue ELSE claims.props[n][k]]
    BY DEF PlainProps, ClaimsAt
  <2> QED
    BY <2>1, <2>2, <2>3
<1>5. \A k, l \in DOMAIN PlainProps(n) : PlainProps(n)[k] = PlainProps(n)[l] => k = l
  BY <1>3, <1>4, SpotFacts
<1>6. {PlainProps(n)[k] : k \in DOMAIN PlainProps(n)} = Promise!Children(Tree, n) \ frame.sd
  <2>1. /\ Promise!Children(Tree, n)
              = Members(n) \cup (IF n = Root /\ input.holderKey THEN {CnfValue} ELSE {})
        /\ CnfValue \notin frame.sd
    BY ChildFacts, FrameFacts
  <2>2. \A k \in DOMAIN PlainProps(n) :
          PlainProps(n)[k] \in Promise!Children(Tree, n) /\ PlainProps(n)[k] \notin frame.sd
    BY <1>3, <1>4, <2>1, PlainPropsFacts
  <2>3. DOMAIN PlainProps(n)
          = {k \in DOMAIN claims.props[n] : claims.props[n][k] \notin frame.sd}
              \cup (IF n = Root /\ input.holderKey THEN {"cnf"} ELSE {})
    BY PlainPropsFacts
  <2>4. \A m \in Members(n) \ frame.sd : \E k \in DOMAIN PlainProps(n) : PlainProps(n)[k] = m
    BY <1>3, <1>4, <2>3
  <2>5. n = Root /\ input.holderKey => \E k \in DOMAIN PlainProps(n) : PlainProps(n)[k] = CnfValue
    <3>1. n = Root /\ input.holderKey =>
            "cnf" \in DOMAIN PlainProps(n) /\ "cnf" \notin DOMAIN claims.props[n]
      BY <2>3, SpotFacts
    <3> QED
      BY <1>4, <3>1
  <2> QED
    BY <2>1, <2>2, <2>4, <2>5
<1>7. PlainChildren(d, n) = Promise!Children(Tree, n) \ frame.sd
  BY <1>2, <1>6 DEF PlainChildren
<1>8. {EmbeddedAt(d, n, i) : i \in Embeds(d, n)} = (Members(n) \cap frame.sd) \cup frame.decoys[n]
  BY <1>2, SDFacts
<1>9. \A i, j \in Embeds(d, n) : EmbeddedAt(d, n, i) = EmbeddedAt(d, n, j) => i = j
  BY <1>2, SDFacts
<1> QED
  BY <1>2, <1>5, <1>7, <1>8, <1>9 DEF NodeFacts

LEMMA ArrayFacts ==
  ASSUME InputOK, NEW d, NEW D, Carries(d, D), NEW n \in Value, claims.kind[n] = "arr"
  PROVE  NodeFacts(d, n)
<1> DEFINE s == claims.items[n]
           w == PackedItems(n)
<1>17. PICK N \in Nat, y \in Seq(Digest) : IsPacking(n, w, N, y)
  BY ItemFacts
<1>1. /\ {y[j] : j \in 1..Len(y)} = frame.decoys[n]
      /\ \A i, j \in 1..Len(y) : y[i] = y[j] => i = j
      /\ N = Len(s) /\ w \in Seq(Node) /\ Len(w) = N + Len(y)
      /\ \A i \in 1..N : w[i] = IF s[i] \in frame.sd THEN Hole[s[i]] ELSE s[i]
      /\ \A i \in 1..N + Len(y) : i \notin 1..N => i - N \in 1..Len(y) /\ w[i] = Hole[y[i - N]]
  BY <1>17 DEF IsPacking
<1>2. n \in Node /\ d.kind[n] = "arr" /\ d.items[n] = w
  BY PackedParts, HoleFacts
<1>3. s \in Seq(Value) /\ DOMAIN s = 1..N /\ n # Root
  BY <1>1, InputFacts, SpotFacts
<1>4. /\ Spots(n) = 1..N /\ \A i : ValueAt(n, i) = s[i]
      /\ Members(n) = {s[i] : i \in 1..N}
  BY <1>3 DEF Spots, ValueAt, Members
<1>5. \A i \in 1..N : s[i] \in Value /\ s[i] \in Digest
  BY <1>3, HoleFacts
<1>6. \A i, j \in 1..N : s[i] = s[j] => i = j
  BY <1>4, SpotFacts
<1>7. Len(y) \in Nat /\ \A j \in 1..Len(y) : y[j] \in Digest /\ y[j] \notin Value
  <2>1. \A j \in 1..Len(y) : y[j] \in frame.decoys[n]
    BY <1>1
  <2>2. Len(y) \in Nat
    BY <1>1
  <2> QED
    BY <2>1, <2>2, InputFacts DEF Decoy
<1> HIDE DEF s, w
<1>8. DOMAIN w = 1..N + Len(y) /\ 1..N \subseteq DOMAIN w
  BY <1>1, <1>7
<1>9. \A i \in DOMAIN w :
        /\ i \in 1..N /\ s[i] \notin frame.sd => w[i] = s[i] /\ d.kind[w[i]] # "ph"
        /\ i \in 1..N /\ s[i] \in frame.sd => d.kind[w[i]] = "ph" /\ d.hides[w[i]] = s[i]
        /\ i \notin 1..N =>
             i - N \in 1..Len(y) /\ d.kind[w[i]] = "ph" /\ d.hides[w[i]] = y[i - N]
  <2> TAKE i \in DOMAIN w
  <2>1. ASSUME i \in 1..N, s[i] \notin frame.sd PROVE w[i] = s[i] /\ d.kind[w[i]] # "ph"
    <3>1. w[i] = s[i] /\ s[i] \in Value /\ s[i] \in Node
      BY <1>1, <1>5, <2>1, HoleFacts
    <3>2. \A v \in Value : v \in Node => d.kind[v] = claims.kind[v]
      BY PackedParts
    <3>3. claims.kind[s[i]] # "ph"
      BY <3>1, InputFacts
    <3> QED
      BY <3>1, <3>2, <3>3
  <2>2. ASSUME i \in 1..N, s[i] \in frame.sd PROVE d.kind[w[i]] = "ph" /\ d.hides[w[i]] = s[i]
    <3>1. w[i] = Hole[s[i]] /\ s[i] \in Digest
      BY <1>1, <1>5, <2>2
    <3> QED
      BY <3>1, PackedHoles
  <2>3. ASSUME i \notin 1..N
        PROVE  i - N \in 1..Len(y) /\ d.kind[w[i]] = "ph" /\ d.hides[w[i]] = y[i - N]
    <3>1. i - N \in 1..Len(y) /\ w[i] = Hole[y[i - N]]
      BY <1>1, <1>8, <2>3
    <3>2. y[i - N] \in Digest
      BY <1>7, <3>1
    <3> QED
      BY <3>1, <3>2, PackedHoles
  <2> QED
    BY <2>1, <2>2, <2>3
<1>10. /\ Embeds(d, n) = {i \in DOMAIN w : ~(i \in 1..N /\ s[i] \notin frame.sd)}
       /\ PlainAt(d, n) = {i \in 1..N : s[i] \notin frame.sd}
       /\ \A i : EmbeddedAt(d, n, i) = d.hides[w[i]] /\ ChildAt(d, n, i) = w[i]
  <2>1. Embeds(d, n) = {i \in DOMAIN w : d.kind[w[i]] = "ph"}
    BY <1>2 DEF Embeds
  <2>2. PlainAt(d, n) = DOMAIN w \ Embeds(d, n)
    BY <1>2 DEF PlainAt
  <2>3. \A i : EmbeddedAt(d, n, i) = d.hides[w[i]] /\ ChildAt(d, n, i) = w[i]
    BY <1>2 DEF EmbeddedAt, ChildAt
  <2> QED
    BY <1>8, <1>9, <2>1, <2>2, <2>3
<1>11. \A i \in PlainAt(d, n) : i \in 1..N /\ s[i] \notin frame.sd /\ ChildAt(d, n, i) = s[i]
  BY <1>8, <1>9, <1>10
<1>12. \A i \in Embeds(d, n) :
         \/ i \in 1..N /\ s[i] \in frame.sd /\ EmbeddedAt(d, n, i) = s[i]
         \/ i \notin 1..N /\ i - N \in 1..Len(y) /\ EmbeddedAt(d, n, i) = y[i - N]
  BY <1>9, <1>10
<1>13. PlainChildren(d, n) = Promise!Children(Tree, n) \ frame.sd
  <2>1. Promise!Children(Tree, n) = Members(n)
    BY <1>3, ChildFacts
  <2>2. \A i \in 1..N : s[i] \notin frame.sd => i \in PlainAt(d, n)
    BY <1>10
  <2> QED
    BY <1>4, <1>11, <2>1, <2>2 DEF PlainChildren
<1>14. {EmbeddedAt(d, n, i) : i \in Embeds(d, n)} = (Members(n) \cap frame.sd) \cup frame.decoys[n]
  <2>1. \A i \in Embeds(d, n) : EmbeddedAt(d, n, i) \in (Members(n) \cap frame.sd) \cup frame.decoys[n]
    BY <1>1, <1>4, <1>12
  <2>2. \A m \in Members(n) \cap frame.sd : \E i \in Embeds(d, n) : EmbeddedAt(d, n, i) = m
    BY <1>4, <1>8, <1>9, <1>10
  <2>3. ASSUME NEW g \in frame.decoys[n] PROVE \E i \in Embeds(d, n) : EmbeddedAt(d, n, i) = g
    <3>1. PICK j \in 1..Len(y) : y[j] = g
      BY <1>1
    <3>2. N + j \in DOMAIN w /\ N + j \notin 1..N /\ (N + j) - N = j
      BY <1>7, <1>8
    <3> QED
      BY <1>9, <1>10, <3>1, <3>2
  <2> QED
    BY <2>1, <2>2, <2>3
<1>15. ASSUME NEW i \in Embeds(d, n), NEW j \in Embeds(d, n),
              EmbeddedAt(d, n, i) = EmbeddedAt(d, n, j)
       PROVE  i = j
  <2>1. CASE i \in 1..N /\ j \in 1..N
    BY <1>6, <1>12, <1>15, <2>1
  <2>2. CASE i \notin 1..N /\ j \notin 1..N
    <3>3. i - N \in 1..Len(y) /\ EmbeddedAt(d, n, i) = y[i - N]
      BY <1>12, <2>2
    <3>4. j - N \in 1..Len(y) /\ EmbeddedAt(d, n, j) = y[j - N]
      BY <1>12, <2>2
    <3>5. y[i - N] = y[j - N]
      BY <1>15, <3>3, <3>4
    <3>6. \A a, b \in 1..Len(y) : y[a] = y[b] => a = b
      BY <1>1
    <3>1. i - N = j - N
      <4> DEFINE a == i - N
                 b == j - N
      <4>1. a \in 1..Len(y) /\ b \in 1..Len(y) /\ y[a] = y[b]
        BY <3>3, <3>4, <3>5
      <4> HIDE DEF a, b
      <4>2. a = b
        BY <3>6, <4>1
      <4> QED
        BY <4>2 DEF a, b
    <3>2. i \in Nat /\ j \in Nat
      BY <1>8, <1>10
    <3> QED
      BY <3>1, <3>2
  <2> QED
    BY <1>5, <1>7, <1>12, <1>15, <2>1, <2>2
<1> QED
  BY <1>6, <1>11, <1>13, <1>14, <1>15 DEF NodeFacts

LEMMA ValueFacts ==
  ASSUME InputOK, NEW d, NEW D, Carries(d, D), NEW n \in Value
  PROVE  NodeFacts(d, n)
<1>1. CASE claims.kind[n] = "obj"
  BY <1>1, ObjectFacts
<1>2. CASE claims.kind[n] = "arr"
  BY <1>2, ArrayFacts
<1>3. CASE claims.kind[n] \notin {"obj", "arr"}
  <2>1. Members(n) = {} /\ n # Root
    BY <1>3, SpotFacts DEF Members
  <2>3. d.kind[n] \notin {"obj", "arr"}
    BY <1>3, PackedParts, HoleFacts
  <2>4. PlainAt(d, n) = {} /\ Embeds(d, n) = {}
    BY <2>3 DEF PlainAt, Embeds
  <2> QED
    BY <2>1, <2>4, ChildFacts DEF NodeFacts, PlainChildren
<1> QED
  BY <1>1, <1>2, <1>3

-----------------------------------------------------------------------------
(* Disclosures. *)

(* A value is disclosed under the spot of its own where it is named. *)
LEMMA DiscloseFacts ==
  ASSUME InputOK, NEW n \in Value, NEW x \in Spots(n), ValueAt(n, x) \in frame.sd
  PROVE  LET e == Disclose(ValueAt(n, x))
         IN  /\ e \in Disclosure /\ e.value = ValueAt(n, x) /\ e.digest = ValueAt(n, x)
             /\ claims.kind[n] = "obj" => ~e.isArray /\ e.name = x
             /\ claims.kind[n] # "obj" => e.isArray
<1> DEFINE m == ValueAt(n, x)
           names == {k \in Name : \E v \in Value : k \in DOMAIN ClaimsAt(v) /\ ClaimsAt(v)[k] = m}
           e == Disclose(m)
<1>1. e = [digest |-> m, isArray |-> names = {}, value |-> m,
           name |-> CHOOSE k \in Name : names # {} => k \in names]
  BY DEF Disclose
<1>2. ASSUME NEW v \in Value, NEW k \in DOMAIN ClaimsAt(v), ClaimsAt(v)[k] = m
      PROVE  v = n /\ k = x
  <2>1. claims.props[v] = ClaimsAt(v)
    BY DEF ClaimsAt
  <2>2. claims.kind[v] = "obj"
    BY <2>1, SpotFacts
  <2>3. k \in Spots(v) /\ ValueAt(v, k) = m
    BY <1>2, <2>1, <2>2 DEF Spots, ValueAt
  <2> QED
    BY <2>3, SpotFacts
<1>3. claims.kind[n] = "obj" => names = {x}
  <2> SUFFICES ASSUME claims.kind[n] = "obj" PROVE names = {x}
    OBVIOUS
  <2>1. x \in DOMAIN ClaimsAt(n) /\ ClaimsAt(n)[x] = m /\ x \in Name
    BY InputFacts DEF Spots, ValueAt, ClaimsAt
  <2> QED
    BY <1>2, <2>1
<1>4. claims.kind[n] # "obj" => names = {}
  <2> SUFFICES ASSUME claims.kind[n] # "obj", NEW v \in Value, NEW k \in DOMAIN ClaimsAt(v),
                      ClaimsAt(v)[k] = m
               PROVE  FALSE
    OBVIOUS
  <2>1. k \in DOMAIN ClaimsAt(n)
    BY <1>2
  <2>2. claims.props[n] = ClaimsAt(n) /\ claims.props[n] = <<>>
    BY SpotFacts DEF ClaimsAt
  <2> QED
    BY <2>1, <2>2
<1>5. m \in Digest /\ m \in Node
  BY SpotFacts, HoleFacts
<1>6. names \subseteq Name
  OBVIOUS
<1> HIDE DEF m, names
<1>7. e.name \in Name /\ (names # {} => e.name \in names)
  BY <1>1, <1>6, CnfIsName
<1>8. /\ e = [digest |-> m, isArray |-> names = {}, value |-> m, name |-> e.name]
      /\ e.digest = m /\ e.value = m /\ e.isArray = (names = {})
  BY <1>1
<1> HIDE DEF e
<1>9. e \in Disclosure
  BY <1>5, <1>7, <1>8 DEF Disclosure
<1>10. /\ claims.kind[n] = "obj" => ~e.isArray /\ e.name = x
       /\ claims.kind[n] # "obj" => e.isArray
  BY <1>3, <1>4, <1>7, <1>8
<1> QED
  BY <1>8, <1>9, <1>10 DEF e, m

(* What is disclosed is found by its digest, and nothing else is. *)
LEMMA PresentedFacts ==
  ASSUME InputOK, NEW d, NEW D, Carries(d, D)
  PROVE  /\ Presented(d) = D
         /\ \A g \in D : DisclosureOf(d, g) = Disclose(g)
         /\ DistinctDisclosures(d)
         /\ DisclosedValues(d) = D
<1> DEFINE s == d.disclosures
<1>1. \A m : Disclose(m).digest = m /\ Disclose(m).value = m
  BY DEF Disclose
<1>2. \A i \in DOMAIN s : \E m \in D : s[i] = Disclose(m)
  BY DEF Carries
<1>3. \A m \in D : \E i \in DOMAIN s : s[i] = Disclose(m)
  BY DEF Carries
<1>4. \A i \in DOMAIN s : s[i] = Disclose(s[i].digest) /\ s[i].digest \in D
  BY <1>1, <1>2
<1>5. Presented(d) = D
  BY <1>1, <1>3, <1>4 DEF Presented
<1>6. \A g \in D : DisclosureOf(d, g) = Disclose(g)
  <2> TAKE g \in D
  <2>1. \E i \in DOMAIN s : s[i].digest = g
    BY <1>1, <1>3
  <2> DEFINE i == CHOOSE i \in DOMAIN s : s[i].digest = g
  <2>2. i \in DOMAIN s /\ s[i].digest = g
    BY <2>1
  <2>3. DisclosureOf(d, g) = s[i]
    BY DEF DisclosureOf
  <2> QED
    BY <1>4, <2>2, <2>3
<1>7. DistinctDisclosures(d)
  BY <1>4 DEF DistinctDisclosures, Carries
<1>8. DisclosedValues(d) = D
  BY <1>1, <1>5, <1>6 DEF DisclosedValues
<1> QED
  BY <1>5, <1>6, <1>7, <1>8

(* Every disclosable value is disclosed somewhere, well typed. *)
LEMMA DiscloseTyped ==
  ASSUME InputOK, NEW m \in frame.sd
  PROVE  Disclose(m) \in Disclosure /\ Disclose(m).value = m /\ Disclose(m).digest = m
BY FrameFacts, InputFacts, DiscloseFacts

-----------------------------------------------------------------------------
(* What a party sees of the claims. *)

LEMMA SameFinite == \A S : IsFiniteSet(S) => PP!IsFiniteSet(S)
BY Zenon DEF PP!IsFiniteSet, IsFiniteSet

(* S with the children of its members that are not cut off. *)
Reach(cut, S) == UNION {{m} \cup (Promise!Children(Tree, m) \ cut) : m \in S}

LEMMA ReachTyped ==
  ASSUME InputOK, NEW cut, NEW S \in SUBSET Value
  PROVE  Reach(cut, S) \in SUBSET Value /\ S \subseteq Reach(cut, S)
BY ChildFacts DEF Reach

(* What is below a value is the least set that holds it and what it reaches. *)
LEMMA BelowFixed ==
  ASSUME InputOK, NEW cut, NEW r \in Value
  PROVE  PP!LeastClosed(Promise!Below(Tree, r, cut), [S \in SUBSET Value |-> Reach(cut, S)], Value, r)
<1> DEFINE N == Cardinality(Value)
           G == [S \in SUBSET Value |-> Reach(cut, S)]
           step == [k \in Nat |-> G]
           Eqn(w) == w = [k \in 0..N |->
                            IF k = 0
                              THEN {r}
                              ELSE UNION {{m} \cup (Promise!Children(Tree, m) \ cut) : m \in w[k - 1]}]
<1>1. N \in Nat
  BY HoleFacts, FS_CardinalityType
<1>2. G \in [SUBSET Value -> SUBSET Value] /\ step \in [Nat -> [SUBSET Value -> SUBSET Value]]
  BY ReachTyped
<1>3. {r} \in SUBSET Value
  OBVIOUS
<1>4. PP!GrowsIn(G, Value)
  <2>1. \A S, T \in SUBSET Value : S \subseteq T => Reach(cut, S) \subseteq Reach(cut, T)
    BY DEF Reach
  <2> QED
    BY <1>2, <2>1, ReachTyped DEF PP!GrowsIn
<1>5. Promise!Cardinality(Value) = N /\ PP!Cardinality(Value) = N
  <2>1. \A S : Promise!Cardinality(S) = Cardinality(S)
    BY Zenon DEF Promise!Cardinality, Cardinality
  <2> QED
    BY <2>1, SameCardinality
<1> HIDE DEF step, N
<1>6. PICK f \in [0..N -> SUBSET Value] :
        f[0] = {r} /\ \A k \in 1..N : f[k] = step[k][f[k - 1]]
  <2>1. \E f : PP!IsRecursion(f, SUBSET Value, {r}, step, N)
    BY <1>1, <1>2, <1>3, PP!RecursionExists, Assumed
  <2> QED
    BY <2>1 DEF PP!IsRecursion
<1>7. \A k \in 1..N : f[k - 1] \in SUBSET Value /\ f[k] = Reach(cut, f[k - 1])
  <2> TAKE k \in 1..N
  <2>1. k - 1 \in 0..N /\ k \in Nat
    BY <1>1
  <2>2. f[k - 1] \in SUBSET Value
    BY <2>1
  <2>3. step[k][f[k - 1]] = Reach(cut, f[k - 1])
    BY <2>1, <2>2 DEF step
  <2> QED
    BY <1>6, <2>2, <2>3
<1>8. Eqn(f)
  <2>1. \A k \in 0..N : k # 0 => k \in 1..N
    BY <1>1
  <2>2. \A k \in 0..N : f[k] = IF k = 0 THEN {r} ELSE Reach(cut, f[k - 1])
    BY <1>6, <1>7, <2>1
  <2> QED
    BY <2>2 DEF Reach
<1>9. PICK w : Eqn(w) /\ Promise!Below(Tree, r, cut) = w[N]
  BY <1>5, <1>8, Zenon DEF Promise!Below
<1>10. \A k \in 0..N : w[k] = IF k = 0 THEN {r} ELSE Reach(cut, w[k - 1])
  BY <1>9, Zenon DEF Reach
<1>11. /\ DOMAIN w = 0..N /\ w = [k \in DOMAIN w |-> w[k]]
       /\ w[0] = {r} /\ \A k \in 1..N : w[k] = Reach(cut, w[k - 1])
  <2>1. 0 \in 0..N /\ \A k \in 1..N : k \in 0..N /\ k # 0
    BY <1>1
  <2>2. DOMAIN w = 0..N /\ w = [k \in DOMAIN w |-> w[k]]
    BY <1>9
  <2> QED
    BY <1>10, <2>1, <2>2
<1> DEFINE M == {k \in Nat : k \in 0..N => w[k] \in SUBSET Value}
<1>12. 0 \in M
  BY <1>3, <1>11
<1>13. ASSUME NEW k \in Nat, k \in M PROVE k + 1 \in M
  <2> SUFFICES ASSUME k + 1 \in 0..N PROVE w[k + 1] \in SUBSET Value
    OBVIOUS
  <2>1. k \in 0..N /\ k + 1 \in 1..N /\ (k + 1) - 1 = k
    BY <1>1
  <2>2. w[k] \in SUBSET Value /\ w[k + 1] = Reach(cut, w[k])
    BY <1>11, <1>13, <2>1
  <2> QED
    BY <2>2, ReachTyped
<1> HIDE DEF M
<1>14. Nat \subseteq M
  BY <1>12, <1>13, Induction
<1>15. \A k \in 0..N : w[k] \in SUBSET Value
  BY <1>1, <1>14 DEF M
<1>16. \A k \in 1..N : w[k] = G[w[k - 1]]
  <2>1. \A k \in 1..N : k - 1 \in 0..N
    BY <1>1
  <2> QED
    BY <1>11, <1>15, <2>1
<1> HIDE DEF G
<1>17. PP!AreLayers(w, G, Value, r)
  BY <1>5, <1>11, <1>15, <1>16 DEF PP!AreLayers
<1>18. PP!LeastClosed(w[N], G, Value, r)
  <2>1. PP!IsFiniteSet(Value)
    BY SameFinite, HoleFacts
  <2>2. PP!LeastClosed(w[PP!Cardinality(Value)], G, Value, r)
    BY <1>4, <1>17, <2>1, PP!LayersClosed, Assumed
  <2> QED
    BY <1>5, <2>2
<1> QED
  BY <1>9, <1>18 DEF G

LEMMA BelowFacts ==
  ASSUME InputOK, NEW cut, NEW r \in Value
  PROVE  LET R == Promise!Below(Tree, r, cut)
         IN  /\ R \subseteq Value /\ r \in R
             /\ \A n \in R : Promise!Children(Tree, n) \ cut \subseteq R
             /\ \A T \in SUBSET Value :
                  r \in T /\ (\A n \in T : Promise!Children(Tree, n) \ cut \subseteq T) => R \subseteq T
<1> DEFINE R == Promise!Below(Tree, r, cut)
           G == [S \in SUBSET Value |-> Reach(cut, S)]
<1>1. PP!LeastClosed(R, G, Value, r)
  BY BelowFixed
<1>2. R \in SUBSET Value /\ r \in R /\ G[R] \subseteq R
  BY <1>1 DEF PP!LeastClosed
<1>3. \A n \in R : Promise!Children(Tree, n) \ cut \subseteq R
  BY <1>2 DEF Reach
<1>4. ASSUME NEW T \in SUBSET Value, r \in T, \A n \in T : Promise!Children(Tree, n) \ cut \subseteq T
      PROVE  R \subseteq T
  <2>1. G[T] \subseteq T
    BY <1>4 DEF Reach
  <2> QED
    BY <1>1, <1>4, <2>1 DEF PP!LeastClosed
<1> QED
  BY <1>2, <1>3, <1>4

(* All that is below a value but the value itself has its parent there. *)
LEMMA ParentFacts ==
  ASSUME InputOK, NEW cut, NEW m \in Promise!Below(Tree, Root, cut), m # Root
  PROVE  \E n \in Promise!Below(Tree, Root, cut) : m \in Promise!Children(Tree, n) \ cut
<1> DEFINE R == Promise!Below(Tree, Root, cut)
           T == {Root} \cup UNION {Promise!Children(Tree, n) \ cut : n \in R}
<1>1. /\ R \subseteq Value /\ Root \in R /\ Root \in Value
      /\ \A n \in R : Promise!Children(Tree, n) \ cut \subseteq R
  BY BelowFacts, ValuesAreDigests
<1>2. T \subseteq R /\ \A n \in T : Promise!Children(Tree, n) \ cut \subseteq T
  BY <1>1
<1>3. T \in SUBSET Value /\ Root \in T
  BY <1>1, <1>2
<1> HIDE DEF T
<1>4. R \subseteq T
  BY <1>1, <1>2, <1>3, BelowFacts
<1> QED
  BY <1>4 DEF T

(* No value has two parents. *)
LEMMA OneParent ==
  ASSUME InputOK, NEW m \in Value, NEW n \in Value,
         Promise!Children(Tree, m) \cap Promise!Children(Tree, n) # {}
  PROVE  m = n
<1>1. PICK c : c \in Promise!Children(Tree, m) /\ c \in Promise!Children(Tree, n)
  OBVIOUS
<1>2. \A v \in Value : CnfValue \notin Members(v)
  BY SpotFacts DEF Members
<1>3. CASE c = CnfValue
  BY <1>1, <1>2, <1>3, ChildFacts
<1>4. CASE c # CnfValue
  <2>1. c \in Members(m) /\ c \in Members(n)
    BY <1>1, <1>4, ChildFacts
  <2> QED
    BY <2>1, SpotFacts DEF Members
<1> QED
  BY <1>3, <1>4

(* A value and all that it contains. *)
Inside(n) == Promise!Below(Tree, n, {})

LEMMA InsideFacts ==
  ASSUME InputOK, NEW n \in Value
  PROVE  /\ Inside(n) \subseteq Value /\ n \in Inside(n)
         /\ \A m \in Inside(n) : Promise!Children(Tree, m) \subseteq Inside(n)
         /\ \A T \in SUBSET Value :
              n \in T /\ (\A m \in T : Promise!Children(Tree, m) \subseteq T) => Inside(n) \subseteq T
<1>1. \A m : Promise!Children(Tree, m) \ {} = Promise!Children(Tree, m)
  OBVIOUS
<1> QED
  BY <1>1, BelowFacts DEF Inside

(* Whatever is disclosable is somewhere in the tree. *)
LEMMA SecretInside ==
  ASSUME InputOK, NEW m \in frame.sd
  PROVE  m \in Inside(Root)
<1>1. PICK n \in frame.framed : \E x \in Spots(n) : ValueAt(n, x) = m
  BY FrameFacts
<1>2. n \in Inside(Root)
  BY DEF InputOK, FrameOK, Inside
<1>3. Root \in Value /\ n \in Value
  BY <1>2, ValuesAreDigests, InsideFacts
<1>4. m \in Promise!Children(Tree, n)
  BY <1>1, <1>3, ChildFacts DEF Members
<1> QED
  BY <1>2, <1>3, <1>4, InsideFacts

-----------------------------------------------------------------------------
(* The packed payload is a document, and revealed as far as it is disclosed. *)

(* A node that is no value contains nothing. *)
LEMMA HoleIsEmpty ==
  ASSUME InputOK, NEW d, NEW D, Carries(d, D), NEW m \in Node, m \notin Value
  PROVE  d.kind[m] = "ph" /\ PlainAt(d, m) = {} /\ Embeds(d, m) = {}
<1>1. PICK g \in Digest : m = Hole[g]
  BY HoleFacts
<1>2. d.kind[m] = "ph"
  BY <1>1, PackedHoles
<1> QED
  BY <1>2 DEF PlainAt, Embeds

LEMMA CarriedTree ==
  ASSUME InputOK, NEW d, NEW D, Carries(d, D)
  PROVE  IsTree(d)
<1>1. \A n \in Node : \A x \in PlainAt(d, n) :
        n \in Value /\ ChildAt(d, n, x) \in Promise!Children(Tree, n) \ frame.sd
  <2> TAKE n \in Node
  <2> TAKE x \in PlainAt(d, n)
  <2>1. n \in Value
    BY HoleIsEmpty
  <2>2. ChildAt(d, n, x) \in PlainChildren(d, n)
    BY DEF PlainChildren
  <2> QED
    BY <2>1, <2>2, ValueFacts DEF NodeFacts
<1>2. \A m, n \in Node : \A x \in PlainAt(d, m), y \in PlainAt(d, n) :
         ChildAt(d, m, x) = ChildAt(d, n, y) => m = n /\ x = y
  <2> SUFFICES ASSUME NEW m \in Node, NEW n \in Node,
                      NEW x \in PlainAt(d, m), NEW y \in PlainAt(d, n),
                      ChildAt(d, m, x) = ChildAt(d, n, y)
               PROVE  m = n /\ x = y
    OBVIOUS
  <2>1. m \in Value /\ n \in Value /\ Promise!Children(Tree, m) \cap Promise!Children(Tree, n) # {}
    BY <1>1
  <2>2. m = n
    BY <2>1, OneParent
  <2> QED
    BY <2>1, <2>2, ValueFacts DEF NodeFacts
<1>3. \A g, h \in Presented(d) : DisclosureOf(d, g).value = DisclosureOf(d, h).value => g = h
  <2>1. \A g \in D : DisclosureOf(d, g).value = g
    BY PresentedFacts DEF Disclose
  <2> QED
    BY <2>1, PresentedFacts
<1>4. \A n \in Node : PlainChildren(d, n) \cap ({Root} \cup DisclosedValues(d)) = {}
  <2>1. DisclosedValues(d) \subseteq frame.sd
    BY PresentedFacts DEF Carries
  <2>2. \A n \in Node : \A x \in PlainAt(d, n) : ChildAt(d, n, x) \notin {Root} \cup frame.sd
    BY <1>1, ChildFacts
  <2> QED
    BY <2>1, <2>2 DEF PlainChildren
<1>5. Root \notin DisclosedValues(d)
  <2>1. DisclosedValues(d) = D /\ D \subseteq frame.sd
    BY PresentedFacts DEF Carries
  <2>2. Root \notin frame.sd
    BY FrameFacts
  <2> QED
    BY <2>1, <2>2
<1> QED
  BY <1>2, <1>3, <1>4, <1>5 DEF IsTree

LEMMA PackTyped ==
  ASSUME InputOK
  PROVE  Pack \in Parts
<1>1. Pack.kind \in [Node -> Kind] /\ Pack.kind[Root] = "obj"
  <2>1. \A m \in Node : (IF m \in Value THEN claims.kind[m] ELSE "ph") \in Kind
    BY InputFacts DEF Kind
  <2>2. Pack.kind = [m \in Node |-> IF m \in Value THEN claims.kind[m] ELSE "ph"]
    BY DEF Pack
  <2> QED
    BY <2>1, <2>2, SpotFacts, RootIsNode, ValuesAreDigests
<1>2. Pack.props \in [Node -> Partial(Name, Node)]
  <2>1. \A m \in Node : PlainProps(m) \in Partial(Name, Node)
    <3> TAKE m \in Node
    <3>1. CASE m \in Value
      BY <3>1, PlainPropsFacts
    <3>2. CASE m \notin Value
      <4>1. m # Root
        BY <3>2, ValuesAreDigests
      <4>2. DOMAIN PlainProps(m) = {} /\ PlainProps(m) \in [{} -> Node]
        BY <3>2, <4>1 DEF PlainProps, ClaimsAt
      <4> QED
        BY <4>2 DEF Partial
    <3> QED
      BY <3>1, <3>2
  <2> QED
    BY <2>1 DEF Pack
<1>3. Pack.sd \in [Node -> Seq(Digest)]
  <2>1. \A m \in Value : SDDigests(m) \in Seq(Digest)
    BY SDFacts
  <2>2. <<>> \in Seq(Digest)
    OBVIOUS
  <2> QED
    BY <2>1, <2>2 DEF Pack
<1>4. Pack.items \in [Node -> Seq(Node)]
  <2>1. \A m \in Value : claims.kind[m] = "arr" => PackedItems(m) \in Seq(Node)
    BY ItemFacts DEF IsPacking
  <2>2. <<>> \in Seq(Node)
    OBVIOUS
  <2> QED
    BY <2>1, <2>2 DEF Pack
<1>5. Pack.hides \in [Node -> Digest]
  <2>1. \A m \in Node : (CHOOSE g \in Digest : m \in Range(Hole) => Hole[g] = m) \in Digest
    <3> TAKE m \in Node
    <3>1. \E g \in Digest : m \in Range(Hole) => Hole[g] = m
      BY HolesAreNodes, ValuesAreDigests DEF Range
    <3> QED
      BY <3>1
  <2> QED
    BY <2>1 DEF Pack
<1>6. Pack.malformed \in [Node -> BOOLEAN]
  BY DEF Pack
<1>7. Pack.disclosures \in Seq(Disclosure)
  <2> DEFINE S == {Disclose(m) : m \in frame.sd}
  <2>1. S \subseteq Disclosure /\ IsFiniteSet(S)
    <3>1. IsFiniteSet(frame.sd)
      BY InputFacts, HoleFacts, FS_Subset
    <3> DEFINE f == [m \in frame.sd |-> Disclose(m)]
    <3>2. f \in Surjection(frame.sd, S)
      BY DEF Surjection
    <3> QED
      BY <3>1, <3>2, FS_Surjection, DiscloseTyped
  <2>2. SetToSeq(S) \in Seq(S)
    BY <2>1, SetToSeqFacts
  <2>3. Pack.disclosures = SetToSeq(S)
    BY DEF Pack
  <2> HIDE DEF S
  <2> QED
    BY <2>1, <2>2, <2>3
<1>8. Pack.sdAlg \in Alg \cup {"", "bad"} /\ Pack.provided \in Alg \cup {""}
  BY InputFacts DEF Pack
<1>9. Pack = [kind |-> Pack.kind, props |-> Pack.props, sd |-> Pack.sd, items |-> Pack.items,
              hides |-> Pack.hides, malformed |-> Pack.malformed,
              disclosures |-> Pack.disclosures, sdAlg |-> Pack.sdAlg, provided |-> Pack.provided]
  BY DEF Pack
<1> QED
  BY <1>1, <1>2, <1>3, <1>4, <1>5, <1>6, <1>7, <1>8, <1>9 DEF Parts

LEMMA CarriedDocument ==
  ASSUME InputOK, NEW d \in Parts, NEW D, Carries(d, D)
  PROVE  d \in Document
BY CarriedTree DEF Document

(* A value's children, clear and disclosed, are those not cut off. *)
LEMMA CarriedChildren ==
  ASSUME InputOK, NEW d, NEW D, Carries(d, D), NEW n \in Value
  PROVE  PlainChildren(d, n) \cup DisclosedChildren(d, n)
           = Promise!Children(Tree, n) \ (frame.sd \ D)
<1>1. DisclosedChildren(d, n) = {EmbeddedAt(d, n, i) : i \in Embeds(d, n)} \cap D
  <2>1. \A g \in D : DisclosureOf(d, g).value = g
    BY PresentedFacts DEF Disclose
  <2> QED
    BY <2>1, PresentedFacts DEF DisclosedChildren
<1>2. frame.decoys[n] \cap frame.sd = {}
  BY InputFacts DEF Decoy
<1>3. D \subseteq frame.sd
  BY DEF Carries
<1>4. DisclosedChildren(d, n) = Members(n) \cap D
  BY <1>1, <1>2, <1>3, ValueFacts DEF NodeFacts
<1>5. PlainChildren(d, n) = Promise!Children(Tree, n) \ frame.sd
  BY ValueFacts DEF NodeFacts
<1> QED
  BY <1>3, <1>4, <1>5, ChildFacts

(* What is revealed is the tree below the root, cut off at what is not disclosed. *)
LEMMA CarriedRevealed ==
  ASSUME InputOK, NEW d \in Parts, NEW D, Carries(d, D)
  PROVE  Revealed(d) = Promise!Below(Tree, Root, frame.sd \ D)
<1> DEFINE R == Revealed(d)
           B == Promise!Below(Tree, Root, frame.sd \ D)
           Kids(n) == PlainChildren(d, n) \cup DisclosedChildren(d, n)
<1>1. \A n \in Value : Kids(n) = Promise!Children(Tree, n) \ (frame.sd \ D)
  BY CarriedChildren
<1>2. d \in PP!Document /\ R = PP!Revealed(d)
  BY CarriedDocument, SameDocument, SameRevealed
<1>3. \A S : PP!Grow(d, S) = UNION {{n} \cup Kids(n) : n \in S}
  BY SameChildren DEF PP!Grow
<1>4. Root \in R /\ R \subseteq Node /\ PP!Grow(d, R) \subseteq R
  BY <1>2, PP!RevealedClosed, Assumed
<1>5. \A T \in SUBSET Node : Root \in T /\ PP!Grow(d, T) \subseteq T => R \subseteq T
  BY <1>2, PP!RevealedLeast, Assumed
<1>6. /\ B \subseteq Value /\ Root \in B /\ Root \in Value
      /\ \A n \in B : Promise!Children(Tree, n) \ (frame.sd \ D) \subseteq B
      /\ \A T \in SUBSET Value :
            Root \in T /\ (\A n \in T : Promise!Children(Tree, n) \ (frame.sd \ D) \subseteq T)
              => B \subseteq T
  BY BelowFacts, ValuesAreDigests
<1> HIDE DEF R, B, Kids
<1>7. R \subseteq B
  <2>1. PP!Grow(d, B) \subseteq B
    BY <1>1, <1>3, <1>6
  <2> QED
    BY <1>5, <1>6, <2>1, HoleFacts
<1>8. B \subseteq R
  <2>1. R \subseteq Value
    BY <1>6, <1>7
  <2>2. \A n \in R : Kids(n) \subseteq R
    BY <1>3, <1>4
  <2> QED
    BY <1>1, <1>4, <1>6, <2>1, <2>2
<1> QED
  BY <1>7, <1>8 DEF R, B

-----------------------------------------------------------------------------
(* The packed payload is valid. *)

(* A disclosure fits where its digest is embedded. *)
LEMMA CarriedLegal ==
  ASSUME InputOK, CanIssue, NEW d, NEW D, Carries(d, D), NEW n \in Value,
         NEW x \in Spots(n), ValueAt(n, x) \in D
  PROVE  LegalIn(d, n, ValueAt(n, x))
<1> DEFINE m == ValueAt(n, x)
           e == DisclosureOf(d, m)
<1>1. m \in frame.sd /\ e = Disclose(m)
  BY PresentedFacts DEF Carries
<1>2. /\ claims.kind[n] = "obj" => ~e.isArray /\ e.name = x
      /\ claims.kind[n] # "obj" => e.isArray
  BY <1>1, DiscloseFacts
<1>3. n \in Node /\ d.kind[n] = claims.kind[n] /\ d.props[n] = PlainProps(n)
  BY PackedParts, HoleFacts
<1>4. claims.kind[n] \in {"obj", "arr"}
  BY SpotFacts
<1>5. ASSUME claims.kind[n] = "obj"
      PROVE  x \notin ReservedNames /\ x \notin DOMAIN PlainProps(n)
  <2>1. x \in DOMAIN claims.props[n] /\ claims.props[n][x] = m
    BY <1>5 DEF Spots, ValueAt
  <2>2. x \notin ReservedNames
    BY <2>1 DEF CanIssue, ClaimsAt, ReservedNames
  <2>3. ~(n = Root /\ input.holderKey /\ x = "cnf")
    BY <2>1, SpotFacts
  <2>4. DOMAIN PlainProps(n)
          = {k \in DOMAIN claims.props[n] : claims.props[n][k] \notin frame.sd}
              \cup (IF n = Root /\ input.holderKey THEN {"cnf"} ELSE {})
    BY PlainPropsFacts
  <2>5. x \notin DOMAIN PlainProps(n)
    BY <1>1, <2>1, <2>3, <2>4
  <2> QED
    BY <2>2, <2>5
<1> HIDE DEF m, e
<1>6. LegalIn(d, n, m)
  BY <1>2, <1>3, <1>4, <1>5 DEF LegalIn, e
<1> QED
  BY <1>6 DEF m

(* Each digest that a value embeds is one of its children, or a decoy. *)
LEMMA EmbeddedChild ==
  ASSUME InputOK, NEW d, NEW D, Carries(d, D), NEW n \in Value, NEW i \in Embeds(d, n),
         EmbeddedAt(d, n, i) \in frame.sd
  PROVE  \E x \in Spots(n) : ValueAt(n, x) = EmbeddedAt(d, n, i)
<1>1. EmbeddedAt(d, n, i) \in (Members(n) \cap frame.sd) \cup frame.decoys[n]
  BY ValueFacts DEF NodeFacts
<1>2. frame.decoys[n] \cap frame.sd = {}
  BY InputFacts DEF Decoy
<1> QED
  BY <1>1, <1>2 DEF Members

LEMMA CarriedValid ==
  ASSUME InputOK, CanIssue, NEW d \in Parts, NEW D, Carries(d, D),
         D \subseteq Promise!Below(Tree, Root, frame.sd \ D),
         ResolveHashAlgorithm(d) \in Supported
  PROVE  ValidDocument(d)
<1> DEFINE R == Revealed(d)
<1>1. R = Promise!Below(Tree, Root, frame.sd \ D)
  BY CarriedRevealed
<1>2. R \subseteq Value /\ Presented(d) = D /\ D \subseteq frame.sd
  <2>1. Root \in Value
    BY ValuesAreDigests
  <2>2. R \subseteq Value
    BY <1>1, <2>1, BelowFacts
  <2>3. Presented(d) = D
    BY PresentedFacts
  <2> QED
    BY <2>2, <2>3 DEF Carries
<1> HIDE DEF R
<1>3. \A n \in R : d.kind[n] # "ph" /\ ~d.malformed[n]
  <2> TAKE n \in R
  <2>1. n \in Value /\ n \in Node
    BY <1>2, HoleFacts
  <2>2. d.kind[n] = claims.kind[n] /\ d.malformed[n] = FALSE
    BY <2>1, PackedParts
  <2> QED
    BY <2>1, <2>2, InputFacts
<1>4. ASSUME NEW n \in R, NEW i \in Embeds(d, n) PROVE PP!PlaceOK(d, n, i)
  <2>1. EmbeddedAt(d, n, i) \in D => LegalIn(d, n, EmbeddedAt(d, n, i))
    BY <1>2, EmbeddedChild, CarriedLegal
  <2>2. d.kind[n] = "arr" => ~d.malformed[d.items[n][i]]
    <3> SUFFICES ASSUME d.kind[n] = "arr" PROVE ~d.malformed[d.items[n][i]]
      OBVIOUS
    <3>1. n \in Node /\ i \in DOMAIN d.items[n] /\ d.items[n] \in Seq(Node)
      BY <1>2, HoleFacts DEF Embeds, Parts
    <3>2. d.items[n][i] \in Node
      BY <3>1
    <3> QED
      BY <3>2, PackedParts
  <2>3. d.kind[n] = "obj" => ~d.malformed[n]
    BY <1>3
  <2> QED
    BY <1>2, <2>1, <2>2, <2>3, SameParts, SameLegal DEF PP!PlaceOK
<1>5. ASSUME NEW m \in R, NEW n \in R, NEW i \in Embeds(d, m), NEW j \in Embeds(d, n),
             EmbeddedAt(d, m, i) = EmbeddedAt(d, n, j)
      PROVE  m = n /\ i = j
  <2> DEFINE g == EmbeddedAt(d, m, i)
  <2>1. /\ g \in (Members(m) \cap frame.sd) \cup frame.decoys[m]
        /\ g \in (Members(n) \cap frame.sd) \cup frame.decoys[n]
    BY <1>2, <1>5, ValueFacts DEF NodeFacts
  <2>2. \A v \in Value : frame.decoys[v] \cap frame.sd = {}
    BY InputFacts DEF Decoy
  <2>3. ASSUME g \in Members(m), g \in Members(n) PROVE m = n
    BY <1>2, <2>3, SpotFacts DEF Members
  <2>4. ASSUME g \in frame.decoys[m], g \in frame.decoys[n] PROVE m = n
    BY <1>2, <2>4, FrameFacts
  <2>5. m = n
    BY <1>2, <2>1, <2>2, <2>3, <2>4
  <2> QED
    BY <1>2, <1>5, <2>5, ValueFacts DEF NodeFacts
<1>6. ASSUME NEW n \in R, d.kind[n] = "obj",
             NEW i \in DOMAIN d.sd[n], NEW j \in DOMAIN d.sd[n],
             d.sd[n][i] \in D, d.sd[n][j] \in D,
             DisclosureOf(d, d.sd[n][i]).name = DisclosureOf(d, d.sd[n][j]).name
      PROVE  i = j
  <2>1. n \in Value /\ i \in Embeds(d, n) /\ j \in Embeds(d, n)
        /\ EmbeddedAt(d, n, i) = d.sd[n][i] /\ EmbeddedAt(d, n, j) = d.sd[n][j]
    BY <1>2, <1>6 DEF Embeds, EmbeddedAt
  <2>2. claims.kind[n] = "obj"
    BY <1>6, <2>1, PackedParts, HoleFacts
  <2>3. PICK x \in Spots(n) : ValueAt(n, x) = d.sd[n][i]
    BY <1>2, <1>6, <2>1, EmbeddedChild
  <2>4. PICK y \in Spots(n) : ValueAt(n, y) = d.sd[n][j]
    BY <1>2, <1>6, <2>1, EmbeddedChild
  <2>5. Disclose(ValueAt(n, x)).name = x /\ Disclose(ValueAt(n, y)).name = y
    BY <1>2, <1>6, <2>1, <2>2, <2>3, <2>4, DiscloseFacts
  <2>6. x = y
    BY <1>6, <2>3, <2>4, <2>5, PresentedFacts
  <2> QED
    BY <2>1, <2>3, <2>4, <2>6, ValueFacts DEF NodeFacts
<1>7. ASSUME NEW g \in D PROVE \E n \in R : \E i \in Embeds(d, n) : EmbeddedAt(d, n, i) = g
  <2>1. g \in R /\ g # Root /\ g \in frame.sd
    BY <1>1, <1>2, FrameFacts
  <2>2. PICK n \in R : g \in Promise!Children(Tree, n)
    BY <1>1, <2>1, ParentFacts
  <2>3. g \in Members(n) \cap frame.sd
    BY <1>2, <2>1, <2>2, ChildFacts
  <2> QED
    BY <1>2, <2>3, ValueFacts DEF NodeFacts
<1>8. PP!ValidPlaces(d, R)
  BY <1>2, <1>3, <1>4, <1>5, <1>6, <1>7, SameParts DEF PP!ValidPlaces, PP!NameAt
<1>9. PP!ValidDocument(d)
  <2>1. /\ PP!ResolveHashAlgorithm(d) \in Supported /\ PP!DistinctDisclosures(d)
        /\ PP!ValidPlaces(d, PP!Revealed(d))
    BY <1>8, SameLegal, SameRevealed, PresentedFacts DEF R
  <2> QED
    BY <2>1, PP!ValidByPlaces, Assumed
<1> QED
  BY <1>9, SameValid

-----------------------------------------------------------------------------
(* What is left of a value when some disclosures are withheld. *)

(* What f maps to no value of gone. *)
Without(f, gone) == [k \in {k \in DOMAIN f : f[k] \notin gone} |-> f[k]]

LEMMA CutClaims ==
  ASSUME InputOK, NEW d \in Parts, NEW D, Carries(d, D), NEW n \in Value, claims.kind[n] = "obj"
  PROVE  ExpectedClaims(d, n) = Without(Tree[n].claims, frame.sd \ D)
<1> DEFINE t == Tree[n].claims
           opened == {i \in DOMAIN d.sd[n] : d.sd[n][i] \in Presented(d)}
           E(i) == DisclosureOf(d, d.sd[n][i])
           props == d.props[n]
           cnf == IF n = Root /\ input.holderKey THEN {"cnf"} ELSE {}
<1>1. /\ n \in Node /\ d.kind[n] = "obj" /\ props = PlainProps(n)
      /\ Embeds(d, n) = DOMAIN d.sd[n] /\ \A i : EmbeddedAt(d, n, i) = d.sd[n][i]
  <2>1. n \in Node
    BY HoleFacts
  <2>2. d.kind[n] = claims.kind[n] /\ d.props[n] = PlainProps(n)
    BY <2>1, PackedParts
  <2> QED
    BY <2>1, <2>2 DEF Embeds, EmbeddedAt
<1>2. Presented(d) = D /\ D \subseteq frame.sd
  BY PresentedFacts DEF Carries
<1>3. /\ Spots(n) = DOMAIN claims.props[n] /\ \A k : ValueAt(n, k) = claims.props[n][k]
  BY DEF Spots, ValueAt
<1>4. \A i \in opened : /\ E(i).name \in Spots(n) /\ ValueAt(n, E(i).name) = d.sd[n][i]
                        /\ E(i).value = d.sd[n][i] /\ d.sd[n][i] \in D
  <2> TAKE i \in opened
  <2>1. i \in Embeds(d, n) /\ EmbeddedAt(d, n, i) \in D
    BY <1>1, <1>2
  <2>2. PICK x \in Spots(n) : ValueAt(n, x) = d.sd[n][i]
    BY <1>1, <1>2, <2>1, EmbeddedChild
  <2>3. E(i) = Disclose(ValueAt(n, x)) /\ ValueAt(n, x) \in frame.sd
    BY <1>1, <1>2, <2>1, <2>2, PresentedFacts
  <2> QED
    BY <1>1, <2>1, <2>2, <2>3, DiscloseFacts
<1>5. \A k \in Spots(n) : ValueAt(n, k) \in D => \E i \in opened : E(i).name = k
  <2> SUFFICES ASSUME NEW k \in Spots(n), ValueAt(n, k) \in D
               PROVE  \E i \in opened : E(i).name = k
    OBVIOUS
  <2>1. ValueAt(n, k) \in Members(n) \cap frame.sd
    BY <1>2 DEF Members
  <2>2. PICK i \in Embeds(d, n) : EmbeddedAt(d, n, i) = ValueAt(n, k)
    BY <2>1, ValueFacts DEF NodeFacts
  <2>3. i \in opened /\ d.sd[n][i] = ValueAt(n, k)
    BY <1>1, <1>2, <2>2
  <2> QED
    BY <1>4, <2>3, SpotFacts
<1>6. /\ DOMAIN props = {k \in Spots(n) : ValueAt(n, k) \notin frame.sd} \cup cnf
      /\ \A k \in DOMAIN props : props[k] = t[k] /\ t[k] \notin frame.sd
  <2>1. DOMAIN PlainProps(n)
          = {k \in DOMAIN claims.props[n] : claims.props[n][k] \notin frame.sd} \cup cnf
    BY PlainPropsFacts
  <2>2. \A k \in DOMAIN PlainProps(n) : /\ PlainProps(n)[k] = Tree[n].claims[k]
                                        /\ PlainProps(n)[k] \notin frame.sd
    BY PlainPropsFacts
  <2> QED
    BY <1>1, <1>3, <2>1, <2>2
<1>7. DOMAIN t = Spots(n) \cup cnf /\ \A k \in Spots(n) : t[k] = ValueAt(n, k)
  BY <1>3, TreeFacts
<1> HIDE DEF t, opened, E, props, cnf
<1> DEFINE K == {k \in DOMAIN t : t[k] \notin frame.sd \ D}
<1>8. DOMAIN props \cup {E(i).name : i \in opened} = K
  <2>1. \A k \in DOMAIN props : k \in K
    BY <1>6, <1>7
  <2>2. \A i \in opened : E(i).name \in K
    BY <1>4, <1>7
  <2>3. ASSUME NEW k \in K, k \notin DOMAIN props PROVE \E i \in opened : E(i).name = k
    <3>1. k \in Spots(n) /\ ValueAt(n, k) \in frame.sd
      BY <1>6, <1>7, <2>3
    <3>2. ValueAt(n, k) \in D
      BY <1>7, <3>1
    <3> QED
      BY <1>5, <3>1, <3>2
  <2> QED
    BY <2>1, <2>2, <2>3
<1>9. ASSUME NEW k \in K, k \notin DOMAIN props
      PROVE  E(CHOOSE i \in opened : E(i).name = k).value = t[k]
  <2>1. \E i \in opened : E(i).name = k
    BY <1>8, <1>9
  <2> DEFINE i == CHOOSE i \in opened : E(i).name = k
  <2>2. i \in opened /\ E(i).name = k
    BY <2>1
  <2> HIDE DEF i
  <2>3. E(i).value = t[k]
    BY <1>4, <1>7, <2>2
  <2> QED
    BY <2>3 DEF i
<1>10. ExpectedClaims(d, n) = [k \in K |->
          IF k \in DOMAIN props THEN props[k] ELSE E(CHOOSE i \in opened : E(i).name = k).value]
  <2>1. ExpectedClaims(d, n) = [k \in DOMAIN props \cup {E(i).name : i \in opened} |->
          IF k \in DOMAIN props THEN props[k] ELSE E(CHOOSE i \in opened : E(i).name = k).value]
    BY DEF ExpectedClaims, E, opened, props
  <2> QED
    BY <1>8, <2>1
<1>11. ExpectedClaims(d, n) = [k \in K |-> t[k]]
  BY <1>6, <1>9, <1>10
<1> QED
  BY <1>11 DEF t, Without

(* The items of an array: what was disclosed opens in place, the rest leaves nothing. *)
LEMMA CutItems ==
  ASSUME InputOK, NEW d \in Parts, NEW D, Carries(d, D), NEW n \in Value, claims.kind[n] = "arr",
         NEW X, \A m \in Value : m \in Members(n) => (m \in X <=> m \notin frame.sd \ D)
  PROVE  ExpectedItems(d, n) = Kept(claims.items[n], X)
<1> DEFINE s == claims.items[n]
           w == PackedItems(n)
           u == ItemsUpTo(d, n)
<1>1. PICK N \in Nat, y \in Seq(Digest) : IsPacking(n, w, N, y)
  BY ItemFacts
<1>2. /\ {y[j] : j \in 1..Len(y)} = frame.decoys[n]
      /\ N = Len(s) /\ w \in Seq(Node) /\ Len(w) = N + Len(y)
      /\ \A i \in 1..N : w[i] = IF s[i] \in frame.sd THEN Hole[s[i]] ELSE s[i]
      /\ \A i \in 1..N + Len(y) : i \notin 1..N => i - N \in 1..Len(y) /\ w[i] = Hole[y[i - N]]
  BY <1>1 DEF IsPacking
<1>3. d \in Document /\ Presented(d) = D /\ D \subseteq frame.sd
  BY CarriedDocument, PresentedFacts DEF Carries
<1>4. n \in Node /\ d.items[n] = w
  <2>1. n \in Node
    BY HoleFacts
  <2> QED
    BY <2>1, PackedParts
<1>5. Len(y) \in Nat /\ s \in Seq(Value) /\ \A i \in 1..N : s[i] \in Value /\ s[i] \in Digest
  <2>1. Len(y) \in Nat /\ s \in Seq(Value)
    BY InputFacts
  <2> QED
    BY <1>2, <2>1, HoleFacts
<1>6. u[0] = <<>> /\ \A i \in 1..Len(w) : u[i] = PP!ItemAdded(d, n, i, u[i - 1])
  <2>1. d \in PP!Document /\ PP!ItemsUpTo(d, n) = u
    BY <1>3, SameDocument, SameItems
  <2>2. /\ PP!ItemsUpTo(d, n)[0] = <<>>
        /\ \A i \in 1..Len(d.items[n]) :
             PP!ItemsUpTo(d, n)[i] = PP!ItemAdded(d, n, i, PP!ItemsUpTo(d, n)[i - 1])
    BY <1>4, <2>1, PP!ItemsByPosition, Assumed
  <2> HIDE DEF u, w
  <2> QED
    BY <1>4, <2>1, <2>2
<1>7. \A i \in 1..N : s[i] \in X <=> s[i] \notin frame.sd \ D
  <2>1. \A i \in 1..N : s[i] \in Members(n)
    BY <1>2, <1>5 DEF Members, Spots, ValueAt
  <2> QED
    BY <1>5, <2>1
<1> HIDE DEF u, w
<1>8. ASSUME NEW i \in 1..N, NEW t
      PROVE  PP!ItemAdded(d, n, i, t) = IF s[i] \in X THEN Append(t, s[i]) ELSE t
  <2>1. CASE s[i] \in frame.sd
    <3>1. d.items[n][i] = Hole[s[i]] /\ d.kind[Hole[s[i]]] = "ph" /\ d.hides[Hole[s[i]]] = s[i]
      BY <1>2, <1>4, <1>5, <2>1, PackedHoles
    <3>2. s[i] \in D => DisclosureOf(d, s[i]).value = s[i]
      BY PresentedFacts DEF Disclose
    <3>3. s[i] \in X <=> s[i] \in D
      BY <1>3, <1>7, <2>1
    <3> QED
      BY <1>3, <3>1, <3>2, <3>3, SameParts DEF PP!ItemAdded
  <2>2. CASE s[i] \notin frame.sd
    <3>1. d.items[n][i] = s[i] /\ s[i] \in Value /\ s[i] \in Node
      BY <1>2, <1>4, <1>5, <2>2, HoleFacts
    <3>2. \A v \in Value : v \in Node => d.kind[v] = claims.kind[v]
      BY PackedParts
    <3>3. claims.kind[s[i]] # "ph" /\ s[i] \in X
      BY <1>7, <2>2, <3>1, InputFacts
    <3> QED
      BY <3>1, <3>2, <3>3 DEF PP!ItemAdded
  <2> QED
    BY <2>1, <2>2
<1>9. ASSUME NEW i \in 1..N + Len(y), i \notin 1..N, NEW t PROVE PP!ItemAdded(d, n, i, t) = t
  <2>1. i - N \in 1..Len(y) /\ d.items[n][i] = Hole[y[i - N]]
    BY <1>2, <1>4, <1>9
  <2> DEFINE g == y[i - N]
  <2>2. g \in frame.decoys[n]
    BY <1>2, <2>1
  <2>3. g \in Digest /\ g \notin frame.sd
    BY <2>2, InputFacts DEF Decoy
  <2> HIDE DEF g
  <2>4. d.kind[Hole[g]] = "ph" /\ d.hides[Hole[g]] = g
    BY <2>3, PackedHoles
  <2> QED
    BY <1>3, <2>1, <2>3, <2>4, SameParts DEF PP!ItemAdded, g
<1>10. PICK v : IsKept(v, s, X)
  BY <1>5, KeptByPosition
<1>11. /\ v[0] = <<>> /\ Kept(s, X) = v[N]
       /\ \A i \in 1..N : v[i] = IF s[i] \in X THEN Append(v[i - 1], s[i]) ELSE v[i - 1]
  BY <1>2, <1>10 DEF IsKept
<1> DEFINE Done(i) == IF i <= N THEN i ELSE N
           M == {i \in Nat : i \in 0..N + Len(y) => u[i] = v[Done(i)]}
<1> HIDE DEF s
<1>12. 0 \in M
  BY <1>6, <1>11
<1>13. ASSUME NEW i \in Nat, i \in M PROVE i + 1 \in M
  <2> SUFFICES ASSUME i + 1 \in 0..N + Len(y) PROVE u[i + 1] = v[Done(i + 1)]
    OBVIOUS
  <2>1. /\ i \in 0..N + Len(y) /\ i + 1 \in 1..N + Len(y) /\ (i + 1) - 1 = i
        /\ i + 1 \in 1..N => Done(i) = i /\ Done(i + 1) = i + 1
        /\ i + 1 \notin 1..N => Done(i) = N /\ Done(i + 1) = N
    BY <1>5
  <2>2. u[i + 1] = PP!ItemAdded(d, n, i + 1, u[i]) /\ u[i] = v[Done(i)]
    BY <1>2, <1>6, <1>13, <2>1
  <2> HIDE DEF Done
  <2>3. CASE i + 1 \in 1..N
    <3>1. u[i + 1] = IF s[i + 1] \in X THEN Append(v[i], s[i + 1]) ELSE v[i]
      BY <1>8, <2>1, <2>2, <2>3
    <3> QED
      BY <1>11, <2>1, <2>3, <3>1
  <2>4. CASE i + 1 \notin 1..N
    <3>1. u[i + 1] = u[i]
      BY <1>9, <2>1, <2>2, <2>4
    <3> QED
      BY <2>1, <2>2, <2>4, <3>1
  <2> QED
    BY <2>3, <2>4
<1> HIDE DEF M
<1>14. Nat \subseteq M
  BY <1>12, <1>13, Induction
<1>15. N + Len(y) \in M /\ N + Len(y) \in 0..N + Len(y) /\ Done(N + Len(y)) = N
  BY <1>5, <1>14
<1>16. u[Len(w)] = v[N]
  BY <1>2, <1>15 DEF M
<1>17. ExpectedItems(d, n) = u[Len(w)]
  BY <1>4 DEF ExpectedItems, u
<1> QED
  BY <1>11, <1>16, <1>17 DEF s

LEMMA SameKept == \A s, S : Promise!Kept(s, S) = Kept(s, S)
BY Zenon DEF Promise!Kept, Kept

(* Who has the disclosures of D sees the tree cut off at the others. *)
LEMMA CutExpected ==
  ASSUME InputOK, NEW d \in Parts, NEW D, Carries(d, D),
         NEW n \in Promise!Below(Tree, Root, frame.sd \ D)
  PROVE  Expected(d, n)
           = Promise!Cut(Tree, Promise!Below(Tree, Root, frame.sd \ D))[n]
<1> DEFINE S == Promise!Below(Tree, Root, frame.sd \ D)
           t == Tree[n].claims
           kept == {k \in DOMAIN t : t[k] \in S}
<1>1. /\ n \in Value /\ n \in S
      /\ \A c \in Promise!Children(Tree, n) : c \in S <=> c \notin frame.sd \ D
  <2>1. Root \in Value
    BY ValuesAreDigests
  <2>2. /\ S \subseteq Value /\ \A m \in S : Promise!Children(Tree, m) \ (frame.sd \ D) \subseteq S
    BY <2>1, BelowFacts
  <2>3. \A m \in S : m # Root => m \notin frame.sd \ D
    BY ParentFacts
  <2>4. Root \notin frame.sd
    BY FrameFacts
  <2> QED
    BY <2>2, <2>3, <2>4
<1> HIDE DEF S
<1>2. Promise!Cut(Tree, S)[n]
        = [claims |-> [k \in kept |-> t[k]], items |-> Kept(Tree[n].items, S)]
  BY <1>1, SameKept DEF Promise!Cut
<1>3. Tree[n].items = claims.items[n]
  BY <1>1, TreeFacts
<1>4. n \in Node /\ d.kind[n] = claims.kind[n]
  BY <1>1, PackedParts, HoleFacts
<1>5. Expected(d, n) = [claims |-> IF claims.kind[n] = "obj" THEN ExpectedClaims(d, n) ELSE <<>>,
                        items  |-> IF claims.kind[n] = "arr" THEN ExpectedItems(d, n) ELSE <<>>]
  BY <1>4 DEF Expected
<1>6. \A k \in DOMAIN t : t[k] \in Promise!Children(Tree, n)
  BY <1>1, KidFacts
<1>7. [k \in kept |-> t[k]] = Without(t, frame.sd \ D)
  BY <1>1, <1>6 DEF Without
<1>8. CASE claims.kind[n] = "obj"
  <2>1. ExpectedClaims(d, n) = Without(t, frame.sd \ D)
    BY <1>1, <1>8, CutClaims
  <2>2. claims.items[n] = <<>>
    BY <1>1, <1>8, SpotFacts
  <2> QED
    BY <1>2, <1>3, <1>5, <1>7, <1>8, <2>1, <2>2, KeptNone DEF S
<1>9. CASE claims.kind[n] # "obj"
  <2>1. kept = {}
    BY <1>1, <1>9, TreeFacts
  <2>2. [k \in kept |-> t[k]] = <<>>
    BY <2>1
  <2>3. CASE claims.kind[n] = "arr"
    <3>1. \A m \in Value : m \in Members(n) => (m \in S <=> m \notin frame.sd \ D)
      BY <1>1, ChildFacts
    <3>2. ExpectedItems(d, n) = Kept(claims.items[n], S)
      BY <1>1, <2>3, <3>1, CutItems
    <3> QED
      BY <1>2, <1>3, <1>5, <1>9, <2>2, <2>3, <3>2 DEF S
  <2>4. CASE claims.kind[n] # "arr"
    <3>1. claims.items[n] = <<>>
      BY <1>1, <2>4, SpotFacts
    <3>2. Kept(Tree[n].items, S) = <<>>
      BY <1>3, <3>1, KeptNone
    <3>3. Expected(d, n) = [claims |-> <<>>, items |-> <<>>]
      BY <1>5, <1>9, <2>4
    <3> QED
      BY <1>2, <2>2, <3>2, <3>3 DEF S
  <2> QED
    BY <2>3, <2>4
<1> QED
  BY <1>8, <1>9 DEF S

(* With every disclosure nothing is cut off. *)
LEMMA AllExpected ==
  ASSUME InputOK, NEW d \in Parts, Carries(d, frame.sd), NEW n \in Inside(Root)
  PROVE  Expected(d, n) = Tree[n]
<1> DEFINE B == Inside(Root)
           t == Tree[n].claims
           kept == {k \in DOMAIN t : t[k] \in B}
<1>1. Root \in Value
  BY ValuesAreDigests
<1>2. n \in Value /\ \A c \in Promise!Children(Tree, n) : c \in B
  BY <1>1, InsideFacts
<1>3. frame.sd \ frame.sd = {}
  OBVIOUS
<1>4. Expected(d, n) = Promise!Cut(Tree, B)[n]
  BY <1>3, CutExpected DEF Inside
<1> HIDE DEF B
<1>5. Promise!Cut(Tree, B)[n] = [claims |-> [k \in kept |-> t[k]], items |-> Kept(Tree[n].items, B)]
  BY SameKept DEF Promise!Cut, B
<1>6. kept = DOMAIN t /\ t = [k \in DOMAIN t |-> t[k]] /\ Tree[n] = [claims |-> t, items |-> Tree[n].items]
  <2>1. \A k \in DOMAIN t : t[k] \in B
    BY <1>2, KidFacts
  <2> QED
    BY <1>2, <2>1 DEF Tree
<1>7. Kept(Tree[n].items, B) = Tree[n].items
  <2>1. Tree[n].items \in Seq(Value)
    BY <1>2, TreeFacts, InputFacts
  <2>2. \A i \in 1..Len(Tree[n].items) : Tree[n].items[i] \in B
    BY <1>2, <2>1, KidFacts
  <2> QED
    BY <2>1, <2>2, KeptAll
<1> QED
  BY <1>4, <1>5, <1>6, <1>7

-----------------------------------------------------------------------------
(* Type correctness: the walk stays inside the claims. *)

LEMMA PackCarries ==
  ASSUME InputOK
  PROVE  Carries(Pack, frame.sd)
<1> DEFINE S == {Disclose(m) : m \in frame.sd}
           s == Pack.disclosures
<1>1. IsFiniteSet(S)
  <2>1. IsFiniteSet(frame.sd)
    BY InputFacts, HoleFacts, FS_Subset
  <2> DEFINE f == [m \in frame.sd |-> Disclose(m)]
  <2>2. f \in Surjection(frame.sd, S)
    BY DEF Surjection
  <2> QED
    BY <2>1, <2>2, FS_Surjection
<1>2. s = SetToSeq(S)
  BY DEF Pack
<1> HIDE DEF S, s
<1>3. /\ s \in Seq(S) /\ \A x \in S : \E i \in 1..Len(s) : s[i] = x
      /\ \A i, j \in 1..Len(s) : s[i] = s[j] => i = j
  BY <1>1, <1>2, SetToSeqFacts
<1>4. DOMAIN s = 1..Len(s) /\ \A i \in 1..Len(s) : s[i] \in S
  BY <1>3
<1>5. {s[i] : i \in DOMAIN s} = S
  BY <1>3, <1>4
<1> QED
  BY <1>3, <1>4, <1>5 DEF Carries, S, s

(* What of the packed payload the holder's functions see as it was signed. *)
LEMMA HeldParts ==
  ASSUME InputOK, sdjwt = Pack
  PROVE  /\ Held.props = Pack.props /\ Held.sd = Pack.sd /\ Held.items = Pack.items
         /\ Held.hides = Pack.hides /\ Held.disclosures = Pack.disclosures
         /\ Presented(Held) = frame.sd
         /\ \A g \in frame.sd : DisclosureOf(Held, g) = Disclose(g)
<1>1. /\ Held.props = Pack.props /\ Held.sd = Pack.sd /\ Held.items = Pack.items
      /\ Held.hides = Pack.hides /\ Held.disclosures = Pack.disclosures
  BY PackTyped DEF Held, AsTyped, Parsed, Parts
<1>2. Presented(Pack) = frame.sd /\ \A g \in frame.sd : DisclosureOf(Pack, g) = Disclose(g)
  BY PackCarries, PresentedFacts
<1>3. Presented(Held) = Presented(Pack) /\ \A g : DisclosureOf(Held, g) = DisclosureOf(Pack, g)
  BY <1>1 DEF Presented, DisclosureOf
<1> QED
  BY <1>1, <1>2, <1>3

(* Entries of the walk are about nodes and disclosable values. *)
EntriesOK(S) == \A e \in S : e.node \in Node /\ e.via \in frame.sd \cup {NoVia}

LEMMA EntryTyped ==
  ASSUME InputOK, sdjwt = Pack, NEW e, e.node \in Node
  PROVE  /\ \A g : EntriesOK(DigestEntry(Held, e, g))
         /\ Held.kind[e.node] = "obj" => EntriesOK(KeyEntries(Held, e))
         /\ \A i \in DOMAIN Held.items[e.node] : \A p : EntriesOK(ItemEntry(Held, e, i, p))
<1> DEFINE n == e.node
<1>1. /\ Presented(Held) = frame.sd /\ frame.sd \subseteq Node
      /\ \A g \in frame.sd : DisclosureOf(Held, g).value = g
  BY HeldParts, InputFacts, HoleFacts DEF Disclose
<1>2. /\ \A k \in DOMAIN Held.props[n] : Held.props[n][k] \in Node
      /\ \A i \in DOMAIN Held.items[n] : Held.items[n][i] \in Node
  <2>1. Pack.props[n] \in Partial(Name, Node) /\ Pack.items[n] \in Seq(Node)
    BY PackTyped DEF Parts
  <2>2. \A k \in DOMAIN Pack.props[n] : Pack.props[n][k] \in Node
    BY <2>1 DEF Partial
  <2> QED
    BY <2>1, <2>2, HeldParts
<1>3. \A p, m, v : Entry(p, m, v).node = m /\ Entry(p, m, v).via = v
  BY DEF Entry
<1> HIDE DEF n
<1>4. \A g : EntriesOK(DigestEntry(Held, e, g))
  BY <1>1, <1>3 DEF EntriesOK, DigestEntry
<1>5. EntriesOK(KeyEntries(Held, e))
  BY <1>2, <1>3 DEF EntriesOK, KeyEntries, n
<1>6. \A i \in DOMAIN Held.items[n] : \A p : EntriesOK(ItemEntry(Held, e, i, p))
  BY <1>1, <1>2, <1>3 DEF EntriesOK, ItemEntry, n
<1> QED
  BY <1>4, <1>5, <1>6 DEF n

(* s is a sequence of sets of such entries. *)
AgendaOK(s) == \E T : s \in Seq(T) /\ \A S \in T : EntriesOK(S)

LEMMA AgendaByPlace ==
  ASSUME NEW N \in Nat, NEW s, s = [i \in 1..N |-> s[i]], \A i \in 1..N : EntriesOK(s[i])
  PROVE  AgendaOK(s)
<1> DEFINE T == {s[i] : i \in 1..N}
<1>1. \A i \in 1..N : s[i] \in T
  OBVIOUS
<1>2. \A S \in T : EntriesOK(S)
  OBVIOUS
<1> HIDE DEF T
<1>3. s \in Seq(T)
  BY <1>1
<1> QED
  BY <1>2, <1>3 DEF AgendaOK

LEMMA AgendaJoin ==
  ASSUME NEW s, NEW t, AgendaOK(s), AgendaOK(t)
  PROVE  AgendaOK(s \o t)
<1>1. PICK S : s \in Seq(S) /\ \A x \in S : EntriesOK(x)
  BY DEF AgendaOK
<1>2. PICK T : t \in Seq(T) /\ \A x \in T : EntriesOK(x)
  BY DEF AgendaOK
<1> DEFINE U == S \cup T
<1>3. \A x \in U : EntriesOK(x)
  BY <1>1, <1>2
<1>4. s \in Seq(U) /\ t \in Seq(U)
  BY <1>1, <1>2
<1> HIDE DEF U
<1>5. s \o t \in Seq(U)
  BY <1>4
<1> QED
  BY <1>3, <1>5 DEF AgendaOK

LEMMA BelowTyped ==
  ASSUME InputOK, sdjwt = Pack, NEW e, e.node \in Node
  PROVE  AgendaOK(Below(Held, e))
<1> DEFINE n == e.node
           s == Held.sd[n]
           w == Held.items[n]
<1>1. s \in Seq(Digest) /\ w \in Seq(Node)
  BY PackTyped, HeldParts DEF Parts
<1>2. Len(s) \in Nat /\ DOMAIN s = 1..Len(s) /\ Len(w) \in Nat /\ DOMAIN w = 1..Len(w)
  BY <1>1
<1>3. CASE Held.kind[n] = "obj"
  <2> DEFINE t == [i \in DOMAIN s |-> DigestEntry(Held, e, s[i])]
             u == <<KeyEntries(Held, e)>>
  <2>1. AgendaOK(t)
    <3>1. t = [i \in 1..Len(s) |-> t[i]] /\ \A i \in 1..Len(s) : EntriesOK(t[i])
      BY <1>2, EntryTyped
    <3> HIDE DEF t
    <3> QED
      BY <1>2, <3>1, AgendaByPlace
  <2>2. AgendaOK(u)
    <3>1. EntriesOK(KeyEntries(Held, e))
      BY <1>3, EntryTyped
    <3> DEFINE T == {KeyEntries(Held, e)}
    <3>2. u \in Seq(T) /\ \A S \in T : EntriesOK(S)
      BY <3>1
    <3> HIDE DEF T, u
    <3> QED
      BY <3>2 DEF AgendaOK
  <2>3. Below(Held, e) = Append(t, KeyEntries(Held, e))
    BY <1>3 DEF Below
  <2>4. Append(t, KeyEntries(Held, e)) = t \o u
    <3>1. PICK T : t \in Seq(T)
      BY <2>1 DEF AgendaOK
    <3> HIDE DEF t
    <3> QED
      BY <3>1
  <2> HIDE DEF t, u
  <2> QED
    BY <2>1, <2>2, <2>3, <2>4, AgendaJoin
<1>4. CASE Held.kind[n] = "arr"
  <2> DEFINE t == [i \in DOMAIN w |-> ItemEntry(Held, e, i, HolderPath(e.path, i))]
  <2>1. t = [i \in 1..Len(w) |-> t[i]] /\ \A i \in 1..Len(w) : EntriesOK(t[i])
    BY <1>2, EntryTyped
  <2>2. Below(Held, e) = t
    BY <1>4 DEF Below
  <2> HIDE DEF t
  <2> QED
    BY <1>2, <2>1, <2>2, AgendaByPlace
<1>5. CASE Held.kind[n] \notin {"obj", "arr"}
  <2>1. Below(Held, e) = <<>>
    BY <1>5 DEF Below
  <2>2. <<>> \in Seq({})
    OBVIOUS
  <2> QED
    BY <2>1, <2>2 DEF AgendaOK
<1> QED
  BY <1>3, <1>4, <1>5

(***************************************************************************)
(* The inductive invariant: what is issued is what the frames say, and it  *)
(* stays as it was issued; an honest walk and selection are inside it.     *)
(***************************************************************************)
Stages == {"draft", "refused", "issued", "held", "selected", "verified"}

IssueInv ==
  /\ InputOK
  /\ stage \in Stages /\ inMemory \in BOOLEAN /\ error \in BOOLEAN
  /\ stage \in {"draft", "refused", "issued"} => ~inMemory
  /\ stage \notin {"draft", "refused"} => CanIssue /\ sdjwt = Pack

IInv ==
  /\ IssueInv
  /\ AgendaOK(agenda)
  /\ Range(keyToDigest) \subseteq frame.sd
  /\ Range(presented) \subseteq Disclosure
  /\ missing \subseteq required

LEMMA EmptyAgenda == AgendaOK(<<>>)
<1> DEFINE T == {}
<1>1. <<>> \in Seq(T) /\ \A S \in T : EntriesOK(S)
  OBVIOUS
<1> HIDE DEF T
<1> QED
  BY <1>1 DEF AgendaOK

LEMMA InitIInv == Init => IInv
<1> SUFFICES ASSUME Init PROVE IInv
  OBVIOUS
<1>1. Range(<<>>) = {}
  BY DEF Range
<1> QED
  BY <1>1, EmptyAgenda DEF Init, Start, IInv, IssueInv, Stages

(* What the claims, the frames and the packed payload are made of stays. *)
LEMMA InputStays ==
  ASSUME input' = input
  PROVE  /\ InputOK' = InputOK /\ frame' = frame /\ CanIssue' = CanIssue /\ Pack' = Pack
         /\ Tree' = Tree
<1>1. claims' = claims /\ frame' = frame
  BY DEF claims, frame
<1>2. Tree' = Tree
  BY <1>1 DEF Tree
<1>3. \A n : ClaimsAt(n)' = ClaimsAt(n)
  BY <1>1 DEF ClaimsAt
<1>4. \A n : PlainProps(n)' = PlainProps(n)
  BY <1>1, <1>3 DEF PlainProps
<1>5. \A n : SDDigests(n)' = SDDigests(n)
  BY <1>1 DEF SDDigests
<1>6. \A n : PackedItems(n)' = PackedItems(n)
  BY <1>1 DEF PackedItems
<1>7. \A m : Disclose(m)' = Disclose(m)
  BY <1>3 DEF Disclose
<1>8. Pack' = Pack
  BY <1>1, <1>4, <1>5, <1>6, <1>7 DEF Pack
<1>9. CanIssue' = CanIssue
  BY <1>3 DEF CanIssue
<1>10. \A n : Spots(n)' = Spots(n) /\ \A x : ValueAt(n, x)' = ValueAt(n, x)
  BY <1>1 DEF Spots, ValueAt
<1>11. \A n : Members(n)' = Members(n)
  BY <1>10 DEF Members
<1>12. ClaimsOK' = ClaimsOK
  BY <1>1, <1>10, <1>11 DEF ClaimsOK
<1>13. FrameOK' = FrameOK
  BY <1>1, <1>2, <1>11 DEF FrameOK
<1>14. InputOK' = InputOK
  BY <1>12, <1>13 DEF InputOK
<1> QED
  BY <1>1, <1>2, <1>8, <1>9, <1>14

LEMMA IssueInvStays ==
  ASSUME IssueInv, UNCHANGED <<input, sdjwt, inMemory>>, stage' \in Stages, error' \in BOOLEAN,
         stage \notin {"draft", "refused"}, stage' \notin {"draft", "refused", "issued"}
  PROVE  IssueInv'
BY InputStays DEF IssueInv

LEMMA AgendaStays ==
  ASSUME input' = input, AgendaOK(agenda')
  PROVE  AgendaOK(agenda)'
<1>1. frame' = frame
  BY InputStays
<1>2. \A S : EntriesOK(S)' <=> EntriesOK(S)
  BY <1>1 DEF EntriesOK
<1> QED
  BY <1>2 DEF AgendaOK

LEMMA IssueIInv == IInv /\ IssueWithFrame => IInv'
<1> SUFFICES ASSUME IInv, IssueWithFrame PROVE IInv'
  OBVIOUS
<1> USE DEF IInv
<1>1. /\ UNCHANGED <<input, inMemory, agenda, keyToDigest, presented, required, missing, error>>
      /\ stage' \in Stages /\ stage' \in {"refused", "issued"} /\ ~inMemory
      /\ stage' = "issued" => CanIssue /\ sdjwt' = Pack
  BY DEF IssueWithFrame, IssueInv, verdict, Stages
<1>2. IssueInv'
  BY <1>1, InputStays DEF IssueInv
<1>3. AgendaOK(agenda)'
  BY <1>1, AgendaStays
<1>4. frame' = frame
  BY <1>1, InputStays
<1> QED
  BY <1>1, <1>2, <1>3, <1>4

LEMMA CreateIInv ==
  ASSUME IInv, NEW b \in BOOLEAN, CreateHolder(b), error' \in BOOLEAN
  PROVE  IInv'
<1> USE DEF IInv
<1>1. /\ UNCHANGED <<input, sdjwt, keyToDigest, presented, required, missing>>
      /\ stage = "issued" /\ stage' = "held" /\ inMemory' = b
      /\ agenda' = <<{Entry(<<>>, Root, NoVia)}>>
  BY DEF CreateHolder, verdict
<1>2. IssueInv'
  BY <1>1, InputStays DEF IssueInv, Stages
<1>3. AgendaOK(agenda')
  <2> DEFINE S == {Entry(<<>>, Root, NoVia)}
             T == {S}
  <2>1. EntriesOK(S)
    BY RootIsNode DEF EntriesOK, Entry
  <2> HIDE DEF S
  <2>2. agenda' \in Seq(T) /\ \A U \in T : EntriesOK(U)
    BY <1>1, <2>1 DEF S
  <2> HIDE DEF T
  <2> QED
    BY <2>2 DEF AgendaOK
<1>4. AgendaOK(agenda)' /\ frame' = frame
  BY <1>1, <1>3, AgendaStays, InputStays
<1> QED
  BY <1>1, <1>2, <1>4

LEMMA NewHolderIInv == IInv /\ NewHolder => IInv'
BY CreateIInv DEF NewHolder, IInv, IssueInv

LEMMA ParseIInv == IInv /\ ParseAndCreateHolder => IInv'
<1> SUFFICES ASSUME IInv, ParseAndCreateHolder PROVE IInv'
  OBVIOUS
<1>1. CreateHolder(FALSE) /\ error' = ~ValidDocument(Parsed(sdjwt))
  BY DEF ParseAndCreateHolder
<1>2. error' \in BOOLEAN
  BY <1>1
<1> QED
  BY <1>1, <1>2, CreateIInv

(* Dropping the empty sets of a list of entries leaves such a list. *)
LEMMA AgendaKept ==
  ASSUME NEW s, AgendaOK(s), NEW S
  PROVE  AgendaOK(Kept(s, S))
<1>1. PICK T : s \in Seq(T) /\ \A x \in T : EntriesOK(x)
  BY DEF AgendaOK
<1>2. Kept(s, S) \in Seq(T)
  BY <1>1, KeptFacts
<1> QED
  BY <1>1, <1>2 DEF AgendaOK

LEMMA WalkIInv == IInv /\ WalkPayloadForKeys => IInv'
<1> SUFFICES ASSUME IInv, WalkPayloadForKeys PROVE IInv'
  OBVIOUS
<1> USE DEF IInv
<1>1. /\ UNCHANGED <<input, stage, sdjwt, inMemory, presented, required, missing, error>>
      /\ stage = "held" /\ agenda # <<>>
  BY DEF WalkPayloadForKeys, verdict
<1>2. PICK e \in Head(agenda) :
        /\ keyToDigest' = IF e.via = NoVia
                            THEN keyToDigest
                            ELSE [k \in DOMAIN keyToDigest \cup {e.path} |->
                                    IF k = e.path THEN e.via ELSE keyToDigest[k]]
        /\ LET next == Below(Held, e) \o <<Head(agenda) \ {e}>> \o Tail(agenda)
           IN  agenda' = Kept(next, Range(next) \ {{}})
  BY DEF WalkPayloadForKeys
<1>3. InputOK /\ sdjwt = Pack
  BY <1>1 DEF IssueInv
<1>4. PICK T : agenda \in Seq(T) /\ \A S \in T : EntriesOK(S)
  BY DEF AgendaOK
<1>5. EntriesOK(Head(agenda)) /\ AgendaOK(Tail(agenda))
  <2>1. Head(agenda) \in T /\ Tail(agenda) \in Seq(T)
    BY <1>1, <1>4
  <2> QED
    BY <1>4, <2>1 DEF AgendaOK
<1>6. e.node \in Node /\ e.via \in frame.sd \cup {NoVia}
  BY <1>2, <1>5 DEF EntriesOK
<1>7. AgendaOK(Below(Held, e))
  BY <1>3, <1>6, BelowTyped
<1>8. AgendaOK(<<Head(agenda) \ {e}>>)
  <2> DEFINE S == Head(agenda) \ {e}
             U == {S}
  <2>1. EntriesOK(S)
    BY <1>5 DEF EntriesOK
  <2> HIDE DEF S
  <2>2. <<S>> \in Seq(U) /\ \A x \in U : EntriesOK(x)
    BY <2>1
  <2> HIDE DEF U
  <2>3. AgendaOK(<<S>>)
    BY <2>2 DEF AgendaOK
  <2> QED
    BY <2>3 DEF S
<1>9. AgendaOK(agenda')
  <2> DEFINE next == Below(Held, e) \o <<Head(agenda) \ {e}>> \o Tail(agenda)
  <2>1. AgendaOK(Below(Held, e) \o <<Head(agenda) \ {e}>>)
    BY <1>7, <1>8, AgendaJoin
  <2>2. AgendaOK(next)
    BY <1>5, <2>1, AgendaJoin
  <2>3. agenda' = Kept(next, Range(next) \ {{}})
    BY <1>2
  <2> HIDE DEF next
  <2> QED
    BY <2>2, <2>3, AgendaKept
<1>10. AgendaOK(agenda)' /\ frame' = frame
  BY <1>1, <1>9, AgendaStays, InputStays
<1>11. Range(keyToDigest') \subseteq frame.sd
  BY <1>2, <1>6 DEF Range
<1>12. IssueInv'
  <2>1. stage' \in Stages /\ error' \in BOOLEAN
    BY <1>1 DEF IssueInv
  <2> QED
    BY <1>1, <2>1, IssueInvStays
<1>13. Range(keyToDigest)' \subseteq frame'.sd
  BY <1>10, <1>11 DEF Range
<1> QED
  BY <1>1, <1>10, <1>12, <1>13

LEMMA SelectIInv ==
  ASSUME IInv, NEW keys, SelectWithFrame(keys)
  PROVE  IInv'
<1> USE DEF IInv
<1>1. /\ UNCHANGED <<input, sdjwt, inMemory, agenda, keyToDigest, required, missing, error>>
      /\ stage = "held" /\ stage' = "selected"
  BY DEF SelectWithFrame, verdict
<1>2. PICK S : presented' = Kept(sdjwt.disclosures, S)
  BY DEF SelectWithFrame
<1>3. sdjwt.disclosures \in Seq(Disclosure)
  <2>1. sdjwt = Pack /\ InputOK
    BY <1>1 DEF IssueInv
  <2> QED
    BY <2>1, PackTyped DEF Parts
<1>4. presented' \in Seq(Disclosure)
  BY <1>2, <1>3, KeptFacts
<1>5. Range(presented)' \subseteq Disclosure
  BY <1>4 DEF Range
<1>6. AgendaOK(agenda)' /\ frame' = frame
  BY <1>1, AgendaStays, InputStays
<1>7. IssueInv'
  <2>1. stage' \in Stages /\ error' \in BOOLEAN
    BY <1>1 DEF IssueInv, Stages
  <2> QED
    BY <1>1, <2>1, IssueInvStays
<1> QED
  BY <1>1, <1>5, <1>6, <1>7

LEMMA VerifyIInv ==
  ASSUME IInv, NEW keys, Verify(keys)
  PROVE  IInv'
<1> USE DEF IInv
<1>1. /\ UNCHANGED <<input, sdjwt, inMemory, agenda, keyToDigest, presented>>
      /\ stage = "selected" /\ stage' = "verified" /\ error' = ~ValidDocument(Received)
      /\ missing' = IF error' THEN {} ELSE {r \in required' : ~Found(Received, r)}
  BY DEF Verify
<1>2. missing' \subseteq required'
  BY <1>1
<1>3. AgendaOK(agenda)' /\ frame' = frame
  BY <1>1, AgendaStays, InputStays
<1>4. IssueInv'
  <2>1. stage' \in Stages /\ error' \in BOOLEAN
    BY <1>1 DEF Stages
  <2> QED
    BY <1>1, <2>1, IssueInvStays
<1> QED
  BY <1>1, <1>2, <1>3, <1>4

(* A step on no variable of the invariant keeps it. *)
LEMMA StutterIInv == IInv /\ UNCHANGED vars => IInv'
<1> SUFFICES ASSUME IInv, UNCHANGED vars PROVE IInv'
  OBVIOUS
<1> USE DEF IInv
<1>1. UNCHANGED <<input, stage, sdjwt, inMemory, agenda, keyToDigest, presented, required,
                  missing, error>>
  BY DEF vars
<1>2. AgendaOK(agenda)' /\ frame' = frame
  BY <1>1, AgendaStays, InputStays
<1>3. IssueInv'
  BY <1>1, InputStays DEF IssueInv
<1> QED
  BY <1>1, <1>2, <1>3

LEMMA NextIInv == IInv /\ [Next]_vars => IInv'
<1> SUFFICES ASSUME IInv, [Next]_vars PROVE IInv'
  OBVIOUS
<1>1. CASE IssueWithFrame
  BY <1>1, IssueIInv
<1>2. CASE NewHolder
  BY <1>2, NewHolderIInv
<1>3. CASE ParseAndCreateHolder
  BY <1>3, ParseIInv
<1>4. CASE WalkPayloadForKeys
  BY <1>4, WalkIInv
<1>5. CASE \E keys \in Requests : SelectWithFrame(keys)
  BY <1>5, SelectIInv
<1>6. CASE \E keys \in Required : Verify(keys)
  BY <1>6, VerifyIInv
<1>7. CASE UNCHANGED vars
  BY <1>7, StutterIInv
<1> QED
  BY <1>1, <1>2, <1>3, <1>4, <1>5, <1>6, <1>7 DEF Next

(* What was issued stays as the frames say, wherever the life of it goes. *)
THEOREM Inductive == Spec => []IInv
<1>1. Init => IInv
  BY InitIInv
<1>2. IInv /\ [Next]_vars => IInv'
  BY NextIInv
<1> QED
  BY <1>1, <1>2, PTL DEF Spec

(* Values have their types; the holder's walk stays inside the claims, for *)
(* every tree of claims, frame and order of the walk.                      *)
THEOREM TypeCorrect == Spec => []TypeOK
<1>1. IInv => TypeOK
  <2> SUFFICES ASSUME IInv PROVE TypeOK
    OBVIOUS
  <2>1. PICK T : agenda \in Seq(T) /\ \A S \in T : EntriesOK(S)
    BY DEF IInv, AgendaOK
  <2>2. Range(agenda) \subseteq T
    BY <2>1 DEF Range
  <2> QED
    BY <2>1, <2>2 DEF TypeOK, IInv, IssueInv, Stages, EntriesOK
<1> QED
  BY <1>1, Inductive, PTL

-----------------------------------------------------------------------------
(* The holder sees every claim the issuer signed. *)

(* Where memory is like text, the holder has the packed payload. *)
ReadInv ==
  /\ IInv
  /\ inMemory => AsTyped(sdjwt).kind = sdjwt.kind /\ ResolveHashAlgorithm(sdjwt) # NoAlg

LEMMA HeldCarries ==
  ASSUME ReadInv, stage = "held"
  PROVE  /\ InputOK /\ CanIssue /\ Held \in Parts /\ Carries(Held, frame.sd)
         /\ ResolveHashAlgorithm(Held) \in Supported
<1>1. InputOK /\ CanIssue /\ sdjwt = Pack /\ Pack \in Parts /\ Carries(Pack, frame.sd)
  BY PackTyped, PackCarries DEF ReadInv, IInv, IssueInv
<1> DEFINE stated == IF Pack.sdAlg = "" THEN DefaultAlg ELSE Pack.sdAlg
<1>2. stated \in Supported /\ stated \in Alg
  BY <1>1, DefaultIsSupported DEF Pack, CanIssue
<1>3. CASE inMemory
  <2>1. AsTyped(Pack).kind = Pack.kind /\ ResolveHashAlgorithm(Pack) # NoAlg
    BY <1>1, <1>3 DEF ReadInv
  <2>2. AsTyped(Pack) = [Pack EXCEPT !.kind = AsTyped(Pack).kind]
    BY <1>1 DEF AsTyped, Parts
  <2>3. Held = Pack
    <3>1. Held = AsTyped(Pack)
      BY <1>1, <1>3 DEF Held
    <3>2. AsTyped(Pack) = [Pack EXCEPT !.kind = Pack.kind]
      BY <2>1, <2>2
    <3>3. [Pack EXCEPT !.kind = Pack.kind] = Pack
      BY <1>1 DEF Parts
    <3> QED
      BY <3>1, <3>2, <3>3
  <2>4. ResolveHashAlgorithm(Pack) = stated
    BY <2>1 DEF ResolveHashAlgorithm
  <2> QED
    BY <1>1, <1>2, <2>3, <2>4
<1>4. CASE ~inMemory
  <2>1. Held = [Pack EXCEPT !.provided = stated]
    BY <1>1, <1>4 DEF Held, Parsed
  <2> HIDE DEF stated
  <2>2. /\ Held = [kind |-> Pack.kind, props |-> Pack.props, sd |-> Pack.sd, items |-> Pack.items,
                   hides |-> Pack.hides, malformed |-> Pack.malformed,
                   disclosures |-> Pack.disclosures, sdAlg |-> Pack.sdAlg, provided |-> stated]
    BY <1>1, <2>1 DEF Parts
  <2>3. Held \in Parts
    BY <1>1, <1>2, <2>2 DEF Parts
  <2>4. Carries(Held, frame.sd)
    BY <1>1, <2>2 DEF Carries
  <2>5. ResolveHashAlgorithm(Held) = stated
    BY <1>2, <2>2 DEF ResolveHashAlgorithm, stated
  <2> QED
    BY <1>1, <1>2, <2>3, <2>4, <2>5
<1> QED
  BY <1>3, <1>4

LEMMA ReadSees ==
  ASSUME ReadInv
  PROVE  HolderSeesAll
<1> SUFFICES ASSUME stage = "held"
             PROVE  /\ ValidDocument(Held)
                    /\ \A n \in Revealed(Held) : Expected(Held, n) = Tree[n]
                    /\ Revealed(Held) = Promise!Below(Tree, Root, {})
  BY DEF HolderSeesAll
<1> DEFINE d == Held
           B == Promise!Below(Tree, Root, {})
<1>1. /\ InputOK /\ CanIssue /\ d \in Parts /\ Carries(d, frame.sd)
      /\ ResolveHashAlgorithm(d) \in Supported
  BY HeldCarries
<1>2. frame.sd \ frame.sd = {}
  OBVIOUS
<1> HIDE DEF d
<1>3. Revealed(d) = B
  BY <1>1, <1>2, CarriedRevealed
<1>4. /\ B \subseteq Value /\ \A n \in B : Promise!Children(Tree, n) \subseteq B
  <2>1. Root \in Value
    BY ValuesAreDigests
  <2> QED
    BY <1>1, <2>1, BelowFacts
<1>5. frame.sd \subseteq B
  BY <1>1, SecretInside DEF Inside
<1>6. ValidDocument(d)
  BY <1>1, <1>2, <1>5, CarriedValid
<1>7. \A n \in Revealed(d) : Expected(d, n) = Tree[n]
  BY <1>1, <1>3, AllExpected DEF Inside
<1> QED
  BY <1>3, <1>6, <1>7 DEF d

LEMMA NextReadInv == ReadInv /\ [Next /\ AsInMemory]_vars => ReadInv'
<1> SUFFICES ASSUME ReadInv, [Next /\ AsInMemory]_vars PROVE ReadInv'
  OBVIOUS
<1>1. IInv'
  BY NextIInv DEF ReadInv
<1> DEFINE Like == AsTyped(sdjwt).kind = sdjwt.kind /\ ResolveHashAlgorithm(sdjwt) # NoAlg
<1>2. inMemory' => Like
  BY DEF ReadInv, AsInMemory, vars
<1>3. inMemory' => sdjwt' = sdjwt
  <2>1. CASE IssueWithFrame
    BY <1>1, <2>1 DEF IInv, IssueInv, IssueWithFrame
  <2>2. CASE UNCHANGED vars
    BY <2>2 DEF vars
  <2>3. CASE Next /\ ~IssueWithFrame
    BY <2>3 DEF Next, NewHolder, ParseAndCreateHolder, CreateHolder, WalkPayloadForKeys,
                SelectWithFrame, Verify
  <2> QED
    BY <2>1, <2>2, <2>3
<1>4. ASSUME sdjwt' = sdjwt PROVE Like' = Like
  BY <1>4 DEF AsTyped, ResolveHashAlgorithm
<1> HIDE DEF Like
<1>5. inMemory' => Like'
  BY <1>2, <1>3, <1>4
<1> QED
  BY <1>1, <1>5 DEF ReadInv, Like

(***************************************************************************)
(* Issuing and reading back lose nothing: whatever the claims, the frame,  *)
(* the decoys and the order of the hash values, the holder can process     *)
(* what the issuer packed and sees the tree that was signed, value by      *)
(* value.                                                                  *)
(***************************************************************************)
THEOREM RoundTrip == ReadSpec => []HolderSeesAll
<1>1. Init => ReadInv
  <2> SUFFICES ASSUME Init PROVE ReadInv
    OBVIOUS
  <2> QED
    BY InitIInv DEF Init, Start, ReadInv
<1> QED
  BY <1>1, NextReadInv, ReadSees, PTL DEF ReadSpec

-----------------------------------------------------------------------------
(* Prefixes of paths. *)

LEMMA PrefixMeans ==
  ASSUME NEW T, NEW s \in Seq(T), NEW t \in Seq(T)
  PROVE  IsPrefix(s, t) <=> Len(s) <= Len(t) /\ \A i \in 1..Len(s) : s[i] = t[i]
<1>1. Len(s) \in Nat /\ Len(t) \in Nat
  OBVIOUS
<1>2. ASSUME Len(s) <= Len(t)
      PROVE  /\ Len(SubSeq(s, 1, Len(s))) = Len(s) /\ Len(SubSeq(t, 1, Len(s))) = Len(s)
             /\ \A i \in 1..Len(s) : SubSeq(s, 1, Len(s))[i] = s[i] /\ SubSeq(t, 1, Len(s))[i] = t[i]
             /\ SubSeq(s, 1, Len(s)) \in Seq(T) /\ SubSeq(t, 1, Len(s)) \in Seq(T)
  BY <1>1, <1>2
<1>3. ASSUME NEW u \in Seq(T), NEW v \in Seq(T), Len(u) = Len(v), \A i \in 1..Len(u) : u[i] = v[i]
      PROVE  u = v
  BY <1>3
<1> QED
  BY <1>1, <1>2, <1>3 DEF IsPrefix

(* Prefixes are ordered, those of one list in a line, and concatenation  *)
(* keeps the order.                                                      *)
LEMMA PrefixFacts ==
  ASSUME NEW T, NEW s \in Seq(T), NEW t \in Seq(T), NEW u \in Seq(T)
  PROVE  /\ IsPrefix(s, s) /\ IsPrefix(<<>>, s) /\ IsPrefix(s, s \o t)
         /\ IsPrefix(s, t) /\ IsPrefix(t, u) => IsPrefix(s, u)
         /\ IsPrefix(s, u) /\ IsPrefix(t, u) => IsPrefix(s, t) \/ IsPrefix(t, s)
         /\ IsPrefix(s \o t, s \o u) => IsPrefix(t, u)
         /\ IsPrefix(s, t) => Len(s) <= Len(t)
         /\ IsPrefix(s, t) /\ Len(s) = Len(t) => s = t
<1>1. Len(s) \in Nat /\ Len(t) \in Nat /\ Len(u) \in Nat /\ <<>> \in Seq(T) /\ Len(<<>>) = 0
  OBVIOUS
<1>2. /\ s \o t \in Seq(T) /\ Len(s \o t) = Len(s) + Len(t)
      /\ \A i \in 1..Len(s) : (s \o t)[i] = s[i]
      /\ \A i \in 1..Len(t) : (s \o t)[Len(s) + i] = t[i]
  OBVIOUS
<1>3. /\ s \o u \in Seq(T) /\ Len(s \o u) = Len(s) + Len(u)
      /\ \A i \in 1..Len(u) : (s \o u)[Len(s) + i] = u[i]
  OBVIOUS
<1> DEFINE v == s \o t
           w == s \o u
<1> HIDE DEF v, w
<1>4. /\ v \in Seq(T) /\ Len(v) = Len(s) + Len(t)
      /\ \A i \in 1..Len(s) : v[i] = s[i]
      /\ \A i \in 1..Len(t) : v[Len(s) + i] = t[i]
      /\ w \in Seq(T) /\ Len(w) = Len(s) + Len(u)
      /\ \A i \in 1..Len(u) : w[Len(s) + i] = u[i]
  BY <1>2, <1>3 DEF v, w
<1>5. ASSUME NEW x \in Seq(T), NEW y \in Seq(T)
      PROVE  IsPrefix(x, y) <=> Len(x) <= Len(y) /\ \A i \in 1..Len(x) : x[i] = y[i]
  BY PrefixMeans
<1>6. IsPrefix(s, s) /\ IsPrefix(<<>>, s) /\ IsPrefix(s, v)
  <2>1. IsPrefix(s, s)
    BY <1>1, <1>5
  <2>2. Len(s) <= Len(v) /\ \A i \in 1..Len(s) : s[i] = v[i]
    BY <1>1, <1>4
  <2>3. IsPrefix(s, v)
    BY <1>4, <1>5, <2>2
  <2>4. IsPrefix(<<>>, s)
    <3>1. Len(<<>>) <= Len(s) /\ \A i \in 1..Len(<<>>) : <<>>[i] = s[i]
      BY <1>1
    <3> QED
      BY <1>1, <1>5, <3>1
  <2> QED
    BY <2>1, <2>3, <2>4
<1>7. IsPrefix(s, t) /\ IsPrefix(t, u) => IsPrefix(s, u)
  <2> SUFFICES ASSUME IsPrefix(s, t), IsPrefix(t, u) PROVE IsPrefix(s, u)
    OBVIOUS
  <2>1. /\ Len(s) <= Len(t) /\ \A i \in 1..Len(s) : s[i] = t[i]
        /\ Len(t) <= Len(u) /\ \A i \in 1..Len(t) : t[i] = u[i]
    BY PrefixMeans
  <2>2. \A i \in 1..Len(s) : i \in 1..Len(t)
    BY <1>1, <2>1
  <2>3. Len(s) <= Len(u) /\ \A i \in 1..Len(s) : s[i] = u[i]
    BY <1>1, <2>1, <2>2
  <2> QED
    BY <2>3, PrefixMeans
<1>8. IsPrefix(s, u) /\ IsPrefix(t, u) => IsPrefix(s, t) \/ IsPrefix(t, s)
  <2> SUFFICES ASSUME IsPrefix(s, u), IsPrefix(t, u) PROVE IsPrefix(s, t) \/ IsPrefix(t, s)
    OBVIOUS
  <2>1. (\A i \in 1..Len(s) : s[i] = u[i]) /\ \A i \in 1..Len(t) : t[i] = u[i]
    BY PrefixMeans
  <2>2. CASE Len(s) <= Len(t)
    <3>1. \A i \in 1..Len(s) : i \in 1..Len(t)
      BY <1>1, <2>2
    <3> QED
      BY <2>1, <2>2, <3>1, PrefixMeans
  <2>3. CASE Len(t) <= Len(s)
    <3>1. \A i \in 1..Len(t) : i \in 1..Len(s)
      BY <1>1, <2>3
    <3> QED
      BY <2>1, <2>3, <3>1, PrefixMeans
  <2> QED
    BY <1>1, <2>2, <2>3
<1>9. IsPrefix(v, w) => IsPrefix(t, u)
  <2> SUFFICES ASSUME IsPrefix(v, w) PROVE IsPrefix(t, u)
    OBVIOUS
  <2>1. Len(v) <= Len(w) /\ \A i \in 1..Len(v) : v[i] = w[i]
    BY <1>4, <1>5
  <2>2. Len(t) <= Len(u) /\ \A i \in 1..Len(t) : Len(s) + i \in 1..Len(v) /\ i \in 1..Len(u)
    BY <1>1, <1>4, <2>1
  <2>3. \A i \in 1..Len(t) : t[i] = u[i]
    BY <1>4, <2>1, <2>2
  <2> QED
    BY <2>2, <2>3, PrefixMeans
<1>10. /\ IsPrefix(s, t) => Len(s) <= Len(t)
       /\ IsPrefix(s, t) /\ Len(s) = Len(t) => s = t
  BY PrefixMeans
<1> QED
  BY <1>6, <1>7, <1>8, <1>9, <1>10 DEF v, w

-----------------------------------------------------------------------------
(* Paths in the tree. *)

IndexWord == {<<Index(i)>> : i \in Nat}
NameWord == UNION {Range(Words[k]) : k \in Name}
Word == NameWord \cup IndexWord

(* The words that lead from value n to what it contains. *)
KeyHop(n, k) == [way |-> Words[k], node |-> Tree[n].claims[k]]
ItemHop(n, i) == [way |-> <<<<Index(i)>>>>, node |-> Tree[n].items[i]]
Hops(n) ==
  {KeyHop(n, k) : k \in DOMAIN Tree[n].claims} \cup {ItemHop(n, i) : i \in DOMAIN Tree[n].items}

LEMMA SeqInto ==
  ASSUME NEW S, NEW T, NEW s \in Seq(S), \A i \in 1..Len(s) : s[i] \in T
  PROVE  s \in Seq(T)
OBVIOUS

LEMMA OneWord ==
  ASSUME NEW T, NEW a \in T, NEW b \in T
  PROVE  /\ <<a>> \in Seq(T) /\ <<a>> # <<>>
         /\ IsPrefix(<<a>>, <<b>>) => a = b
<1> DEFINE s == <<a>>
           t == <<b>>
<1>1. /\ s \in Seq(T) /\ t \in Seq(T) /\ s # <<>>
      /\ Len(s) = 1 /\ Len(t) = 1 /\ s[1] = a /\ t[1] = b
  OBVIOUS
<1> HIDE DEF s, t
<1>2. IsPrefix(s, t) <=> Len(s) <= Len(t) /\ \A i \in 1..Len(s) : s[i] = t[i]
  BY <1>1, PrefixMeans
<1>3. IsPrefix(s, t) => a = b
  BY <1>1, <1>2
<1> QED
  BY <1>1, <1>3 DEF s, t

(* Hops lead to the children, to each by one, and have words. *)
LEMMA HopFacts ==
  ASSUME InputOK, NEW n \in Value
  PROVE  /\ \A h \in Hops(n) : /\ h = [way |-> h.way, node |-> h.node]
                               /\ h.way \in Seq(Word) /\ h.way # <<>>
                               /\ h.node \in Promise!Children(Tree, n)
         /\ \A m \in Promise!Children(Tree, n) : \E h \in Hops(n) : h.node = m
         /\ \A g, h \in Hops(n) : g.node = h.node => g = h
<1> DEFINE t == Tree[n].claims
           s == Tree[n].items
<1>1. /\ DOMAIN t \subseteq Name /\ s \in Seq(Value)
      /\ Promise!Children(Tree, n) = {t[k] : k \in DOMAIN t} \cup {s[i] : i \in DOMAIN s}
  <2>1. DOMAIN t \subseteq Name /\ s \in Seq(Value)
    BY TreeFacts, InputFacts, CnfIsName
  <2> QED
    BY <2>1 DEF Promise!Children, Promise!Range
<1>2. \A k \in Name : Words[k] \in Seq(Word) /\ Words[k] # <<>>
  <2> TAKE k \in Name
  <2>1. Words[k] \in Seq(Seq(STRING)) /\ Words[k] # <<>>
    BY NamesHaveWords
  <2>2. \A i \in 1..Len(Words[k]) : Words[k][i] \in Range(Words[k])
    BY <2>1 DEF Range
  <2>3. \A i \in 1..Len(Words[k]) : Words[k][i] \in Word
    BY <2>2, Zenon DEF Word, NameWord
  <2> HIDE DEF Word
  <2> QED
    BY <2>1, <2>3, SeqInto
<1>3. \A i \in Nat : <<<<Index(i)>>>> \in Seq(Word) /\ <<<<Index(i)>>>> # <<>>
  <2> TAKE i \in Nat
  <2>1. <<Index(i)>> \in IndexWord
    BY Zenon DEF IndexWord
  <2>2. <<Index(i)>> \in Word
    BY <2>1 DEF Word
  <2> HIDE DEF Word
  <2> QED
    BY <2>2, OneWord
<1>4. \A i \in DOMAIN s : i \in Nat
  BY <1>1
<1>5. /\ \A k, l \in DOMAIN t : t[k] = t[l] => k = l
      /\ \A i, j \in DOMAIN s : s[i] = s[j] => i = j
      /\ DOMAIN t = {} \/ DOMAIN s = {}
  <2>1. /\ claims.kind[n] = "obj" => Spots(n) = DOMAIN claims.props[n]
        /\ claims.kind[n] # "obj" => Spots(n) = DOMAIN claims.items[n]
        /\ \A x : ValueAt(n, x) = IF claims.kind[n] = "obj" THEN claims.props[n][x] ELSE claims.items[n][x]
    BY DEF Spots, ValueAt
  <2>2. /\ \A x \in Spots(n) : ValueAt(n, x) # CnfValue
        /\ \A x, y \in Spots(n) : ValueAt(n, x) = ValueAt(n, y) => x = y
    BY SpotFacts
  <2>3. CASE claims.kind[n] = "obj"
    <3>1. DOMAIN s = {}
      BY <2>3, TreeFacts
    <3>2. \A k, l \in DOMAIN t : t[k] = t[l] => k = l
      BY <2>1, <2>2, <2>3, TreeFacts
    <3> QED
      BY <3>1, <3>2
  <2>4. CASE claims.kind[n] # "obj"
    <3>1. DOMAIN t = {} /\ s = claims.items[n]
      BY <2>4, TreeFacts
    <3> QED
      BY <2>1, <2>2, <2>4, <3>1
  <2> QED
    BY <2>3, <2>4
<1>6. Hops(n) = {[way |-> Words[k], node |-> t[k]] : k \in DOMAIN t}
                  \cup {[way |-> <<<<Index(i)>>>>, node |-> s[i]] : i \in DOMAIN s}
  BY DEF Hops, KeyHop, ItemHop
<1> HIDE DEF t, s
<1>7. \A h \in Hops(n) : /\ h = [way |-> h.way, node |-> h.node]
                         /\ h.way \in Seq(Word) /\ h.way # <<>>
                         /\ h.node \in Promise!Children(Tree, n)
  <2> TAKE h \in Hops(n)
  <2>1. CASE \E k \in DOMAIN t : h = [way |-> Words[k], node |-> t[k]]
    <3>1. PICK k \in DOMAIN t : h = [way |-> Words[k], node |-> t[k]]
      BY <2>1
    <3>2. h.way = Words[k] /\ h.node = t[k] /\ k \in Name
      BY <1>1, <3>1
    <3> QED
      BY <1>1, <1>2, <3>1, <3>2
  <2>2. CASE \E i \in DOMAIN s : h = [way |-> <<<<Index(i)>>>>, node |-> s[i]]
    <3>1. PICK i \in DOMAIN s : h = [way |-> <<<<Index(i)>>>>, node |-> s[i]]
      BY <2>2
    <3>2. h.way = <<<<Index(i)>>>> /\ h.node = s[i] /\ i \in Nat
      BY <1>4, <3>1
    <3> QED
      BY <1>1, <1>3, <3>1, <3>2
  <2> QED
    BY <1>6, <2>1, <2>2
<1>8. \A m \in Promise!Children(Tree, n) : \E h \in Hops(n) : h.node = m
  <2> TAKE m \in Promise!Children(Tree, n)
  <2>1. CASE \E k \in DOMAIN t : m = t[k]
    <3>1. PICK k \in DOMAIN t : m = t[k]
      BY <2>1
    <3>2. [way |-> Words[k], node |-> t[k]] \in Hops(n)
      BY <1>6
    <3> QED
      BY <3>1, <3>2
  <2>2. CASE \E i \in DOMAIN s : m = s[i]
    <3>1. PICK i \in DOMAIN s : m = s[i]
      BY <2>2
    <3>2. [way |-> <<<<Index(i)>>>>, node |-> s[i]] \in Hops(n)
      BY <1>6
    <3> QED
      BY <3>1, <3>2
  <2> QED
    BY <1>1, <2>1, <2>2
<1>9. \A g, h \in Hops(n) : g.node = h.node => g = h
  BY <1>5, <1>6
<1> QED
  BY <1>7, <1>8, <1>9

(* An array has no more items than there are nodes. *)
LEMMA ItemIndexes ==
  ASSUME InputOK, NEW n \in Value
  PROVE  \A i \in DOMAIN claims.items[n] : i \in 1..Cardinality(Node)
<1> DEFINE s == claims.items[n]
<1>4. s \in Seq(Value)
  BY TreeFacts, InputFacts
<1>5. \A i \in DOMAIN s : i \in 1..Cardinality(Node)
  <2>1. DOMAIN s = 1..Len(s) /\ Len(s) \in Nat
    BY <1>4
  <2>2. \A i, j \in 1..Len(s) : s[i] = s[j] => i = j
    <3>1. CASE claims.kind[n] = "arr"
      <4>1. Spots(n) = DOMAIN s /\ \A x : ValueAt(n, x) = s[x]
        BY <1>4, <3>1 DEF Spots, ValueAt
      <4> QED
        BY <2>1, <4>1, SpotFacts
    <3>2. CASE claims.kind[n] # "arr"
      BY <2>1, <3>2, TreeFacts
    <3> QED
      BY <3>1, <3>2
  <2>3. s \in Injection(1..Len(s), Value)
    <3>1. s \in [1..Len(s) -> Value]
      BY <1>4
    <3> QED
      BY <2>2, <3>1 DEF Injection, IsInjective
  <2>4. Len(s) <= Cardinality(Value)
    <3>1. IsFiniteSet(1..Len(s)) /\ Cardinality(1..Len(s)) = Len(s)
      <4>1. ASSUME NEW N \in Nat PROVE IsFiniteSet(1..N) /\ Cardinality(1..N) = N
        BY FS_Interval
      <4> QED
        BY <2>1, <4>1
    <3> QED
      BY <2>3, <3>1, HoleFacts, FS_Injection
  <2>5. Cardinality(Value) <= Cardinality(Node) /\ Cardinality(Value) \in Nat /\ Cardinality(Node) \in Nat
    BY HoleFacts, NodesFinite, FS_Subset, FS_CardinalityType
  <2> QED
    BY <2>1, <2>4, <2>5
<1> QED
  BY <1>5

(* Where names are apart, no hop leads on where another has led. *)
LEMMA HopsApart ==
  ASSUME InputOK, PathsApart, NEW n \in Value, NEW g \in Hops(n), NEW h \in Hops(n),
         IsPrefix(g.way, h.way)
  PROVE  g = h
<1> DEFINE t == Tree[n].claims
           s == Tree[n].items
<1>1. Hops(n) = {[way |-> Words[k], node |-> t[k]] : k \in DOMAIN t}
                  \cup {[way |-> <<<<Index(i)>>>>, node |-> s[i]] : i \in DOMAIN s}
  BY DEF Hops, KeyHop, ItemHop
<1>2. DOMAIN t = {} \/ DOMAIN s = {}
  BY TreeFacts
<1>3. \A k, l \in DOMAIN t : IsPrefix(Words[k], Words[l]) => k = l
  BY DEF PathsApart
<1>4. s = claims.items[n] /\ s \in Seq(Value)
  BY TreeFacts, InputFacts
<1>5. \A i \in DOMAIN s : i \in 1..Cardinality(Node)
  BY <1>4, ItemIndexes
<1>6. \A i, j \in DOMAIN s : IsPrefix(<<<<Index(i)>>>>, <<<<Index(j)>>>>) => i = j
  <2> SUFFICES ASSUME NEW i \in DOMAIN s, NEW j \in DOMAIN s,
                      IsPrefix(<<<<Index(i)>>>>, <<<<Index(j)>>>>)
               PROVE  i = j
    OBVIOUS
  <2> DEFINE T == {<<Index(i)>>, <<Index(j)>>}
  <2>1. <<Index(i)>> \in T /\ <<Index(j)>> \in T
    OBVIOUS
  <2> HIDE DEF T
  <2>2. <<Index(i)>> = <<Index(j)>>
    BY <2>1, OneWord
  <2>4. Index(i) = Index(j)
    BY <2>2
  <2> QED
    BY <1>5, <2>4, IndexesApart
<1> HIDE DEF t, s
<1> QED
  BY <1>1, <1>2, <1>3, <1>6

-----------------------------------------------------------------------------
(* The values of the tree with their paths. *)

Place == [path : Seq(Word), node : Value]
PlaceRoot == [path |-> <<>>, node |-> Root]

Under(p) ==
  {[path |-> p.path \o Words[k], node |-> Tree[p.node].claims[k]] : k \in DOMAIN Tree[p.node].claims}
  \cup {[path |-> HolderPath(p.path, i), node |-> Tree[p.node].items[i]] :
          i \in DOMAIN Tree[p.node].items}

(* The places one hop on from p, and those of S with them. *)
Onto(p, h) == [path |-> p.path \o h.way, node |-> h.node]
Steps(p) == {Onto(p, h) : h \in Hops(p.node)}
Onward(S) == UNION {{p} \cup Steps(p) : p \in S}

LEMMA StepFacts ==
  ASSUME InputOK, NEW p \in Place
  PROVE  /\ Steps(p) \subseteq Place /\ Under(p) = Steps(p)
         /\ {q.node : q \in Steps(p)} = Promise!Children(Tree, p.node)
<1>1. p.path \in Seq(Word) /\ p.node \in Value
  BY DEF Place
<1>2. \A h \in Hops(p.node) : /\ p.path \o h.way \in Seq(Word) /\ h.node \in Value
                              /\ h.node \in Promise!Children(Tree, p.node)
  <2> TAKE h \in Hops(p.node)
  <2>1. h.way \in Seq(Word) /\ h.node \in Promise!Children(Tree, p.node)
    BY <1>1, HopFacts
  <2>2. h.node \in Value
    BY <1>1, <2>1, ChildFacts
  <2> QED
    BY <1>1, <2>1, <2>2
<1>3. \A h \in Hops(p.node) : /\ Onto(p, h) \in Place /\ Onto(p, h).node = h.node
                              /\ h.node \in Promise!Children(Tree, p.node)
  BY <1>2 DEF Onto, Place
<1>4. Under(p) = Steps(p)
  <2> DEFINE n == p.node
  <2>1. \A k : Onto(p, KeyHop(n, k)) = [path |-> p.path \o Words[k], node |-> Tree[n].claims[k]]
    BY DEF Onto, KeyHop
  <2>2. \A i : Onto(p, ItemHop(n, i)) = [path |-> HolderPath(p.path, i), node |-> Tree[n].items[i]]
    <3> TAKE i
    <3> DEFINE x == <<Index(i)>>
    <3>1. HolderPath(p.path, i) = Append(p.path, x)
      BY DEF HolderPath
    <3>2. Onto(p, ItemHop(n, i)) = [path |-> p.path \o <<x>>, node |-> Tree[n].items[i]]
      BY DEF Onto, ItemHop
    <3> HIDE DEF x
    <3>3. Append(p.path, x) = p.path \o <<x>>
      BY <1>1
    <3> QED
      BY <3>1, <3>2, <3>3
  <2>3. Under(p) = {Onto(p, KeyHop(n, k)) : k \in DOMAIN Tree[n].claims}
                     \cup {Onto(p, ItemHop(n, i)) : i \in DOMAIN Tree[n].items}
    BY <2>1, <2>2, Zenon DEF Under
  <2>4. Steps(p) = {Onto(p, h) : h \in Hops(n)}
    BY DEF Steps
  <2>5. Hops(n) = {KeyHop(n, k) : k \in DOMAIN Tree[n].claims}
                    \cup {ItemHop(n, i) : i \in DOMAIN Tree[n].items}
    BY DEF Hops
  <2> HIDE DEF n
  <2> QED
    BY <2>3, <2>4, <2>5
<1>5. Steps(p) \subseteq Place /\ \A q \in Steps(p) : q.node \in Promise!Children(Tree, p.node)
  BY <1>3 DEF Steps
<1>6. \A m \in Promise!Children(Tree, p.node) : \E q \in Steps(p) : q.node = m
  <2> TAKE m \in Promise!Children(Tree, p.node)
  <2>1. PICK h \in Hops(p.node) : h.node = m
    BY <1>1, HopFacts
  <2>2. Onto(p, h) \in Steps(p)
    BY DEF Steps
  <2> QED
    BY <1>3, <2>1, <2>2
<1> QED
  BY <1>4, <1>5, <1>6

LEMMA OnwardTyped ==
  ASSUME InputOK, NEW S \in SUBSET Place
  PROVE  /\ Onward(S) \in SUBSET Place /\ S \subseteq Onward(S)
         /\ Onward(S) = UNION {{p} \cup Under(p) : p \in S}
         /\ {p.node : p \in Onward(S)} = Reach({}, {p.node : p \in S})
<1>1. \A p \in S : /\ p \in Place /\ Steps(p) \subseteq Place /\ Under(p) = Steps(p)
                   /\ {q.node : q \in Steps(p)} = Promise!Children(Tree, p.node)
  BY StepFacts
<1>2. Onward(S) \in SUBSET Place /\ S \subseteq Onward(S)
  BY <1>1 DEF Onward
<1>3. Onward(S) = UNION {{p} \cup Under(p) : p \in S}
  BY <1>1 DEF Onward
<1>4. \A q \in Onward(S) : \E p \in S : q = p \/ q \in Steps(p)
  BY DEF Onward
<1>5. \A p \in S : p \in Onward(S) /\ Steps(p) \subseteq Onward(S)
  BY DEF Onward
<1> DEFINE M == {p.node : p \in S}
<1>6. Reach({}, M) = UNION {{m} \cup Promise!Children(Tree, m) : m \in M}
  BY DEF Reach
<1>7. \A q \in Onward(S) : q.node \in Reach({}, M)
  <2> TAKE q \in Onward(S)
  <2>1. PICK p \in S : q = p \/ q \in Steps(p)
    BY <1>4
  <2>2. p.node \in M
    OBVIOUS
  <2> HIDE DEF M
  <2>3. q.node = p.node \/ q.node \in Promise!Children(Tree, p.node)
    BY <1>1, <2>1
  <2> QED
    BY <1>6, <2>2, <2>3
<1>8. \A m \in Reach({}, M) : \E q \in Onward(S) : q.node = m
  <2> TAKE m \in Reach({}, M)
  <2>1. PICK n \in M : m = n \/ m \in Promise!Children(Tree, n)
    BY <1>6
  <2>2. PICK p \in S : p.node = n
    BY <2>1
  <2> HIDE DEF M
  <2> QED
    BY <1>1, <1>5, <2>1, <2>2
<1> QED
  BY <1>2, <1>3, <1>7, <1>8

(* A set of places that is reached hop by hop, with one place for a value. *)
Sound(S) ==
  /\ S \subseteq Place /\ PlaceRoot \in S
  /\ \A p \in S : p = PlaceRoot \/ \E q \in S : p \in Steps(q)
  /\ \A p, q \in S : p.node = q.node => p = q

LEMMA SoundOnward ==
  ASSUME InputOK, NEW S, Sound(S)
  PROVE  Sound(Onward(S))
<1>1. /\ S \in SUBSET Place /\ PlaceRoot \in S
      /\ \A p \in S : p = PlaceRoot \/ \E q \in S : p \in Steps(q)
      /\ \A p, q \in S : p.node = q.node => p = q
  BY DEF Sound
<1>2. Onward(S) \subseteq Place /\ S \subseteq Onward(S)
  BY <1>1, OnwardTyped
<1>3. \A p \in Onward(S) : p = PlaceRoot \/ \E q \in S : p \in Steps(q)
  BY <1>1 DEF Onward
<1>4. ASSUME NEW p \in Onward(S), NEW q \in Onward(S), p.node = q.node PROVE p = q
  <2>1. ASSUME NEW x \in S, NEW y \in Steps(x)
        PROVE  x.node \in Value /\ y.node \in Promise!Children(Tree, x.node) /\ y.node # Root
    <3>1. x \in Place /\ x.node \in Value
      BY <1>1 DEF Place
    <3>2. y.node \in Promise!Children(Tree, x.node)
      BY <3>1, StepFacts
    <3> QED
      BY <3>1, <3>2, ChildFacts
  <2>2. PlaceRoot.node = Root
    BY DEF PlaceRoot
  <2>3. CASE p = PlaceRoot \/ q = PlaceRoot
    BY <1>3, <1>4, <2>1, <2>2, <2>3
  <2>4. ASSUME NEW x \in S, NEW y \in S, p \in Steps(x), q \in Steps(y)
        PROVE  p = q
    <3>1. x.node = y.node
      BY <1>4, <2>1, <2>4, OneParent
    <3>2. x = y /\ x.node \in Value
      BY <1>1, <2>1, <2>4, <3>1
    <3>3. PICK g \in Hops(x.node), h \in Hops(x.node) :
            p = Onto(x, g) /\ q = Onto(x, h)
      BY <2>4, <3>2 DEF Steps
    <3>4. g.node = h.node
      BY <1>4, <3>3 DEF Onto
    <3>5. g = h
      BY <3>2, <3>4, HopFacts
    <3> QED
      BY <3>3, <3>5
  <2> QED
    BY <1>3, <2>3, <2>4
<1> QED
  BY <1>1, <1>2, <1>3, <1>4 DEF Sound

(* Places is the last of the layers that onward steps build up. *)
PlaceLayers(w) ==
  /\ \A k \in 0..Cardinality(Value) : w[k] \in SUBSET Place
  /\ w[0] = {PlaceRoot}
  /\ \A k \in 1..Cardinality(Value) : w[k] = Onward(w[k - 1])
  /\ Places = w[Cardinality(Value)]

LEMMA RootIsPlace == PlaceRoot \in Place /\ PlaceRoot.node = Root /\ PlaceRoot.path = <<>>
<1>1. Root \in Value /\ <<>> \in Seq(Word)
  BY ValuesAreDigests
<1> QED
  BY <1>1 DEF PlaceRoot, Place

LEMMA PlacesLayers ==
  ASSUME InputOK
  PROVE  \E w : PlaceLayers(w)
<1> DEFINE N == Cardinality(Value)
           G == [S \in SUBSET Place |-> Onward(S)]
           step == [k \in Nat |-> G]
           Eqn(w) == w = [k \in 0..N |->
                            IF k = 0
                              THEN {PlaceRoot}
                              ELSE UNION {{p} \cup Under(p) : p \in w[k - 1]}]
<1>1. N \in Nat
  BY HoleFacts, FS_CardinalityType
<1>2. step \in [Nat -> [SUBSET Place -> SUBSET Place]]
  BY OnwardTyped
<1>3. {PlaceRoot} \in SUBSET Place
  BY RootIsPlace
<1> HIDE DEF step, N
<1>4. PICK f \in [0..N -> SUBSET Place] :
        f[0] = {PlaceRoot} /\ \A k \in 1..N : f[k] = step[k][f[k - 1]]
  <2>1. \E f : PP!IsRecursion(f, SUBSET Place, {PlaceRoot}, step, N)
    BY <1>1, <1>2, <1>3, PP!RecursionExists, Assumed
  <2> QED
    BY <2>1 DEF PP!IsRecursion
<1>5. \A k \in 1..N : f[k - 1] \in SUBSET Place /\ f[k] = Onward(f[k - 1])
  <2> TAKE k \in 1..N
  <2>1. k - 1 \in 0..N /\ k \in Nat
    BY <1>1
  <2>2. f[k - 1] \in SUBSET Place
    BY <2>1
  <2>3. step[k][f[k - 1]] = Onward(f[k - 1])
    BY <2>1, <2>2 DEF step
  <2> QED
    BY <1>4, <2>2, <2>3
<1>6. Eqn(f)
  <2>1. \A k \in 0..N : k # 0 => k \in 1..N
    BY <1>1
  <2>2. \A k \in 1..N : f[k] = UNION {{p} \cup Under(p) : p \in f[k - 1]}
    BY <1>5, OnwardTyped
  <2>3. \A k \in 0..N :
          f[k] = IF k = 0 THEN {PlaceRoot} ELSE UNION {{p} \cup Under(p) : p \in f[k - 1]}
    BY <1>4, <2>1, <2>2
  <2> QED
    BY <2>3
<1>7. PICK w : Eqn(w) /\ Places = w[N]
  BY <1>6, Zenon DEF Places, N, Under, PlaceRoot
<1>8. \A k \in 0..N : w[k] = IF k = 0 THEN {PlaceRoot} ELSE UNION {{p} \cup Under(p) : p \in w[k - 1]}
  BY <1>7, Zenon
<1>9. w[0] = {PlaceRoot} /\ \A k \in 1..N : w[k] = UNION {{p} \cup Under(p) : p \in w[k - 1]}
  <2>1. 0 \in 0..N /\ \A k \in 1..N : k \in 0..N /\ k # 0
    BY <1>1
  <2> QED
    BY <1>8, <2>1
<1> DEFINE M == {k \in Nat : k \in 0..N => w[k] \in SUBSET Place}
<1>10. 0 \in M
  BY <1>3, <1>9
<1>11. ASSUME NEW k \in Nat, k \in M PROVE k + 1 \in M
  <2> SUFFICES ASSUME k + 1 \in 0..N PROVE w[k + 1] \in SUBSET Place
    OBVIOUS
  <2>1. k \in 0..N /\ k + 1 \in 1..N /\ (k + 1) - 1 = k
    BY <1>1
  <2>2. w[k] \in SUBSET Place /\ w[k + 1] = UNION {{p} \cup Under(p) : p \in w[k]}
    BY <1>9, <1>11, <2>1
  <2>3. w[k + 1] = Onward(w[k])
    BY <2>2, OnwardTyped
  <2> QED
    BY <2>2, <2>3, OnwardTyped
<1> HIDE DEF M
<1>12. Nat \subseteq M
  BY <1>10, <1>11, Induction
<1>13. \A k \in 0..N : w[k] \in SUBSET Place
  BY <1>1, <1>12 DEF M
<1>14. \A k \in 1..N : w[k] = Onward(w[k - 1])
  <2> TAKE k \in 1..N
  <2>1. k - 1 \in 0..N
    BY <1>1
  <2>2. w[k - 1] \in SUBSET Place
    BY <1>13, <2>1
  <2> QED
    BY <1>9, <2>2, OnwardTyped
<1>15. PlaceLayers(w)
  BY <1>7, <1>9, <1>13, <1>14 DEF PlaceLayers, N
<1> QED
  BY <1>15

(* The places are the least set with the root in it that is closed under   *)
(* steps; each value of the tree has one place.                            *)
LEMMA PlacesFacts ==
  ASSUME InputOK
  PROVE  /\ Sound(Places)
         /\ \A p \in Places : Steps(p) \subseteq Places
         /\ \A T : PlaceRoot \in T /\ (\A p \in T \cap Places : Steps(p) \subseteq T) => Places \subseteq T
         /\ {p.node : p \in Places} = Promise!Below(Tree, Root, {})
<1> DEFINE N == Cardinality(Value)
           G == [S \in SUBSET Value |-> Reach({}, S)]
<1>1. N \in Nat /\ PP!Cardinality(Value) = N /\ PP!IsFiniteSet(Value) /\ Root \in Value
  BY HoleFacts, FS_CardinalityType, SameCardinality, SameFinite, ValuesAreDigests
<1>2. PICK w : PlaceLayers(w)
  BY PlacesLayers
<1> HIDE DEF N
<1>3. /\ \A k \in 0..N : w[k] \in SUBSET Place
      /\ w[0] = {PlaceRoot} /\ Places = w[N]
      /\ \A k \in 1..N : w[k] = Onward(w[k - 1])
  BY <1>2 DEF PlaceLayers, N
<1> DEFINE M == {k \in Nat : k \in 0..N => Sound(w[k])}
<1>4. 0 \in M
  <2>1. Sound({PlaceRoot})
    BY RootIsPlace DEF Sound
  <2> QED
    BY <1>3, <2>1
<1>5. ASSUME NEW k \in Nat, k \in M PROVE k + 1 \in M
  <2> SUFFICES ASSUME k + 1 \in 0..N PROVE Sound(w[k + 1])
    OBVIOUS
  <2>1. k \in 0..N /\ k + 1 \in 1..N /\ (k + 1) - 1 = k
    BY <1>1
  <2>2. Sound(w[k]) /\ w[k + 1] = Onward(w[k])
    BY <1>3, <1>5, <2>1
  <2> QED
    BY <2>2, SoundOnward
<1> HIDE DEF M
<1>6. Nat \subseteq M
  BY <1>4, <1>5, Induction
<1>7. Sound(w[N])
  <2>1. N \in M /\ N \in 0..N
    BY <1>1, <1>6
  <2> QED
    BY <2>1 DEF M
<1>8. Sound(Onward(w[N]))
  BY <1>7, SoundOnward
(* The values of the layers are those below the root. *)
<1> DEFINE v == [k \in 0..N |-> {p.node : p \in w[k]}]
<1>9. v \in [0..N -> SUBSET Value]
  <2>1. \A p \in Place : p.node \in Value
    BY DEF Place
  <2> QED
    BY <1>3, <2>1
<1>10. v[0] = {Root}
  <2>1. 0 \in 0..N
    BY <1>1
  <2> QED
    BY <1>3, <2>1, RootIsPlace
<1>11. \A k \in 1..N : v[k] = G[v[k - 1]]
  <2> TAKE k \in 1..N
  <2>1. k \in 0..N /\ k - 1 \in 0..N
    BY <1>1
  <2>2. w[k - 1] \in SUBSET Place /\ w[k] = Onward(w[k - 1])
    BY <1>3, <2>1
  <2>3. {p.node : p \in w[k]} = Reach({}, {p.node : p \in w[k - 1]})
    BY <2>2, OnwardTyped
  <2>4. v[k] = {p.node : p \in w[k]} /\ v[k - 1] = {p.node : p \in w[k - 1]} /\ v[k - 1] \in SUBSET Value
    BY <1>9, <2>1
  <2> QED
    BY <2>3, <2>4
<1>12. PP!GrowsIn(G, Value)
  <2>1. \A S, T \in SUBSET Value : S \subseteq T => Reach({}, S) \subseteq Reach({}, T)
    BY DEF Reach
  <2>2. G \in [SUBSET Value -> SUBSET Value]
    BY ReachTyped
  <2> QED
    BY <2>1, <2>2, ReachTyped DEF PP!GrowsIn
<1>13. v[N] = {p.node : p \in w[N]}
  BY <1>1
<1> HIDE DEF G, v
<1>14. PP!LeastClosed(v[N], G, Value, Root)
  <2>1. PP!AreLayers(v, G, Value, Root)
    BY <1>1, <1>9, <1>10, <1>11 DEF PP!AreLayers
  <2>2. PP!LeastClosed(v[PP!Cardinality(Value)], G, Value, Root)
    BY <1>1, <1>12, <2>1, PP!LayersClosed, Assumed
  <2> QED
    BY <1>1, <2>2
<1>15. v[N] \in SUBSET Value /\ \A n \in v[N] : Promise!Children(Tree, n) \subseteq v[N]
  <2>1. v[N] \in SUBSET Value /\ G[v[N]] \subseteq v[N]
    BY <1>14 DEF PP!LeastClosed
  <2>2. Reach({}, v[N]) \subseteq v[N]
    BY <2>1 DEF G
  <2> QED
    BY <2>1, <2>2 DEF Reach
<1>16. \A p \in w[N] : Steps(p) \subseteq w[N]
  <2> SUFFICES ASSUME NEW p \in w[N], NEW q \in Steps(p) PROVE q \in w[N]
    OBVIOUS
  <2>1. w[N] \in SUBSET Place /\ p \in Place
    BY <1>7 DEF Sound
  <2>2. p.node \in v[N] /\ q.node \in Promise!Children(Tree, p.node)
    BY <1>13, <2>1, StepFacts
  <2>3. PICK x \in w[N] : x.node = q.node
    BY <1>13, <1>15, <2>2
  <2>4. x \in Onward(w[N]) /\ q \in Onward(w[N])
    BY DEF Onward
  <2>5. x = q
    BY <1>8, <2>3, <2>4 DEF Sound
  <2> QED
    BY <2>5
<1>17. ASSUME NEW T, PlaceRoot \in T, \A p \in T \cap w[N] : Steps(p) \subseteq T
       PROVE  w[N] \subseteq T
  <2> DEFINE L == {k \in Nat : k \in 0..N => w[k] \subseteq T \cap w[N]}
  <2>1. 0 \in L
    <3>1. PlaceRoot \in w[N]
      BY <1>7 DEF Sound
    <3> QED
      BY <1>3, <1>17, <3>1
  <2>2. ASSUME NEW k \in Nat, k \in L PROVE k + 1 \in L
    <3> SUFFICES ASSUME k + 1 \in 0..N PROVE w[k + 1] \subseteq T \cap w[N]
      OBVIOUS
    <3>1. k \in 0..N /\ k + 1 \in 1..N /\ (k + 1) - 1 = k
      BY <1>1
    <3>2. w[k] \subseteq T \cap w[N] /\ w[k + 1] = Onward(w[k])
      BY <1>3, <2>2, <3>1
    <3>3. \A p \in w[k] : Steps(p) \subseteq T \cap w[N]
      BY <1>16, <1>17, <3>2
    <3> QED
      BY <3>2, <3>3 DEF Onward
  <2> HIDE DEF L
  <2>3. Nat \subseteq L
    BY <2>1, <2>2, Induction
  <2>4. N \in L /\ N \in 0..N
    BY <1>1, <2>3
  <2> QED
    BY <2>4 DEF L
<1>18. v[N] = Promise!Below(Tree, Root, {})
  <2> DEFINE B == Promise!Below(Tree, Root, {})
  <2>1. /\ B \subseteq Value /\ Root \in B /\ \A n \in B : Promise!Children(Tree, n) \ {} \subseteq B
        /\ \A T \in SUBSET Value :
             Root \in T /\ (\A n \in T : Promise!Children(Tree, n) \ {} \subseteq T) => B \subseteq T
    BY <1>1, BelowFacts
  <2>2. Root \in v[N]
    BY <1>14 DEF PP!LeastClosed
  <2>3. B \subseteq v[N]
    BY <1>15, <2>1, <2>2
  <2> HIDE DEF B
  <2>4. G[B] \subseteq B
    BY <2>1 DEF G, Reach
  <2>5. v[N] \subseteq B
    BY <1>14, <2>1, <2>4 DEF PP!LeastClosed
  <2> QED
    BY <2>3, <2>5 DEF B
<1> QED
  BY <1>3, <1>7, <1>13, <1>16, <1>17, <1>18

-----------------------------------------------------------------------------
(* What is inside a value, and what its path says of it. *)

(* Inside a value are the value and all that is inside its children. *)
LEMMA InsideSplit ==
  ASSUME InputOK, NEW n \in Value
  PROVE  /\ \A m \in Inside(n) : Inside(m) \subseteq Inside(n)
         /\ \A m \in Inside(n) : m = n \/ \E c \in Promise!Children(Tree, n) : m \in Inside(c)
<1>1. Inside(n) \subseteq Value /\ \A m \in Inside(n) : Promise!Children(Tree, m) \subseteq Inside(n)
  BY InsideFacts
<1>2. \A m \in Inside(n) : Inside(m) \subseteq Inside(n)
  BY <1>1, InsideFacts
<1> DEFINE T == {n} \cup UNION {Inside(c) : c \in Promise!Children(Tree, n)}
<1>3. \A c \in Promise!Children(Tree, n) : c \in Value
  BY ChildFacts
<1>4. T \in SUBSET Value
  BY <1>3, InsideFacts
<1>5. ASSUME NEW m \in T PROVE Promise!Children(Tree, m) \subseteq T
  <2>1. CASE m = n
    BY <1>3, <2>1, InsideFacts
  <2>2. CASE \E c \in Promise!Children(Tree, n) : m \in Inside(c)
    <3>1. PICK c \in Promise!Children(Tree, n) : m \in Inside(c)
      BY <2>2
    <3>2. Promise!Children(Tree, m) \subseteq Inside(c)
      BY <1>3, <3>1, InsideFacts
    <3> QED
      BY <3>2
  <2> QED
    BY <2>1, <2>2
<1>6. n \in T
  OBVIOUS
<1> HIDE DEF T
<1>7. Inside(n) \subseteq T
  BY <1>4, <1>5, <1>6, InsideFacts
<1> QED
  BY <1>2, <1>7 DEF T

LEMMA PlaceFacts ==
  ASSUME InputOK
  PROVE  /\ \A p \in Places : p.path \in Seq(Word) /\ p.node \in Value /\ p \in Place
         /\ PlaceRoot \in Places
         /\ \A p, q \in Places : p.node = q.node => p = q
         /\ \A p \in Places : \A h \in Hops(p.node) : Onto(p, h) \in Places
         /\ \A m \in Inside(Root) : \E p \in Places : p.node = m
         /\ \A p \in Places : p.node \in Inside(Root)
<1>1. Sound(Places) /\ \A p \in Places : Steps(p) \subseteq Places
  BY PlacesFacts
<1>2. {p.node : p \in Places} = Inside(Root)
  BY PlacesFacts DEF Inside
<1> QED
  BY <1>1, <1>2 DEF Sound, Steps, Place

LEMMA OntoFacts ==
  ASSUME InputOK, NEW p \in Places, NEW h \in Hops(p.node)
  PROVE  /\ Onto(p, h) \in Places /\ Onto(p, h).node = h.node
         /\ Onto(p, h).path = p.path \o h.way
         /\ h.way \in Seq(Word) /\ h.node \in Promise!Children(Tree, p.node) /\ h.node \in Value
         /\ IsPrefix(p.path, Onto(p, h).path) /\ Len(p.path) < Len(Onto(p, h).path)
<1>1. p.path \in Seq(Word) /\ p.node \in Value /\ Onto(p, h) \in Places
  BY PlaceFacts
<1>2. h.way \in Seq(Word) /\ h.way # <<>> /\ h.node \in Promise!Children(Tree, p.node)
  BY <1>1, HopFacts
<1>3. Onto(p, h).node = h.node /\ Onto(p, h).path = p.path \o h.way
  BY DEF Onto
<1>4. Len(p.path) < Len(p.path \o h.way)
  <2>1. ASSUME NEW s \in Seq(Word), NEW t \in Seq(Word), t # <<>>
        PROVE  Len(s) < Len(s \o t)
    <3>1. Len(s) \in Nat /\ Len(t) \in Nat /\ Len(t) # 0 /\ Len(s \o t) = Len(s) + Len(t)
      BY <2>1
    <3> QED
      BY <3>1
  <2> QED
    BY <1>1, <1>2, <2>1
<1>5. IsPrefix(p.path, p.path \o h.way)
  BY <1>1, <1>2, PrefixFacts
<1>6. h.node \in Value
  BY <1>1, <1>2, ChildFacts
<1> QED
  BY <1>1, <1>2, <1>3, <1>4, <1>5, <1>6

(* The path of what is inside continues the path of what it is in. *)
LEMMA InsidePaths ==
  ASSUME InputOK, NEW p \in Places, NEW q \in Places, q.node \in Inside(p.node)
  PROVE  IsPrefix(p.path, q.path) /\ (q = p \/ Len(p.path) < Len(q.path))
<1> DEFINE Good(x) == IsPrefix(p.path, x.path) /\ (x = p \/ Len(p.path) < Len(x.path))
           T == {m \in Value : \E x \in Places : x.node = m /\ Good(x)}
<1>1. p.path \in Seq(Word) /\ p.node \in Value
  BY PlaceFacts
<1>2. p.node \in T
  <2>1. IsPrefix(p.path, p.path)
    BY <1>1, PrefixFacts
  <2> QED
    BY <1>1, <2>1
<1>3. ASSUME NEW m \in T, NEW c \in Promise!Children(Tree, m)
      PROVE  c \in T
  <2>1. PICK x \in Places : x.node = m /\ Good(x)
    BY <1>3
  <2>2. x.path \in Seq(Word) /\ m \in Value
    BY <2>1, PlaceFacts
  <2>3. PICK h \in Hops(m) : h.node = c
    BY <2>2, HopFacts
  <2> DEFINE y == Onto(x, h)
  <2>4. /\ y \in Places /\ y.node = c /\ c \in Value
        /\ IsPrefix(x.path, y.path) /\ Len(x.path) < Len(y.path) /\ y.path \in Seq(Word)
    BY <2>1, <2>3, OntoFacts, PlaceFacts
  <2> HIDE DEF y
  <2>5. IsPrefix(p.path, y.path)
    BY <1>1, <2>1, <2>2, <2>4, PrefixFacts
  <2>6. Len(p.path) <= Len(x.path)
    BY <1>1, <2>1, <2>2, PrefixFacts
  <2>7. Len(p.path) < Len(y.path)
    BY <1>1, <2>2, <2>4, <2>6
  <2> QED
    BY <2>4, <2>5, <2>7
<1>4. T \in SUBSET Value
  OBVIOUS
<1> HIDE DEF Good, T
<1>5. Inside(p.node) \subseteq T
  BY <1>1, <1>2, <1>3, <1>4, InsideFacts
<1>6. PICK x \in Places : x.node = q.node /\ Good(x)
  BY <1>5 DEF T
<1>7. x = q
  BY <1>6, PlaceFacts
<1> QED
  BY <1>6, <1>7 DEF Good

(* Where paths are apart, of two places of which one path starts with the  *)
(* other, one is inside the other.                                         *)
LEMMA Comparable ==
  ASSUME InputOK, PathsApart, NEW p \in Places, NEW q \in Places,
         IsPrefix(p.path, q.path) \/ IsPrefix(q.path, p.path)
  PROVE  q.node \in Inside(p.node) \/ p.node \in Inside(q.node)
<1> DEFINE Along(x, y) == IsPrefix(x.path, y.path) \/ IsPrefix(y.path, x.path)
           Within(x, y) == y.node \in Inside(x.node)
           T == {x \in Places : \A y \in Places : Along(x, y) => Within(x, y) \/ Within(y, x)}
<1>0. \A s, t, u \in Seq(Word) :
        /\ IsPrefix(s, t) /\ IsPrefix(t, u) => IsPrefix(s, u)
        /\ IsPrefix(s, u) /\ IsPrefix(t, u) => IsPrefix(s, t) \/ IsPrefix(t, s)
        /\ IsPrefix(s \o t, s \o u) => IsPrefix(t, u)
  BY PrefixFacts
<1>1. PlaceRoot \in T
  BY RootIsPlace, PlaceFacts
<1>2. ASSUME NEW x \in T, NEW h \in Hops(x.node), NEW y \in Places, Along(Onto(x, h), y)
      PROVE  Within(Onto(x, h), y) \/ Within(y, Onto(x, h))
  <2> DEFINE z == Onto(x, h)
  <2>1. /\ x \in Places /\ x.path \in Seq(Word) /\ x.node \in Value
        /\ y.path \in Seq(Word) /\ y.node \in Value
    BY PlaceFacts
  <2>2. /\ z \in Places /\ z.node = h.node /\ z.path = x.path \o h.way /\ h.way \in Seq(Word)
        /\ h.node \in Promise!Children(Tree, x.node) /\ IsPrefix(x.path, z.path)
        /\ z.path \in Seq(Word) /\ h.node \in Value
    BY <2>1, OntoFacts, PlaceFacts
  <2> HIDE DEF z
  <2>3. Along(z, y)
    BY <1>2 DEF z
  <2>4. Along(x, y)
    <3>1. CASE IsPrefix(z.path, y.path)
      BY <1>0, <2>1, <2>2, <3>1
    <3>2. CASE IsPrefix(y.path, z.path)
      BY <1>0, <2>1, <2>2, <3>2
    <3> QED
      BY <2>3, <3>1, <3>2
  <2>5. Within(x, y) \/ Within(y, x)
    BY <2>4
  <2>6. CASE Within(y, x)
    BY <2>1, <2>2, <2>6, InsideFacts DEF z
  <2>7. CASE Within(x, y)
    <3>1. CASE y.node = x.node
      BY <2>1, <2>2, <3>1, InsideFacts DEF z
    <3>2. CASE y.node # x.node
      <4>1. PICK c \in Promise!Children(Tree, x.node) : y.node \in Inside(c)
        BY <2>1, <2>7, <3>2, InsideSplit
      <4>2. PICK g \in Hops(x.node) : g.node = c
        BY <2>1, HopFacts
      <4> DEFINE u == Onto(x, g)
      <4>3. /\ u \in Places /\ u.node = c /\ u.path = x.path \o g.way /\ g.way \in Seq(Word)
            /\ u.path \in Seq(Word)
        BY <2>1, <4>2, OntoFacts, PlaceFacts
      <4> HIDE DEF u
      <4>4. IsPrefix(u.path, y.path)
        BY <4>1, <4>3, InsidePaths
      <4>5. IsPrefix(u.path, z.path) \/ IsPrefix(z.path, u.path)
        <5>1. CASE IsPrefix(z.path, y.path)
          BY <1>0, <2>1, <2>2, <4>3, <4>4, <5>1
        <5>2. CASE IsPrefix(y.path, z.path)
          BY <1>0, <2>1, <2>2, <4>3, <4>4, <5>2
        <5> QED
          BY <2>3, <5>1, <5>2
      <4>6. IsPrefix(g.way, h.way) \/ IsPrefix(h.way, g.way)
        BY <1>0, <2>1, <2>2, <4>3, <4>5
      <4>7. g = h
        BY <2>1, <4>6, HopsApart
      <4> QED
        BY <4>1, <4>2, <4>7, <2>2 DEF z
    <3> QED
      BY <3>1, <3>2
  <2> QED
    BY <2>5, <2>6, <2>7
<1>3. \A x \in T \cap Places : Steps(x) \subseteq T
  <2> SUFFICES ASSUME NEW x \in T, NEW z \in Steps(x) PROVE z \in T
    OBVIOUS
  <2>1. PICK h \in Hops(x.node) : z = Onto(x, h)
    BY DEF Steps
  <2>2. z \in Places
    BY <2>1, PlaceFacts
  <2>3. \A y \in Places : Along(z, y) => Within(z, y) \/ Within(y, z)
    BY <1>2, <2>1
  <2> QED
    BY <2>2, <2>3
<1> HIDE DEF T
<1>4. Places \subseteq T
  BY <1>1, <1>3, PlacesFacts
<1> QED
  BY <1>4 DEF T

LEMMA PathsMean ==
  ASSUME InputOK, PathsApart, NEW p \in Places, NEW q \in Places
  PROVE  /\ IsPrefix(p.path, q.path) <=> q.node \in Inside(p.node)
         /\ p.path = q.path => p = q
<1>1. p.path \in Seq(Word) /\ q.path \in Seq(Word) /\ p.node \in Value
  BY PlaceFacts
<1>2. ASSUME IsPrefix(p.path, q.path) PROVE q.node \in Inside(p.node)
  <2>1. q.node \in Inside(p.node) \/ p.node \in Inside(q.node)
    BY <1>2, Comparable
  <2>2. CASE p.node \in Inside(q.node)
    <3>1. p = q \/ Len(q.path) < Len(p.path)
      BY <2>2, InsidePaths
    <3>2. Len(p.path) <= Len(q.path)
      BY <1>1, <1>2, PrefixFacts
    <3>3. p = q
      BY <1>1, <3>1, <3>2
    <3> QED
      BY <1>1, <3>3, InsideFacts
  <2> QED
    BY <2>1, <2>2
<1>3. ASSUME p.path = q.path PROVE p = q
  <2>1. IsPrefix(p.path, q.path)
    BY <1>1, <1>3, PrefixFacts
  <2>2. q = p \/ Len(p.path) < Len(q.path)
    BY <1>2, <2>1, InsidePaths
  <2> QED
    BY <1>1, <1>3, <2>2
<1> QED
  BY <1>2, <1>3, InsidePaths

-----------------------------------------------------------------------------
(* The holder's walk visits the places. *)

(* The entry of place p: a disclosable value is reached through its digest. *)
EntryAt(p) == Entry(p.path, p.node, IF p.node \in frame.sd THEN p.node ELSE NoVia)
Entries == {EntryAt(p) : p \in Places}

LEMMA EntryFacts ==
  ASSUME NEW p
  PROVE  /\ EntryAt(p).path = p.path /\ EntryAt(p).node = p.node
         /\ EntryAt(p).via = IF p.node \in frame.sd THEN p.node ELSE NoVia
BY DEF EntryAt, Entry

(* A list of sets whose members are the entries one step on from p. *)
Leads(p, s) ==
  /\ s \in Seq(SUBSET Entries)
  /\ \A i \in 1..Len(s) : \A e \in s[i] : \E h \in Hops(p.node) : e = EntryAt(Onto(p, h))
  /\ \A h \in Hops(p.node) : \E i \in 1..Len(s) : EntryAt(Onto(p, h)) \in s[i]

LEMMA LeadsByPlace ==
  ASSUME InputOK, NEW p \in Places, NEW N \in Nat, NEW s, s = [i \in 1..N |-> s[i]],
         \A i \in 1..N : \A e \in s[i] : \E h \in Hops(p.node) : e = EntryAt(Onto(p, h)),
         \A h \in Hops(p.node) : \E i \in 1..N : EntryAt(Onto(p, h)) \in s[i]
  PROVE  Leads(p, s)
<1>1. \A h \in Hops(p.node) : EntryAt(Onto(p, h)) \in Entries
  BY PlaceFacts DEF Entries
<1>2. \A i \in 1..N : s[i] \in SUBSET Entries
  BY <1>1
<1>3. s \in Seq(SUBSET Entries) /\ Len(s) = N
  BY <1>2
<1> QED
  BY <1>3 DEF Leads

(* The entry by way of claim k, and of element i. *)
LEMMA KeyEntryAt ==
  ASSUME NEW p, NEW k
  PROVE  EntryAt(Onto(p, KeyHop(p.node, k)))
           = Entry(p.path \o Words[k], Tree[p.node].claims[k],
                   IF Tree[p.node].claims[k] \in frame.sd THEN Tree[p.node].claims[k] ELSE NoVia)
BY DEF EntryAt, Onto, KeyHop

LEMMA ItemEntryAt ==
  ASSUME InputOK, NEW p \in Places, NEW i
  PROVE  EntryAt(Onto(p, ItemHop(p.node, i)))
           = Entry(HolderPath(p.path, i), claims.items[p.node][i],
                   IF claims.items[p.node][i] \in frame.sd THEN claims.items[p.node][i] ELSE NoVia)
<1> DEFINE x == <<Index(i)>>
<1>1. p.path \in Seq(Word) /\ p.node \in Value
  BY PlaceFacts
<1>2. HolderPath(p.path, i) = Append(p.path, x)
  BY DEF HolderPath
<1>3. /\ Onto(p, ItemHop(p.node, i)).path = p.path \o <<x>>
      /\ Onto(p, ItemHop(p.node, i)).node = Tree[p.node].items[i]
  BY DEF Onto, ItemHop
<1> HIDE DEF x
<1>4. Append(p.path, x) = p.path \o <<x>>
  BY <1>1
<1>5. Tree[p.node].items = claims.items[p.node]
  BY <1>1, TreeFacts
<1> QED
  BY <1>2, <1>3, <1>4, <1>5 DEF EntryAt

LEMMA ObjectLeads ==
  ASSUME InputOK, NEW d \in Parts, Carries(d, frame.sd), NEW p \in Places,
         claims.kind[p.node] = "obj"
  PROVE  Leads(p, Below(d, EntryAt(p)))
<1> DEFINE n == p.node
           e == EntryAt(p)
           s == Below(d, e)
           sd == SDDigests(n)
           N == Len(sd)
           There(h) == EntryAt(Onto(p, h))
<1>1. n \in Value /\ n \in Node /\ p.path \in Seq(Word) /\ e.path = p.path /\ e.node = n
  BY PlaceFacts, HoleFacts, EntryFacts
<1>2. d.kind[n] = "obj" /\ d.sd[n] = sd /\ d.props[n] = PlainProps(n)
  BY <1>1, PackedParts
<1>3. /\ sd \in Seq(Digest)
      /\ {sd[i] : i \in DOMAIN sd} = (Members(n) \cap frame.sd) \cup frame.decoys[n]
  BY <1>1, SDFacts
<1>4. N \in Nat /\ DOMAIN sd = 1..N
  BY <1>3
<1>5. s = Append([i \in DOMAIN sd |-> DigestEntry(d, e, sd[i])], KeyEntries(d, e))
  BY <1>1, <1>2 DEF Below
<1> HIDE DEF sd, N, s, e, There
<1>6. /\ s = [i \in 1..N + 1 |-> s[i]]
      /\ \A i \in 1..N : s[i] = DigestEntry(d, e, sd[i])
      /\ s[N + 1] = KeyEntries(d, e)
  BY <1>4, <1>5
<1>7. /\ Spots(n) = DOMAIN claims.props[n] /\ \A x : ValueAt(n, x) = claims.props[n][x]
      /\ \A x \in Spots(n) : ValueAt(n, x) \in Value
      /\ Members(n) = {ValueAt(n, x) : x \in Spots(n)}
  BY <1>1, SpotFacts DEF Spots, ValueAt, Members
<1>8. /\ DOMAIN Tree[n].claims
           = DOMAIN claims.props[n] \cup (IF n = Root /\ input.holderKey THEN {"cnf"} ELSE {})
      /\ \A k \in DOMAIN claims.props[n] : Tree[n].claims[k] = claims.props[n][k]
      /\ DOMAIN Tree[n].items = {}
  BY <1>1, TreeFacts
<1>9. /\ \A k \in DOMAIN Tree[n].claims : KeyHop(n, k) \in Hops(n)
      /\ \A h \in Hops(n) : \E k \in DOMAIN Tree[n].claims : h = KeyHop(n, k)
  BY <1>8 DEF Hops
<1>10. \A k : There(KeyHop(n, k)) = Entry(p.path \o Words[k], Tree[n].claims[k],
                  IF Tree[n].claims[k] \in frame.sd THEN Tree[n].claims[k] ELSE NoVia)
  BY KeyEntryAt DEF There
(* A digest of a claim leads to it, a decoy nowhere. *)
<1>11. ASSUME NEW x \in Spots(n), ValueAt(n, x) \in frame.sd
       PROVE  /\ DigestEntry(d, e, ValueAt(n, x)) = {There(KeyHop(n, x))}
              /\ KeyHop(n, x) \in Hops(n)
  <2> DEFINE g == ValueAt(n, x)
             c == Disclose(g)
  <2>1. ~c.isArray /\ c.name = x /\ c.value = g
    BY <1>1, <1>11, DiscloseFacts
  <2>2. g \in Presented(d) /\ DisclosureOf(d, g) = c
    BY <1>11, PresentedFacts
  <2>3. Tree[n].claims[x] = g /\ g \in frame.sd
    BY <1>7, <1>8, <1>11
  <2> HIDE DEF g, c
  <2>4. DigestEntry(d, e, g) = {Entry(e.path \o Words[x], g, g)}
    BY <2>1, <2>2 DEF DigestEntry
  <2>5. There(KeyHop(n, x)) = Entry(p.path \o Words[x], g, g)
    BY <1>10, <2>3
  <2>6. KeyHop(n, x) \in Hops(n)
    BY <1>7, <1>8, <1>9
  <2> QED
    BY <1>1, <2>4, <2>5, <2>6 DEF g
<1>12. ASSUME NEW g, g \in frame.decoys[n] PROVE DigestEntry(d, e, g) = {}
  <2>1. g \notin frame.sd
    BY <1>1, <1>12, InputFacts DEF Decoy
  <2>2. g \notin Presented(d)
    BY <2>1, PresentedFacts
  <2> QED
    BY <2>2 DEF DigestEntry
<1>13. ASSUME NEW i \in 1..N
       PROVE  \A f \in s[i] : \E h \in Hops(n) : f = There(h)
  <2>1. sd[i] \in (Members(n) \cap frame.sd) \cup frame.decoys[n]
    BY <1>3, <1>4
  <2>2. CASE sd[i] \in Members(n) \cap frame.sd
    <3>1. PICK x \in Spots(n) : ValueAt(n, x) = sd[i]
      BY <1>7, <2>2
    <3> QED
      BY <1>6, <1>11, <2>2, <3>1
  <2>3. CASE sd[i] \in frame.decoys[n]
    BY <1>6, <1>12, <2>3
  <2> QED
    BY <2>1, <2>2, <2>3
(* The keys in clear lead to what is not disclosable. *)
<1>14. /\ DOMAIN PlainProps(n) \subseteq DOMAIN Tree[n].claims
       /\ \A k \in DOMAIN PlainProps(n) :
            PlainProps(n)[k] = Tree[n].claims[k] /\ PlainProps(n)[k] \notin frame.sd
       /\ DOMAIN PlainProps(n)
            = {k \in DOMAIN claims.props[n] : claims.props[n][k] \notin frame.sd}
                \cup (IF n = Root /\ input.holderKey THEN {"cnf"} ELSE {})
  BY <1>1, PlainPropsFacts
<1>15. KeyEntries(d, e) = {Entry(p.path \o Words[k], PlainProps(n)[k], NoVia) : k \in DOMAIN PlainProps(n)}
  BY <1>1, <1>2 DEF KeyEntries
<1>16. \A k \in DOMAIN PlainProps(n) :
         There(KeyHop(n, k)) = Entry(p.path \o Words[k], PlainProps(n)[k], NoVia)
  BY <1>10, <1>14
<1>17. \A f \in s[N + 1] : \E h \in Hops(n) : f = There(h)
  <2> TAKE f \in s[N + 1]
  <2>1. PICK k \in DOMAIN PlainProps(n) : f = Entry(p.path \o Words[k], PlainProps(n)[k], NoVia)
    BY <1>6, <1>15
  <2>2. f = There(KeyHop(n, k)) /\ KeyHop(n, k) \in Hops(n)
    BY <1>9, <1>14, <1>16, <2>1
  <2> QED
    BY <2>2
<1>18. ASSUME NEW h \in Hops(n) PROVE \E i \in 1..N + 1 : There(h) \in s[i]
  <2>1. PICK k \in DOMAIN Tree[n].claims : h = KeyHop(n, k)
    BY <1>9
  <2>2. CASE k \in DOMAIN PlainProps(n)
    <3>1. There(h) = Entry(p.path \o Words[k], PlainProps(n)[k], NoVia)
      BY <1>16, <2>1, <2>2
    <3>2. There(h) \in KeyEntries(d, e)
      BY <1>15, <2>2, <3>1
    <3>3. N + 1 \in 1..N + 1
      BY <1>4
    <3> QED
      BY <1>6, <3>2, <3>3
  <2>3. CASE k \notin DOMAIN PlainProps(n)
    <3>1. k \in Spots(n) /\ ValueAt(n, k) \in frame.sd
      BY <1>7, <1>8, <1>14, <2>1, <2>3
    <3>2. ValueAt(n, k) \in Members(n) \cap frame.sd
      BY <1>7, <3>1
    <3>3. PICK i \in 1..N : sd[i] = ValueAt(n, k)
      BY <1>3, <1>4, <3>2
    <3>4. s[i] = {There(h)}
      BY <1>6, <1>11, <2>1, <3>1, <3>3
    <3>5. i \in 1..N + 1
      BY <1>4
    <3> QED
      BY <3>4, <3>5
  <2> QED
    BY <2>2, <2>3
<1>19. \A i \in 1..N + 1 : i \in 1..N \/ i = N + 1
  BY <1>4
<1>20. \A i \in 1..N + 1 : \A f \in s[i] : \E h \in Hops(n) : f = There(h)
  BY <1>13, <1>17, <1>19
<1>21. Leads(p, s)
  <2>1. N + 1 \in Nat
    BY <1>4
  <2> QED
    BY <1>6, <1>18, <1>20, <2>1, LeadsByPlace DEF There
<1> QED
  BY <1>21 DEF s, e

LEMMA ArrayLeads ==
  ASSUME InputOK, NEW d \in Parts, Carries(d, frame.sd), NEW p \in Places,
         claims.kind[p.node] = "arr"
  PROVE  Leads(p, Below(d, EntryAt(p)))
<1> DEFINE n == p.node
           e == EntryAt(p)
           s == Below(d, e)
           c == claims.items[n]
           There(h) == EntryAt(Onto(p, h))
<1>0. \A m \in Value : m \in Node => d.kind[m] = claims.kind[m]
  BY PackedParts
<1>1. n \in Value /\ n \in Node /\ e.path = p.path /\ e.node = n
  BY PlaceFacts, HoleFacts, EntryFacts
<1>2. d.kind[n] = "arr" /\ d.items[n] = PackedItems(n)
  BY <1>1, PackedParts
<1>3. PICK N \in Nat, y \in Seq(Digest) : IsPacking(n, PackedItems(n), N, y)
  BY <1>1, ItemFacts
<1> DEFINE w == PackedItems(n)
<1>4. /\ {y[j] : j \in 1..Len(y)} = frame.decoys[n]
      /\ N = Len(c) /\ w \in Seq(Node) /\ Len(w) = N + Len(y)
      /\ \A i \in 1..N : w[i] = IF c[i] \in frame.sd THEN Hole[c[i]] ELSE c[i]
      /\ \A i \in 1..N + Len(y) : i \notin 1..N => i - N \in 1..Len(y) /\ w[i] = Hole[y[i - N]]
  BY <1>3 DEF IsPacking
<1> DEFINE L == N + Len(y)
<1>5. L \in Nat /\ DOMAIN w = 1..L /\ \A i \in 1..N : i \in 1..L
  BY <1>3, <1>4
<1>6. s = [i \in DOMAIN w |-> ItemEntry(d, e, i, HolderPath(e.path, i))]
  BY <1>1, <1>2 DEF Below
<1>7. c \in Seq(Value) /\ DOMAIN c = 1..N
  BY <1>1, <1>4, InputFacts
<1>8. /\ \A i \in 1..N : ItemHop(n, i) \in Hops(n)
      /\ \A h \in Hops(n) : \E i \in 1..N : h = ItemHop(n, i)
  <2>1. DOMAIN Tree[n].claims = {} /\ DOMAIN Tree[n].items = 1..N
    BY <1>1, <1>7, TreeFacts
  <2> QED
    BY <2>1 DEF Hops
<1>9. \A i : There(ItemHop(n, i)) = Entry(HolderPath(p.path, i), c[i],
                                        IF c[i] \in frame.sd THEN c[i] ELSE NoVia)
  BY ItemEntryAt
<1> HIDE DEF s, e, c, There, w, L
<1>10. /\ s = [i \in 1..L |-> s[i]]
       /\ \A i \in 1..L : s[i] = ItemEntry(d, e, i, HolderPath(p.path, i))
  BY <1>1, <1>5, <1>6
<1>11. \A g \in Digest : d.kind[Hole[g]] = "ph" /\ d.hides[Hole[g]] = g
  BY PackedHoles
<1>12. Presented(d) = frame.sd /\ \A g \in frame.sd : DisclosureOf(d, g).value = g
  BY PresentedFacts, DiscloseTyped
<1>13. \A i, z : ItemEntry(d, e, i, z) =
         IF d.kind[w[i]] # "ph" THEN {Entry(z, w[i], NoVia)}
         ELSE IF d.hides[w[i]] \in Presented(d)
                THEN {Entry(z, DisclosureOf(d, d.hides[w[i]]).value, d.hides[w[i]])} ELSE {}
  BY <1>1, <1>2 DEF ItemEntry, w
(* An element leads to its value, whether it is in clear or not. *)
<1>14. ASSUME NEW i \in 1..N PROVE s[i] = {There(ItemHop(n, i))}
  <2>1. c[i] \in Value /\ c[i] \in Digest /\ c[i] \in Node
    BY <1>7, HoleFacts
  <2>2. CASE c[i] \in frame.sd
    <3>1. w[i] = Hole[c[i]] /\ d.kind[w[i]] = "ph" /\ d.hides[w[i]] = c[i]
      BY <1>4, <1>11, <2>1, <2>2
    <3>2. s[i] = {Entry(HolderPath(p.path, i), c[i], c[i])}
      BY <1>5, <1>10, <1>12, <1>13, <2>2, <3>1
    <3> QED
      BY <1>9, <2>2, <3>2
  <2>3. CASE c[i] \notin frame.sd
    <3>1. w[i] = c[i]
      BY <1>4, <2>3
    <3>2. d.kind[w[i]] = claims.kind[c[i]]
      BY <1>0, <2>1, <3>1
    <3>3. d.kind[w[i]] # "ph"
      BY <2>1, <3>2, InputFacts
    <3>4. s[i] = {Entry(HolderPath(p.path, i), c[i], NoVia)}
      BY <1>5, <1>10, <1>13, <3>1, <3>3
    <3> QED
      BY <1>9, <2>3, <3>4
  <2> QED
    BY <2>2, <2>3
(* A decoy leads nowhere. *)
<1>15. ASSUME NEW i \in 1..L, i \notin 1..N PROVE s[i] = {}
  <2>1. i - N \in 1..Len(y) /\ w[i] = Hole[y[i - N]]
    BY <1>4, <1>15 DEF L
  <2>2. y[i - N] \in frame.decoys[n] /\ y[i - N] \in Digest
    BY <1>3, <1>4, <2>1
  <2>3. y[i - N] \notin frame.sd
    BY <1>1, <2>2, InputFacts DEF Decoy
  <2>4. d.kind[w[i]] = "ph" /\ d.hides[w[i]] \notin Presented(d)
    BY <1>11, <1>12, <2>1, <2>2, <2>3
  <2> QED
    BY <1>10, <1>13, <2>4
<1>16. \A i \in 1..L : \A f \in s[i] : \E h \in Hops(n) : f = There(h)
  BY <1>8, <1>14, <1>15
<1>17. \A h \in Hops(n) : \E i \in 1..L : There(h) \in s[i]
  BY <1>5, <1>8, <1>14
<1>18. Leads(p, s)
  BY <1>5, <1>10, <1>16, <1>17, LeadsByPlace DEF There
<1> QED
  BY <1>18 DEF s, e

LEMMA BelowLeads ==
  ASSUME InputOK, NEW d \in Parts, Carries(d, frame.sd), NEW p \in Places
  PROVE  Leads(p, Below(d, EntryAt(p)))
<1> DEFINE n == p.node
<1>0. \A m \in Value : m \in Node => d.kind[m] = claims.kind[m]
  BY PackedParts
<1>1. n \in Value /\ n \in Node /\ EntryAt(p).node = n
  BY PlaceFacts, HoleFacts, EntryFacts
<1>2. CASE claims.kind[n] \notin {"obj", "arr"}
  <2>1. DOMAIN Tree[n].claims = {} /\ DOMAIN Tree[n].items = {}
    BY <1>1, <1>2, TreeFacts
  <2>2. Hops(n) = {}
    BY <2>1 DEF Hops
  <2>3. d.kind[n] = claims.kind[n]
    BY <1>0, <1>1
  <2>4. Below(d, EntryAt(p)) = <<>>
    BY <1>1, <1>2, <2>3 DEF Below
  <2>5. <<>> \in Seq(SUBSET Entries) /\ Len(<<>>) = 0
    OBVIOUS
  <2> QED
    BY <2>2, <2>4, <2>5 DEF Leads
<1> QED
  BY <1>2, ObjectLeads, ArrayLeads

(***************************************************************************)
(* The invariant of the walk: the agenda has entries of places; what is    *)
(* known is known under its path; and each disclosable value is known, or  *)
(* is inside a value that is still on the agenda.                          *)
(***************************************************************************)
OnAgenda(s, m) == \E i \in 1..Len(s) : \E e \in s[i] : m \in Inside(e.node)

Known(keys, p) == p.path \in DOMAIN keys /\ keys[p.path] = p.node

KeysOK(keys) ==
  \A k \in DOMAIN keys : keys[k] \in frame.sd /\ [path |-> k, node |-> keys[k]] \in Places

Covered(s, keys) ==
  \A p \in Places : p.node \in frame.sd => Known(keys, p) \/ OnAgenda(s, p.node)

WalkInv ==
  /\ agenda \in Seq(SUBSET Entries)
  /\ KeysOK(keyToDigest)
  /\ stage \in {"held", "selected", "verified"} => Covered(agenda, keyToDigest)

LEMMA WalkInvExact ==
  ASSUME InputOK, WalkInv, stage \in {"held", "selected", "verified"}, agenda = <<>>
  PROVE  {[path |-> k, node |-> keyToDigest[k]] : k \in DOMAIN keyToDigest}
           = {p \in Places : p.node \in frame.sd}
<1>1. \A m : ~OnAgenda(agenda, m)
  <2>1. Len(<<>>) = 0
    OBVIOUS
  <2> QED
    BY <2>1 DEF OnAgenda
<1>2. ASSUME NEW p \in Places, p.node \in frame.sd
      PROVE  p \in {[path |-> k, node |-> keyToDigest[k]] : k \in DOMAIN keyToDigest}
  <2>1. p.path \in DOMAIN keyToDigest /\ keyToDigest[p.path] = p.node
    BY <1>1, <1>2 DEF WalkInv, Covered, Known
  <2>2. p = [path |-> p.path, node |-> p.node]
    BY PlaceFacts DEF Place
  <2> QED
    BY <2>1, <2>2
<1>3. ASSUME NEW k \in DOMAIN keyToDigest
      PROVE  [path |-> k, node |-> keyToDigest[k]] \in {p \in Places : p.node \in frame.sd}
  BY DEF WalkInv, KeysOK
<1> QED
  BY <1>2, <1>3

(* What is in a list is in it without its empty sets. *)
LEMMA KeptMembers ==
  ASSUME NEW T, NEW s \in Seq(SUBSET T), NEW i \in 1..Len(s), NEW e \in s[i]
  PROVE  LET t == Kept(s, Range(s) \ {{}})
         IN  \E j \in 1..Len(t) : e \in t[j]
<1> DEFINE R == Range(s) \ {{}}
           t == Kept(s, R)
<1>1. KeptUpTo(t, s, R, Len(s))
  BY KeptFacts
<1>2. s[i] \in R
  BY DEF Range
<1> HIDE DEF R, t
<1>3. \E j \in 1..Len(t) : t[j] = s[i]
  BY <1>1, <1>2 DEF KeptUpTo
<1> QED
  BY <1>3 DEF t, R

LEMMA PlacesStay ==
  ASSUME input' = input
  PROVE  Places' = Places /\ PathsApart' = PathsApart
<1>1. Tree' = Tree
  BY InputStays
<1>2. Places' = Places
  BY <1>1 DEF Places, HolderPath
<1>3. PathsApart' = PathsApart
  BY <1>1 DEF PathsApart
<1> QED
  BY <1>2, <1>3

LEMMA WalkNext ==
  ASSUME input' = input, agenda' \in Seq(SUBSET Entries), KeysOK(keyToDigest'),
         stage' \in {"held", "selected", "verified"} => Covered(agenda', keyToDigest')
  PROVE  WalkInv'
<1>1. Places' = Places /\ frame' = frame /\ Tree' = Tree
  BY InputStays, PlacesStay
<1>2. Entries' = Entries
  BY <1>1 DEF Entries, EntryAt, Entry
<1>3. KeysOK(keyToDigest)'
  BY <1>1 DEF KeysOK
<1>4. Covered(agenda', keyToDigest') => Covered(agenda, keyToDigest)'
  BY <1>1 DEF Covered, Known, OnAgenda, Inside
<1> QED
  BY <1>2, <1>3, <1>4 DEF WalkInv

LEMMA JoinFacts ==
  ASSUME NEW T, NEW s \in Seq(T), NEW t \in Seq(T)
  PROVE  /\ s \o t \in Seq(T) /\ Len(s \o t) = Len(s) + Len(t)
         /\ \A i \in 1..Len(s) : (s \o t)[i] = s[i]
         /\ \A i \in 1..Len(t) : (s \o t)[Len(s) + i] = t[i]
OBVIOUS

(* One visit: the entry's value is known now, what is in it is on the agenda. *)
LEMMA WalkStep ==
  ASSUME InputOK, PathsApart,
         NEW s \in Seq(SUBSET Entries), s # <<>>, NEW p \in Places, EntryAt(p) \in Head(s),
         NEW b, Leads(p, b), NEW keys, KeysOK(keys), Covered(s, keys)
  PROVE  LET e == EntryAt(p)
             next == b \o <<Head(s) \ {e}>> \o Tail(s)
             new == [k \in DOMAIN keys \cup {e.path} |-> IF k = e.path THEN e.via ELSE keys[k]]
             known == IF e.via = NoVia THEN keys ELSE new
             left == Kept(next, Range(next) \ {{}})
         IN  left \in Seq(SUBSET Entries) /\ KeysOK(known) /\ Covered(left, known)
<1> DEFINE e == EntryAt(p)
           h == Head(s) \ {e}
           next == b \o <<h>> \o Tail(s)
           new == [k \in DOMAIN keys \cup {e.path} |-> IF k = e.path THEN e.via ELSE keys[k]]
           known == IF e.via = NoVia THEN keys ELSE new
           left == Kept(next, Range(next) \ {{}})
<1>1. /\ e.path = p.path /\ e.node = p.node
      /\ e.via = IF p.node \in frame.sd THEN p.node ELSE NoVia
  BY EntryFacts
<1>2. p.node \in Value /\ p = [path |-> p.path, node |-> p.node] /\ NoVia \notin frame.sd
  <2>1. NoVia \notin frame.sd
    BY InputFacts, HoleFacts, MarkersAreFresh
  <2> QED
    BY <2>1, PlaceFacts DEF Place
<1>3. b \in Seq(SUBSET Entries)
  BY DEF Leads
<1> HIDE DEF e
<1> DEFINE U == SUBSET Entries
<1>4. /\ Len(s) \in Nat /\ Len(s) # 0 /\ Head(s) = s[1] /\ s[1] \in U
      /\ Tail(s) \in Seq(U) /\ Len(Tail(s)) = Len(s) - 1
      /\ \A i \in 1..Len(Tail(s)) : Tail(s)[i] = s[i + 1]
  OBVIOUS
<1>5. h \in U
  BY <1>4
<1> HIDE DEF U, h
<1>6. /\ next \in Seq(U) /\ Len(b) \in Nat /\ Len(next) = Len(b) + Len(s)
      /\ \A i \in 1..Len(b) : next[i] = b[i]
      /\ next[Len(b) + 1] = h
      /\ \A i \in 1..Len(Tail(s)) : next[Len(b) + 1 + i] = Tail(s)[i]
  <2> DEFINE c == b \o <<h>>
             t == Tail(s)
  <2>1. /\ c \in Seq(U) /\ Len(b) \in Nat /\ Len(c) = Len(b) + 1
        /\ \A i \in 1..Len(b) : c[i] = b[i]
        /\ c[Len(b) + 1] = h
    BY <1>3, <1>5 DEF U
  <2>2. t \in Seq(U) /\ Len(t) = Len(s) - 1
    BY <1>4
  <2>3. next = c \o t
    OBVIOUS
  <2> HIDE DEF c, t, next
  <2>4. /\ c \o t \in Seq(U) /\ Len(c \o t) = Len(c) + Len(t)
        /\ \A i \in 1..Len(c) : (c \o t)[i] = c[i]
        /\ \A i \in 1..Len(t) : (c \o t)[Len(c) + i] = t[i]
    <3>1. c \in Seq(U) /\ t \in Seq(U)
      BY <2>1, <2>2
    <3> QED
      BY <3>1, JoinFacts
  <2>5. /\ next \in Seq(U) /\ Len(next) = Len(c) + Len(t)
        /\ \A i \in 1..Len(c) : next[i] = c[i]
        /\ \A i \in 1..Len(t) : next[Len(c) + i] = t[i]
    BY <2>4, <2>3
  <2> QED
    BY <1>4, <2>1, <2>2, <2>5 DEF t
<1> HIDE DEF next
(* Nothing leaves the agenda but e. *)
<1>7. \A i \in 1..Len(s) : \A f \in s[i] : f # e => \E j \in 1..Len(next) : f \in next[j]
  <2> SUFFICES ASSUME NEW i \in 1..Len(s), NEW f \in s[i], f # e
               PROVE  \E j \in 1..Len(next) : f \in next[j]
    OBVIOUS
  <2>1. CASE i = 1
    <3>1. f \in next[Len(b) + 1] /\ Len(b) + 1 \in 1..Len(next)
      BY <1>4, <1>6, <2>1 DEF h
    <3> QED
      BY <3>1
  <2>2. CASE i # 1
    <3>1. i - 1 \in 1..Len(Tail(s)) /\ (i - 1) + 1 = i
      BY <1>4, <2>2
    <3>2. next[Len(b) + 1 + (i - 1)] = s[i]
      BY <1>4, <1>6, <3>1
    <3>3. Len(b) + 1 + (i - 1) \in 1..Len(next)
      BY <1>4, <1>6, <3>1
    <3> QED
      BY <3>2, <3>3
  <2> QED
    BY <2>1, <2>2
(* What e contains comes onto it. *)
<1>8. \A g \in Hops(p.node) : \E j \in 1..Len(next) : EntryAt(Onto(p, g)) \in next[j]
  <2> TAKE g \in Hops(p.node)
  <2>1. PICK i \in 1..Len(b) : EntryAt(Onto(p, g)) \in b[i]
    BY DEF Leads
  <2>2. i \in 1..Len(next) /\ next[i] = b[i]
    BY <1>4, <1>6
  <2> QED
    BY <2>1, <2>2
<1>9. left \in Seq(SUBSET Entries)
  BY <1>6, KeptFacts DEF U
<1>10. ASSUME NEW f, \E j \in 1..Len(next) : f \in next[j]
       PROVE  \E j \in 1..Len(left) : f \in left[j]
  BY <1>6, <1>10, KeptMembers DEF U
<1> HIDE DEF left
(* The digest is entered under the path of its value. *)
<1>11. KeysOK(known)
  <2>1. CASE p.node \notin frame.sd
    BY <1>1, <2>1
  <2>2. CASE p.node \in frame.sd
    <3>1. known = new /\ e.via = p.node
      BY <1>1, <1>2, <2>2
    <3>2. DOMAIN new = DOMAIN keys \cup {p.path} /\ new[p.path] = p.node
      BY <1>1, <3>1
    <3>3. \A k \in DOMAIN keys : k # p.path => new[k] = keys[k]
      BY <1>1
    <3> HIDE DEF new
    <3>4. ASSUME NEW k \in DOMAIN new
          PROVE  new[k] \in frame.sd /\ [path |-> k, node |-> new[k]] \in Places
      <4>1. CASE k = p.path
        BY <1>2, <2>2, <3>2, <4>1
      <4>2. CASE k # p.path
        BY <3>2, <3>3, <4>2 DEF KeysOK
      <4> QED
        BY <4>1, <4>2
    <3> QED
      BY <3>1, <3>4 DEF KeysOK
  <2> QED
    BY <2>1, <2>2
<1>12. \A q \in Places : Known(keys, q) => Known(known, q)
  <2> SUFFICES ASSUME NEW q \in Places, Known(keys, q) PROVE Known(known, q)
    OBVIOUS
  <2>1. CASE e.via = NoVia
    BY <2>1
  <2>2. CASE e.via # NoVia
    <3>1. known = new /\ e.via = p.node
      BY <1>1, <2>2
    <3>2. q.path = p.path => q.node = p.node
      BY PathsMean
    <3>3. q.path \in DOMAIN keys /\ keys[q.path] = q.node
      BY DEF Known
    <3>4. q.path \in DOMAIN new /\ new[q.path] = q.node
      BY <1>1, <3>1, <3>2, <3>3
    <3> QED
      BY <3>1, <3>4 DEF Known
  <2> QED
    BY <2>1, <2>2
<1>13. p.node \in frame.sd => Known(known, p)
  <2> SUFFICES ASSUME p.node \in frame.sd PROVE Known(known, p)
    OBVIOUS
  <2>1. known = new /\ e.via = p.node
    BY <1>1, <1>2
  <2>2. p.path \in DOMAIN new /\ new[p.path] = p.node
    BY <1>1, <2>1
  <2> QED
    BY <2>1, <2>2 DEF Known
<1> HIDE DEF known
<1>14. Covered(left, known)
  <2> SUFFICES ASSUME NEW q \in Places, q.node \in frame.sd
               PROVE  Known(known, q) \/ OnAgenda(left, q.node)
    BY DEF Covered
  <2>1. Known(keys, q) \/ \E i \in 1..Len(s) : \E f \in s[i] : q.node \in Inside(f.node)
    BY DEF Covered, OnAgenda
  <2>2. ASSUME NEW i \in 1..Len(s), NEW f \in s[i], q.node \in Inside(f.node), f # e
        PROVE  OnAgenda(left, q.node)
    BY <1>7, <1>10, <2>2 DEF OnAgenda
  <2>3. ASSUME q.node \in Inside(p.node), q.node # p.node
        PROVE  OnAgenda(left, q.node)
    <3>1. PICK c \in Promise!Children(Tree, p.node) : q.node \in Inside(c)
      BY <1>2, <2>3, InsideSplit
    <3>2. PICK g \in Hops(p.node) : g.node = c
      BY <1>2, HopFacts
    <3>3. EntryAt(Onto(p, g)).node = c
      <4>1. Onto(p, g).node = c
        BY <3>2, OntoFacts
      <4> QED
        BY <4>1, EntryFacts
    <3>4. \E j \in 1..Len(left) : EntryAt(Onto(p, g)) \in left[j]
      BY <1>8, <1>10
    <3> QED
      BY <3>1, <3>3, <3>4 DEF OnAgenda
  <2>4. ASSUME q.node = p.node PROVE Known(known, q)
    <3>1. q = p
      BY <2>4, PlaceFacts
    <3> QED
      BY <1>13, <3>1
  <2>5. CASE Known(keys, q)
    BY <1>12, <2>5
  <2>6. CASE \E i \in 1..Len(s) : \E f \in s[i] : q.node \in Inside(f.node)
    <3>1. PICK i \in 1..Len(s) : \E f \in s[i] : q.node \in Inside(f.node)
      BY <2>6
    <3>2. PICK f \in s[i] : q.node \in Inside(f.node)
      BY <3>1
    <3>3. f = e => q.node \in Inside(p.node)
      BY <1>1, <3>2
    <3> QED
      BY <2>2, <2>3, <2>4, <3>2, <3>3
  <2> QED
    BY <2>1, <2>5, <2>6
<1> QED
  BY <1>9, <1>11, <1>14 DEF left, next, known, h, e

(* An agenda of one entry. *)
LEMMA FirstAgenda ==
  ASSUME InputOK, NEW keys
  PROVE  LET s == <<{EntryAt(PlaceRoot)}>>
         IN  s \in Seq(SUBSET Entries) /\ Covered(s, keys)
<1> DEFINE e == EntryAt(PlaceRoot)
           S == {e}
           s == <<S>>
<1>1. e \in Entries /\ e.node = Root
  BY PlaceFacts, RootIsPlace, EntryFacts DEF Entries
<1>2. \A p \in Places : p.node \in Inside(Root)
  BY PlaceFacts
<1>3. S \in SUBSET Entries /\ e \in S
  BY <1>1
<1> HIDE DEF e, S
<1>4. s \in Seq(SUBSET Entries) /\ Len(s) = 1 /\ s[1] = S
  BY <1>3
<1> HIDE DEF s
<1>5. \A p \in Places : OnAgenda(s, p.node)
  BY <1>1, <1>2, <1>3, <1>4 DEF OnAgenda
<1> QED
  BY <1>4, <1>5 DEF Covered, s, S, e

LEMMA WalkWalkInv ==
  ASSUME ReadInv, PathsApart, WalkInv, WalkPayloadForKeys
  PROVE  WalkInv'
<1>1. /\ input' = input /\ stage' = stage /\ stage = "held" /\ agenda # <<>>
  BY DEF WalkPayloadForKeys
<1>2. PICK e \in Head(agenda) :
        /\ keyToDigest' = IF e.via = NoVia
                            THEN keyToDigest
                            ELSE [k \in DOMAIN keyToDigest \cup {e.path} |->
                                    IF k = e.path THEN e.via ELSE keyToDigest[k]]
        /\ LET next == Below(Held, e) \o <<Head(agenda) \ {e}>> \o Tail(agenda)
           IN  agenda' = Kept(next, Range(next) \ {{}})
  BY DEF WalkPayloadForKeys
<1>3. InputOK /\ Held \in Parts /\ Carries(Held, frame.sd)
  BY <1>1, HeldCarries
<1>4. agenda \in Seq(SUBSET Entries) /\ KeysOK(keyToDigest) /\ Covered(agenda, keyToDigest)
  BY <1>1 DEF WalkInv
<1>5. Head(agenda) \in SUBSET Entries
  BY <1>1, <1>4
<1>6. PICK p \in Places : e = EntryAt(p)
  BY <1>2, <1>5 DEF Entries
<1>7. Leads(p, Below(Held, e))
  BY <1>3, <1>6, BelowLeads
<1>8. agenda' \in Seq(SUBSET Entries) /\ KeysOK(keyToDigest') /\ Covered(agenda', keyToDigest')
  <2> DEFINE s == agenda
             keys == keyToDigest
             b == Below(Held, e)
             next == b \o <<Head(s) \ {e}>> \o Tail(s)
             new == [k \in DOMAIN keys \cup {e.path} |-> IF k = e.path THEN e.via ELSE keys[k]]
             known == IF e.via = NoVia THEN keys ELSE new
             left == Kept(next, Range(next) \ {{}})
  <2>1. keyToDigest' = known /\ agenda' = left
    BY <1>2
  <2>2. left \in Seq(SUBSET Entries) /\ KeysOK(known) /\ Covered(left, known)
    <3> HIDE DEF b
    <3>1. Leads(p, b) /\ EntryAt(p) \in Head(agenda)
      BY <1>2, <1>6, <1>7 DEF b
    <3> QED
      BY <1>1, <1>3, <1>4, <1>6, <3>1, WalkStep
  <2> HIDE DEF left, known
  <2> QED
    BY <2>1, <2>2
<1> QED
  BY <1>1, <1>8, WalkNext

LEMMA NextWalkInv ==
  ASSUME ReadInv, PathsApart, WalkInv, [Next]_vars
  PROVE  WalkInv'
<1>1. InputOK
  BY DEF ReadInv, IInv, IssueInv
<1>2. /\ agenda \in Seq(SUBSET Entries) /\ KeysOK(keyToDigest)
      /\ stage \in {"held", "selected", "verified"} => Covered(agenda, keyToDigest)
  BY DEF WalkInv
<1>3. ASSUME UNCHANGED <<input, agenda, keyToDigest>>,
             stage' \in {"held", "selected", "verified"} => stage \in {"held", "selected", "verified"}
      PROVE  WalkInv'
  BY <1>2, <1>3, WalkNext
<1>4. CASE IssueWithFrame
  BY <1>3, <1>4 DEF IssueWithFrame
<1>5. CASE NewHolder \/ ParseAndCreateHolder
  <2>1. UNCHANGED <<input, keyToDigest>> /\ agenda' = <<{Entry(<<>>, Root, NoVia)}>>
    BY <1>5 DEF NewHolder, ParseAndCreateHolder, CreateHolder
  <2>2. EntryAt(PlaceRoot) = Entry(<<>>, Root, NoVia)
    <3>1. Root \notin frame.sd
      BY <1>1, FrameFacts
    <3> QED
      BY <3>1, RootIsPlace DEF EntryAt
  <2>3. agenda' \in Seq(SUBSET Entries) /\ Covered(agenda', keyToDigest')
    BY <1>1, <2>1, <2>2, FirstAgenda
  <2> QED
    BY <1>2, <2>1, <2>3, WalkNext
<1>6. CASE WalkPayloadForKeys
  BY <1>6, WalkWalkInv
<1>7. CASE \E keys \in Requests : SelectWithFrame(keys)
  BY <1>3, <1>7 DEF SelectWithFrame
<1>8. CASE \E keys \in Required : Verify(keys)
  BY <1>3, <1>8 DEF Verify
<1>9. CASE UNCHANGED vars
  BY <1>3, <1>9 DEF vars
<1> QED
  BY <1>4, <1>5, <1>6, <1>7, <1>8, <1>9 DEF Next

LEMMA InitWalkInv == Init => WalkInv
<1> SUFFICES ASSUME Init PROVE WalkInv
  OBVIOUS
<1>1. agenda = <<>> /\ keyToDigest = <<>> /\ stage = "draft"
  BY DEF Init, Start
<1>2. <<>> \in Seq(SUBSET Entries) /\ DOMAIN <<>> = {}
  OBVIOUS
<1> QED
  BY <1>1, <1>2 DEF WalkInv, KeysOK

(***************************************************************************)
(* Whatever the claims and frames, and in whichever order the walk meets   *)
(* the keys, the holder ends up knowing each disclosable value under its   *)
(* own path and nothing else, provided that no claim name is another one   *)
(* of the same object with a dot and more after it.                        *)
(***************************************************************************)
THEOREM KeysExact == PathSpec => []PresentableKeysExact
<1> DEFINE Inv == ReadInv /\ PathsApart /\ WalkInv
<1>1. Init /\ PathsApart => Inv
  <2>1. Init => ReadInv
    BY InitIInv DEF Init, Start, ReadInv
  <2> QED
    BY <2>1, InitWalkInv
<1>2. Inv /\ [Next /\ AsInMemory]_vars => Inv'
  <2> SUFFICES ASSUME Inv, [Next /\ AsInMemory]_vars PROVE Inv'
    OBVIOUS
  <2>1. ReadInv' /\ WalkInv'
    BY NextReadInv, NextWalkInv
  <2>2. input' = input
    BY DEF Next, vars, IssueWithFrame, NewHolder, ParseAndCreateHolder, CreateHolder,
           WalkPayloadForKeys, SelectWithFrame, Verify
  <2>3. PathsApart'
    BY <2>2, PlacesStay
  <2> QED
    BY <2>1, <2>3
<1>3. Inv => PresentableKeysExact
  <2> SUFFICES ASSUME Inv, stage = "held", agenda = <<>>
               PROVE  {[path |-> k, node |-> keyToDigest[k]] : k \in DOMAIN keyToDigest}
                        = {p \in Places : p.node \in frame.sd}
    BY DEF PresentableKeysExact
  <2>1. InputOK
    BY DEF ReadInv, IInv, IssueInv
  <2> QED
    BY <2>1, WalkInvExact
<1> QED
  BY <1>1, <1>2, <1>3, PTL DEF PathSpec, ReadSpec

-----------------------------------------------------------------------------
(* What is selected. *)

(* The list has the disclosures of the values in D, each once. *)
Discloses(s, D) ==
  /\ s \in Seq(Disclosure)
  /\ {s[i] : i \in DOMAIN s} = {Disclose(m) : m \in D}
  /\ \A i, j \in DOMAIN s : s[i] = s[j] => i = j

(* The disclosable values that the paths name, and those they open. *)
Asked(paths) == IF paths = Everything THEN frame.sd ELSE frame.sd \cap At(paths)
OpenedBy(paths) == {m \in frame.sd : Inside(m) \cap Asked(paths) # {}}

LEMMA KeptDiscloses ==
  ASSUME InputOK, NEW S
  PROVE  Discloses(Kept(Pack.disclosures, {d \in Disclosure : d.digest \in S}), frame.sd \cap S)
<1> DEFINE s == Pack.disclosures
           X == {d \in Disclosure : d.digest \in S}
           t == Kept(s, X)
<1>1. s \in Seq(Disclosure)
  BY PackTyped DEF Parts
<1>2. /\ {s[i] : i \in DOMAIN s} = {Disclose(m) : m \in frame.sd}
      /\ \A i, j \in DOMAIN s : s[i] = s[j] => i = j
  BY PackCarries DEF Carries
<1> HIDE DEF s, X
<1>3. t \in Seq(Disclosure) /\ KeptUpTo(t, s, X, Len(s))
  BY <1>1, KeptFacts
<1> HIDE DEF t
<1>4. DOMAIN s = 1..Len(s) /\ DOMAIN t = 1..Len(t)
  BY <1>1, <1>3
<1>5. \A m \in frame.sd : Disclose(m) \in X <=> m \in S
  <2> TAKE m \in frame.sd
  <2>1. Disclose(m) \in Disclosure /\ Disclose(m).digest = m
    BY DiscloseTyped
  <2> QED
    BY <2>1 DEF X
<1>6. ASSUME NEW i \in DOMAIN t PROVE \E m \in frame.sd \cap S : t[i] = Disclose(m)
  <2>1. PICK k \in DOMAIN s : t[i] = s[k] /\ s[k] \in X
    BY <1>3, <1>4 DEF KeptUpTo
  <2>2. PICK m \in frame.sd : s[k] = Disclose(m)
    BY <1>2
  <2> QED
    BY <1>5, <2>1, <2>2
<1>7. ASSUME NEW m \in frame.sd \cap S PROVE \E i \in DOMAIN t : t[i] = Disclose(m)
  <2>1. PICK k \in DOMAIN s : s[k] = Disclose(m)
    BY <1>2
  <2> QED
    BY <1>3, <1>4, <1>5, <2>1 DEF KeptUpTo
<1>8. \A i, j \in DOMAIN t : t[i] = t[j] => i = j
  BY <1>2, <1>3, <1>4 DEF KeptUpTo
<1>9. Discloses(t, frame.sd \cap S)
  BY <1>3, <1>6, <1>7, <1>8 DEF Discloses
<1> QED
  BY <1>9 DEF t, s, X

(* A nil frame is flattened to itself, and opens everything. *)
LEMMA NilOpens ==
  ASSUME InputOK
  PROVE  flattenPresentationFrame(Everything) = Everything /\ OpenedBy(Everything) = frame.sd
<1>1. FlattenSeq(<<>>) = <<>>
  BY DEF FlattenSeq
<1>2. [i \in DOMAIN <<>> |-> Words[<<>>[i]]] = <<>>
  OBVIOUS
<1>3. flattenPresentationFrame(Everything) = {FlattenSeq([i \in DOMAIN <<>> |-> Words[<<>>[i]]])}
  BY DEF flattenPresentationFrame, Everything
<1>4. \A m \in frame.sd : m \in Inside(m)
  BY FrameFacts, InsideFacts
<1> QED
  BY <1>1, <1>2, <1>3, <1>4 DEF Everything, OpenedBy, Asked

(* With all the keys known, what a path selects is what it names and what is around it. *)
LEMMA SelectedOpens ==
  ASSUME InputOK, PathsApart, WalkInv, stage = "held", agenda = <<>>,
         NEW r, r # Everything
  PROVE  frame.sd \cap SelectedBy(r) = OpenedBy(r)
<1> DEFINE keys == keyToDigest
           P == {p \in Places : p.node \in frame.sd}
<1>1. {[path |-> k, node |-> keys[k]] : k \in DOMAIN keys} = P
  BY WalkInvExact
<1>2. \A k \in DOMAIN keys : [path |-> k, node |-> keys[k]] \in P
  BY <1>1
<1>3. \A p \in P : p.path \in DOMAIN keys /\ keys[p.path] = p.node
  <2> TAKE p \in P
  <2>1. PICK k \in DOMAIN keys : p = [path |-> k, node |-> keys[k]]
    BY <1>1
  <2> QED
    BY <2>1
<1>4. \A m \in frame.sd : \E p \in P : p.node = m
  <2> TAKE m \in frame.sd
  <2>1. m \in Inside(Root)
    BY SecretInside
  <2> QED
    BY <2>1, PlaceFacts
<1>5. \A p, q \in P : IsPrefix(p.path, q.path) <=> q.node \in Inside(p.node)
  BY PathsMean
<1> HIDE DEF keys, P
<1>6. \A m : m \in SelectedBy(r)
              <=> \E j, k \in DOMAIN keys : k \in r /\ keys[j] = m /\ IsPrefix(j, k)
  <2>1. \A k \in DOMAIN keys : IsPrefix(k, k)
    <3> TAKE k \in DOMAIN keys
    <3>1. PICK p \in Places : p.path = k
      BY <1>2 DEF P
    <3>2. p.node \in Value
      BY PlaceFacts
    <3> QED
      BY <3>1, <3>2, PathsMean, InsideFacts
  <2>2. \A k : ParentDigests(k) = {keys[j] : j \in {j \in DOMAIN keys : IsStrictPrefix(j, k)}}
    BY DEF ParentDigests, keys
  <2>3. \A m : m \in SelectedBy(r)
                 <=> \E k \in r \cap DOMAIN keys : keys[k] = m \/ m \in ParentDigests(k)
    BY DEF SelectedBy, keys
  <2>4. \A j, k : IsStrictPrefix(j, k) <=> IsPrefix(j, k) /\ j # k
    BY DEF IsStrictPrefix
  <2> QED
    BY <2>1, <2>2, <2>3, <2>4
<1>7. \A x : x \in At(r) <=> \E p \in Places : p.path \in r /\ p.node = x
  BY DEF At
<1>8. ASSUME NEW m \in frame.sd, m \in SelectedBy(r) PROVE m \in OpenedBy(r)
  <2>1. PICK j, k \in DOMAIN keys : k \in r /\ keys[j] = m /\ IsPrefix(j, k)
    BY <1>6, <1>8
  <2> DEFINE p == [path |-> j, node |-> keys[j]]
             q == [path |-> k, node |-> keys[k]]
  <2>2. p \in P /\ q \in P /\ p.path = j /\ q.path = k /\ p.node = m
    BY <1>2, <2>1
  <2> HIDE DEF p, q
  <2>3. q.node \in Inside(m)
    BY <1>5, <2>1, <2>2
  <2>4. q.node \in frame.sd \cap At(r)
    BY <1>7, <2>1, <2>2 DEF P
  <2> QED
    BY <2>3, <2>4 DEF OpenedBy, Asked
<1>9. ASSUME NEW m \in OpenedBy(r) PROVE m \in frame.sd \cap SelectedBy(r)
  <2>1. m \in frame.sd
    BY DEF OpenedBy
  <2>2. PICK x : x \in Inside(m) /\ x \in frame.sd /\ x \in At(r)
    BY DEF OpenedBy, Asked
  <2>3. PICK q \in Places : q.path \in r /\ q.node = x
    BY <1>7, <2>2
  <2>4. PICK p \in P : p.node = m
    BY <1>4, <2>1
  <2>5. q \in P
    BY <2>2, <2>3 DEF P
  <2>6. IsPrefix(p.path, q.path)
    BY <1>5, <2>2, <2>3, <2>4, <2>5
  <2>7. p.path \in DOMAIN keys /\ keys[p.path] = m /\ q.path \in DOMAIN keys
    BY <1>3, <2>4, <2>5
  <2> QED
    BY <1>6, <2>1, <2>3, <2>6, <2>7
<1> QED
  BY <1>8, <1>9 DEF OpenedBy

-----------------------------------------------------------------------------
(* What is shown. *)

(* The signed payload with disclosures for D, as a party parses it. *)
LEMMA ParsedCarries ==
  ASSUME InputOK, CanIssue, NEW D, D \subseteq frame.sd, NEW s, Discloses(s, D)
  PROVE  LET d == Parsed([Pack EXCEPT !.disclosures = s])
         IN  d \in Parts /\ Carries(d, D) /\ ResolveHashAlgorithm(d) \in Supported
<1> DEFINE stated == IF Pack.sdAlg = "" THEN DefaultAlg ELSE Pack.sdAlg
           d == Parsed([Pack EXCEPT !.disclosures = s])
<1>1. Pack \in Parts /\ Carries(Pack, frame.sd)
  BY PackTyped, PackCarries
<1>2. stated \in Supported /\ stated \in Alg
  BY <1>1, DefaultIsSupported DEF Pack, CanIssue
<1>3. d = [[Pack EXCEPT !.disclosures = s] EXCEPT !.provided = stated]
  BY <1>1 DEF Parsed, Parts
<1> HIDE DEF stated, d
<1>4. d = [kind |-> Pack.kind, props |-> Pack.props, sd |-> Pack.sd, items |-> Pack.items,
           hides |-> Pack.hides, malformed |-> Pack.malformed,
           disclosures |-> s, sdAlg |-> Pack.sdAlg, provided |-> stated]
  BY <1>1, <1>3 DEF Parts
<1>5. d \in Parts
  BY <1>1, <1>2, <1>4 DEF Parts, Discloses
<1>6. Carries(d, D)
  BY <1>1, <1>4 DEF Carries, Discloses
<1>7. ResolveHashAlgorithm(d) = stated
  BY <1>2, <1>4 DEF ResolveHashAlgorithm, stated
<1> QED
  BY <1>2, <1>5, <1>6, <1>7 DEF d

(* What is opened is not cut off: it is inside nothing but what is opened. *)
LEMMA OpenedReached ==
  ASSUME InputOK, NEW r
  PROVE  OpenedBy(r) \subseteq Promise!Below(Tree, Root, frame.sd \ OpenedBy(r))
<1> DEFINE D == OpenedBy(r)
           A == Asked(r)
           B == Promise!Below(Tree, Root, frame.sd \ D)
           T == {m \in Inside(Root) : Inside(m) \cap A # {} => m \in B}
<1>1. D \subseteq frame.sd /\ \A m \in frame.sd : m \in D <=> Inside(m) \cap A # {}
  BY DEF OpenedBy
<1>2. /\ Root \in Value /\ Root \in B
      /\ \A n \in B : Promise!Children(Tree, n) \ (frame.sd \ D) \subseteq B
  BY BelowFacts, ValuesAreDigests
<1>3. /\ Inside(Root) \subseteq Value /\ Root \in Inside(Root)
      /\ \A n \in Inside(Root) : Promise!Children(Tree, n) \subseteq Inside(Root)
      /\ \A S \in SUBSET Value :
           Root \in S /\ (\A m \in S : Promise!Children(Tree, m) \subseteq S) => Inside(Root) \subseteq S
  BY <1>2, InsideFacts
<1> HIDE DEF D, A, B
<1>4. T \in SUBSET Value /\ Root \in T
  BY <1>2, <1>3
<1>5. ASSUME NEW n \in T, NEW c \in Promise!Children(Tree, n) PROVE c \in T
  <2>1. n \in Value /\ c \in Inside(Root)
    BY <1>3
  <2>2. ASSUME Inside(c) \cap A # {} PROVE c \in B
    <3>1. c \in Inside(n)
      BY <2>1, InsideFacts
    <3>2. Inside(c) \subseteq Inside(n)
      BY <2>1, <3>1, InsideSplit
    <3>3. n \in B
      BY <2>2, <3>2
    <3>4. c \notin frame.sd \ D
      BY <1>1, <2>2
    <3> QED
      BY <1>2, <3>3, <3>4
  <2> QED
    BY <2>1, <2>2
<1> HIDE DEF T
<1>6. Inside(Root) \subseteq T
  BY <1>3, <1>4, <1>5
<1>7. ASSUME NEW m \in D PROVE m \in B
  <2>1. m \in T /\ Inside(m) \cap A # {}
    BY <1>1, <1>6, <1>7, SecretInside
  <2> QED
    BY <2>1 DEF T
<1> QED
  BY <1>7 DEF B, D

(* A selection is valid for who parses it, and shows the tree cut off. *)
LEMMA OpenedShows ==
  ASSUME InputOK, CanIssue, NEW r, NEW s, Discloses(s, OpenedBy(r))
  PROVE  LET d == Parsed([Pack EXCEPT !.disclosures = s])
             B == Promise!Below(Tree, Root, frame.sd \ OpenedBy(r))
         IN  /\ ValidDocument(d)
             /\ [n \in Revealed(d) |-> Expected(d, n)] = Promise!Cut(Tree, B)
<1> DEFINE d == Parsed([Pack EXCEPT !.disclosures = s])
           D == OpenedBy(r)
           B == Promise!Below(Tree, Root, frame.sd \ D)
<1>1. D \subseteq frame.sd /\ D \subseteq B /\ Discloses(s, D)
  BY OpenedReached DEF OpenedBy
<1>2. d \in Parts /\ Carries(d, D) /\ ResolveHashAlgorithm(d) \in Supported
  BY <1>1, ParsedCarries
<1> HIDE DEF d, D
<1>3. ValidDocument(d)
  BY <1>1, <1>2, CarriedValid
<1>4. Revealed(d) = B
  BY <1>2, CarriedRevealed
<1>5. \A n \in B : Expected(d, n) = Promise!Cut(Tree, B)[n]
  BY <1>2, CutExpected
<1> HIDE DEF B
<1>6. Promise!Cut(Tree, B) = [n \in B |-> Promise!Cut(Tree, B)[n]]
  BY DEF Promise!Cut
<1>7. [n \in Revealed(d) |-> Expected(d, n)] = Promise!Cut(Tree, B)
  BY <1>4, <1>5, <1>6
<1> QED
  BY <1>3, <1>7 DEF d, D, B

-----------------------------------------------------------------------------
(* What the verifier is shown is what was promised. *)

(* What was selected is what the request opens, and nothing is refused. *)
ShowInv ==
  /\ ~error
  /\ stage \in {"selected", "verified"} => Discloses(presented, OpenedBy(request))

LEMMA AskedNext ==
  ASSUME input' = input
  PROVE  AskedFor' = Asked(request')
<1>1. frame' = frame /\ Places' = Places
  BY InputStays, PlacesStay
<1> QED
  BY <1>1 DEF AskedFor, Asked, At

LEMMA ShowNext ==
  ASSUME input' = input, ~error',
         stage' \in {"selected", "verified"} => Discloses(presented', OpenedBy(request'))
  PROVE  ShowInv'
<1>1. frame' = frame /\ Places' = Places /\ Tree' = Tree /\ claims' = claims
  BY InputStays, PlacesStay DEF claims
<1>2. \A m : Disclose(m)' = Disclose(m)
  BY <1>1 DEF Disclose, ClaimsAt
<1>3. Discloses(presented', OpenedBy(request')) => Discloses(presented, OpenedBy(request))'
  BY <1>1, <1>2 DEF Discloses, OpenedBy, Asked, At, Inside
<1> QED
  BY <1>3 DEF ShowInv

LEMMA ParseShows ==
  ASSUME ReadInv, ParseAndCreateHolder
  PROVE  ~error'
<1>1. InputOK /\ CanIssue /\ sdjwt = Pack /\ error' = ~ValidDocument(Parsed(sdjwt))
  BY DEF ReadInv, IInv, IssueInv, ParseAndCreateHolder, CreateHolder
<1> DEFINE s == Pack.disclosures
<1>2. Pack \in Parts /\ Carries(Pack, frame.sd) /\ OpenedBy(Everything) = frame.sd
  BY <1>1, PackTyped, PackCarries, NilOpens
<1>3. Discloses(s, OpenedBy(Everything))
  BY <1>2 DEF Discloses, Carries, Parts
<1>4. [Pack EXCEPT !.disclosures = s] = Pack
  BY <1>2 DEF Parts
<1> HIDE DEF s
<1>5. ValidDocument(Parsed([Pack EXCEPT !.disclosures = s]))
  BY <1>1, <1>3, OpenedShows
<1> QED
  BY <1>1, <1>4, <1>5

LEMMA SelectShows ==
  ASSUME ReadInv, PathsApart, WalkInv, NEW keys \in Requests, SelectWithFrame(keys)
  PROVE  Discloses(presented', OpenedBy(request'))
<1>1. /\ InputOK /\ sdjwt = Pack /\ stage = "held" /\ agenda = <<>>
      /\ request' = flattenPresentationFrame(keys)
  BY DEF ReadInv, IInv, IssueInv, SelectWithFrame
<1> DEFINE r == flattenPresentationFrame(keys)
           S == IF keys = Everything THEN Digest ELSE SelectedBy(r)
<1>2. presented' = Kept(Pack.disclosures, {d \in Disclosure : d.digest \in S})
  BY <1>1 DEF SelectWithFrame
<1>3. frame.sd \cap S = OpenedBy(r)
  <2>1. CASE keys = Everything
    <3>1. frame.sd \subseteq Digest
      BY <1>1, InputFacts, HoleFacts
    <3> QED
      BY <1>1, <2>1, <3>1, NilOpens
  <2>2. CASE keys # Everything
    <3>1. <<>> \notin r
      BY <2>2, RequestsNamePaths
    <3>2. r # Everything
      BY <3>1 DEF Everything
    <3> HIDE DEF r
    <3> QED
      BY <1>1, <2>2, <3>2, SelectedOpens
  <2> QED
    BY <2>1, <2>2
<1> HIDE DEF S
<1>4. Discloses(Kept(Pack.disclosures, {d \in Disclosure : d.digest \in S}), frame.sd \cap S)
  BY <1>1, KeptDiscloses
<1> QED
  BY <1>1, <1>2, <1>3, <1>4

LEMMA VerifyShows ==
  ASSUME ReadInv, ShowInv, NEW keys, Verify(keys)
  PROVE  /\ ~error'
         /\ View = Promise!Cut(Tree, Promise!Below(Tree, Root, frame.sd \ OpenedBy(request)))
<1>1. InputOK /\ CanIssue /\ sdjwt = Pack /\ stage = "selected" /\ error' = ~ValidDocument(Received)
  BY DEF ReadInv, IInv, IssueInv, Verify
<1>2. Discloses(presented, OpenedBy(request))
  BY <1>1 DEF ShowInv
<1>3. Received = Parsed([Pack EXCEPT !.disclosures = presented])
  BY <1>1 DEF Received
<1> QED
  BY <1>1, <1>2, <1>3, OpenedShows DEF View

LEMMA NextShowInv ==
  ASSUME ReadInv, PathsApart, WalkInv, ShowInv, [Next]_vars
  PROVE  ShowInv'
<1>1. ~error /\ (stage \in {"selected", "verified"} => Discloses(presented, OpenedBy(request)))
  BY DEF ShowInv
<1>2. CASE IssueWithFrame
  BY <1>1, <1>2, ShowNext DEF IssueWithFrame
<1>3. CASE NewHolder
  BY <1>1, <1>3, ShowNext DEF NewHolder, CreateHolder
<1>4. CASE ParseAndCreateHolder
  <2>1. input' = input /\ stage' = "held"
    BY <1>4 DEF ParseAndCreateHolder, CreateHolder
  <2> QED
    BY <1>4, <2>1, ParseShows, ShowNext
<1>5. CASE WalkPayloadForKeys
  BY <1>1, <1>5, ShowNext DEF WalkPayloadForKeys
<1>6. CASE \E keys \in Requests : SelectWithFrame(keys)
  <2>1. PICK keys \in Requests : SelectWithFrame(keys)
    BY <1>6
  <2>2. input' = input /\ error' = error
    BY <2>1 DEF SelectWithFrame
  <2> QED
    BY <1>1, <2>1, <2>2, SelectShows, ShowNext
<1>7. CASE \E keys \in Required : Verify(keys)
  <2>1. PICK keys \in Required : Verify(keys)
    BY <1>7
  <2>2. input' = input /\ stage = "selected" /\ UNCHANGED <<request, presented>>
    BY <2>1 DEF Verify
  <2> QED
    BY <1>1, <2>1, <2>2, VerifyShows, ShowNext
<1>8. CASE UNCHANGED vars
  BY <1>1, <1>8, ShowNext DEF vars
<1> QED
  BY <1>2, <1>3, <1>4, <1>5, <1>6, <1>7, <1>8 DEF Next

(* The abstract variables, state by state. *)
LEMMA SameOpened ==
  ASSUME InputOK
  PROVE  Promise!Opened(Tree, frame.sd, AskedFor) = OpenedBy(request)
BY DEF Promise!Opened, AskedFor, OpenedBy, Asked, Inside

LEMMA StutterPromise ==
  ASSUME input' = input, AbstractStage' = AbstractStage, ~Chosen, ~Chosen'
  PROVE  UNCHANGED Promise!vars
<1>1. Tree' = Tree /\ frame' = frame
  BY InputStays
<1>2. stage # "verified" /\ stage' # "verified"
  BY DEF Chosen
<1> QED
  BY <1>1, <1>2 DEF Promise!vars

LEMMA InitPromise == Init => Promise!Init
<1> SUFFICES ASSUME Init PROVE Promise!Init
  OBVIOUS
<1>1. InputOK /\ stage = "draft"
  BY DEF Init, Start
<1>2. DOMAIN Tree = Value /\ \A n \in Value : Promise!Children(Tree, n) \subseteq Value \ {Root}
  BY <1>1, ChildFacts DEF Tree
<1>3. frame.sd \subseteq Value \ {Root}
  BY <1>1, FrameFacts
<1>4. AbstractStage = "draft" /\ ~Chosen
  BY <1>1 DEF AbstractStage, Chosen
<1> QED
  BY <1>1, <1>2, <1>3, <1>4 DEF Promise!Init, Promise!Nothing

LEMMA IssuePromise == IssueWithFrame => Promise!Issue \/ Promise!Refuse
<1> SUFFICES ASSUME IssueWithFrame PROVE Promise!Issue \/ Promise!Refuse
  OBVIOUS
<1>1. input' = input /\ stage = "draft" /\ stage' \in {"issued", "refused"}
  BY DEF IssueWithFrame
<1>2. Tree' = Tree /\ frame' = frame
  BY <1>1, InputStays
<1>3. AbstractStage = "draft" /\ AbstractStage' = stage' /\ ~Chosen /\ ~Chosen'
  BY <1>1 DEF AbstractStage, Chosen
<1> QED
  BY <1>1, <1>2, <1>3 DEF Promise!Issue, Promise!Refuse

LEMMA SelectPromise ==
  ASSUME ReadInv, ShowInv, NEW keys, SelectWithFrame(keys)
  PROVE  Promise!Ask
<1>1. input' = input /\ stage = "held" /\ stage' = "selected" /\ ~error /\ InputOK
  BY DEF SelectWithFrame, ReadInv, IInv, IssueInv
<1>2. Tree' = Tree /\ frame' = frame
  BY <1>1, InputStays
<1>3. AbstractStage = "issued" /\ AbstractStage' = "asked" /\ Chosen'
  BY <1>1 DEF AbstractStage, Chosen
<1>4. AskedFor' \in SUBSET frame.sd
  BY <1>1, AskedNext DEF Asked
<1> QED
  BY <1>1, <1>2, <1>3, <1>4 DEF Promise!Ask

LEMMA VerifyPromise ==
  ASSUME ReadInv, ShowInv, NEW keys, Verify(keys)
  PROVE  Promise!Show
<1>1. /\ input' = input /\ stage = "selected" /\ stage' = "verified" /\ InputOK
      /\ UNCHANGED <<sdjwt, request, presented>>
  BY DEF Verify, ReadInv, IInv, IssueInv
<1>2. Tree' = Tree /\ frame' = frame
  BY <1>1, InputStays
<1>3. AbstractStage = "asked" /\ AbstractStage' = "shown" /\ Chosen /\ Chosen'
  BY <1>1 DEF AbstractStage, Chosen
<1>4. AskedFor' = AskedFor
  BY <1>1, AskedNext DEF AskedFor, Asked
<1>5. View' = View
  <2>1. Received' = Received
    BY <1>1 DEF Received, Parsed
  <2> QED
    BY <2>1 DEF View
<1>6. ~error'
  BY VerifyShows
<1>7. View = Promise!Cut(Tree, Promise!Below(Tree, Root,
               frame.sd \ Promise!Opened(Tree, frame.sd, AskedFor)))
  BY <1>1, VerifyShows, SameOpened
<1> QED
  BY <1>1, <1>2, <1>3, <1>4, <1>5, <1>6, <1>7 DEF Promise!Show

(***************************************************************************)
(* Selective disclosure: of whatever claims, framed in whatever way, asked *)
(* for by whatever paths, the verifier accepts the presentation and sees   *)
(* the tree the issuer signed, cut off exactly at the disclosable values   *)
(* that were not asked for and hold nothing asked for.                     *)
(***************************************************************************)
THEOREM Implements == PathSpec => PromiseKept
<1> DEFINE Inv == ReadInv /\ PathsApart /\ WalkInv /\ ShowInv
<1>1. Init /\ PathsApart => Inv
  <2>1. Init => ReadInv /\ ShowInv
    BY InitIInv DEF Init, Start, ReadInv, ShowInv
  <2> QED
    BY <2>1, InitWalkInv
<1>2. Inv /\ [Next /\ AsInMemory]_vars => Inv'
  <2> SUFFICES ASSUME Inv, [Next /\ AsInMemory]_vars PROVE Inv'
    OBVIOUS
  <2>1. ReadInv' /\ WalkInv' /\ ShowInv'
    BY NextReadInv, NextWalkInv, NextShowInv
  <2>2. input' = input
    BY DEF Next, vars, IssueWithFrame, NewHolder, ParseAndCreateHolder, CreateHolder,
           WalkPayloadForKeys, SelectWithFrame, Verify
  <2>3. PathsApart'
    BY <2>2, PlacesStay
  <2> QED
    BY <2>1, <2>3
<1>3. Inv /\ Inv' /\ [Next /\ AsInMemory]_vars => [Promise!Next]_Promise!vars
  <2> SUFFICES ASSUME Inv, Inv', [Next /\ AsInMemory]_vars
               PROVE  [Promise!Next]_Promise!vars
    OBVIOUS
  <2>1. CASE IssueWithFrame
    BY <2>1, IssuePromise DEF Promise!Next
  <2>2. CASE NewHolder \/ ParseAndCreateHolder
    <3>1. input' = input /\ stage = "issued" /\ stage' = "held" /\ ~error'
      BY <2>2 DEF NewHolder, ParseAndCreateHolder, CreateHolder, ShowInv
    <3>2. AbstractStage' = AbstractStage /\ ~Chosen /\ ~Chosen'
      BY <3>1 DEF AbstractStage, Chosen
    <3> QED
      BY <3>1, <3>2, StutterPromise
  <2>3. CASE WalkPayloadForKeys
    <3>1. input' = input /\ stage = "held" /\ stage' = "held" /\ error' = error
      BY <2>3 DEF WalkPayloadForKeys
    <3>2. AbstractStage' = AbstractStage /\ ~Chosen /\ ~Chosen'
      BY <3>1 DEF AbstractStage, Chosen
    <3> QED
      BY <3>1, <3>2, StutterPromise
  <2>4. CASE \E keys \in Requests : SelectWithFrame(keys)
    BY <2>4, SelectPromise DEF Promise!Next
  <2>5. CASE \E keys \in Required : Verify(keys)
    BY <2>5, VerifyPromise DEF Promise!Next
  <2>6. CASE UNCHANGED vars
    <3>1. UNCHANGED <<input, stage, sdjwt, request, presented, error>>
      BY <2>6 DEF vars
    <3>2. Tree' = Tree /\ frame' = frame
      BY <3>1, InputStays
    <3>3. AbstractStage' = AbstractStage /\ Chosen' = Chosen
      BY <3>1 DEF AbstractStage, Chosen
    <3>4. AskedFor' = AskedFor
      BY <3>1, AskedNext DEF AskedFor, Asked
    <3>5. Received' = Received
      BY <3>1 DEF Received, Parsed
    <3>6. View' = View
      BY <3>5 DEF View
    <3> QED
      BY <3>1, <3>2, <3>3, <3>4, <3>6 DEF Promise!vars
  <2> QED
    BY <2>1, <2>2, <2>3, <2>4, <2>5, <2>6 DEF Next
<1> QED
  BY <1>1, <1>2, <1>3, InitPromise, PTL DEF PathSpec, ReadSpec, PromiseKept, Promise!Spec

-----------------------------------------------------------------------------
(* What is written in paths, and what is around what is seen. *)

(* The words that anyone may write. *)
Letters == STRING \cup {Index(i) : i \in Nat}
Texts == Seq(Letters)

LEMMA SeqGrows ==
  ASSUME NEW S, NEW T, S \subseteq T
  PROVE  Seq(S) \subseteq Seq(T)
<1> SUFFICES ASSUME NEW s \in Seq(S) PROVE s \in Seq(T)
  OBVIOUS
<1>1. \A i \in 1..Len(s) : s[i] \in T
  OBVIOUS
<1> QED
  BY <1>1, SeqInto

LEMMA WordsAreTexts ==
  /\ Word \subseteq Texts /\ Seq(Word) \subseteq Seq(Texts) /\ Seq(Seq(STRING)) \subseteq Seq(Texts)
  /\ \A i \in Nat : Index(i) \in Letters
<1>1. STRING \subseteq Letters /\ \A i \in Nat : Index(i) \in Letters
  BY Zenon DEF Letters
<1> HIDE DEF Letters
<1>2. Seq(STRING) \subseteq Texts
  BY <1>1, SeqGrows DEF Texts
<1>3. NameWord \subseteq Texts
  <2> SUFFICES ASSUME NEW k \in Name, NEW w \in Range(Words[k]) PROVE w \in Texts
    BY DEF NameWord
  <2>1. Words[k] \in Seq(Seq(STRING))
    BY NamesHaveWords
  <2>2. w \in Seq(STRING)
    BY <2>1 DEF Range
  <2> QED
    BY <1>2, <2>2
<1>4. IndexWord \subseteq Texts
  <2> SUFFICES ASSUME NEW i \in Nat PROVE <<Index(i)>> \in Texts
    BY Zenon DEF IndexWord
  <2>1. Index(i) \in Letters
    BY <1>1
  <2> QED
    BY <2>1, OneWord DEF Texts
<1>5. Word \subseteq Texts
  BY <1>3, <1>4 DEF Word
<1> HIDE DEF Texts
<1> QED
  BY <1>1, <1>2, <1>5, SeqGrows

(* What is inside something seen is seen only where that is. *)
LEMMA SeenAround ==
  ASSUME InputOK, NEW cut, NEW n \in Value, NEW m \in Inside(n),
         n \in Inside(Root), m \in Promise!Below(Tree, Root, cut)
  PROVE  n \in Promise!Below(Tree, Root, cut)
<1> DEFINE B == Promise!Below(Tree, Root, cut)
           T == {x \in Inside(n) : x \in B => n \in B}
<1>1. /\ Inside(n) \subseteq Value /\ n \in Inside(n)
      /\ \A x \in Inside(n) : Promise!Children(Tree, x) \subseteq Inside(n)
  BY InsideFacts
<1>2. ASSUME NEW x \in T, NEW c \in Promise!Children(Tree, x), c \in B PROVE n \in B
  <2>1. x \in Value /\ c # Root
    BY <1>1, ChildFacts
  <2>2. PICK y \in B : c \in Promise!Children(Tree, y)
    BY <1>2, <2>1, ParentFacts
  <2>3. y \in Value
    BY ValuesAreDigests, BelowFacts
  <2>4. x = y
    BY <2>1, <2>2, <2>3, OneParent
  <2> QED
    BY <2>2, <2>4
<1>3. T \in SUBSET Value /\ n \in T /\ \A x \in T : Promise!Children(Tree, x) \subseteq T
  BY <1>1, <1>2
<1> HIDE DEF T
<1>4. Inside(n) \subseteq T
  BY <1>3, InsideFacts
<1> QED
  BY <1>4 DEF T

-----------------------------------------------------------------------------
(* What the verifier's walk meets below a value. *)

(* What of the tree is seen with the disclosures of D. *)
SeenWith(D) == Promise!Below(Tree, Root, frame.sd \ D)

(* f is the entry one step on from e for a value that is not cut off. *)
KeyStep(e, f, D) ==
  \E k \in DOMAIN Tree[e.node].claims :
    /\ f.path = e.path \o Words[k] /\ f.node = Tree[e.node].claims[k]
    /\ f.node \notin frame.sd \ D

ItemStep(e, f, D) ==
  \E i \in DOMAIN claims.items[e.node] :
    /\ f.path = VerifierPath(e.path, i) /\ f.node = claims.items[e.node][i]
    /\ f.node \notin frame.sd \ D

ObjectEntries(d, e) ==
  KeyEntries(d, e) \cup UNION {DigestEntry(d, e, g) : g \in Range(d.sd[e.node])}

LEMMA ObjectSteps ==
  ASSUME InputOK, NEW d, NEW D, Carries(d, D), NEW e, e.node \in Value,
         claims.kind[e.node] = "obj",
         NEW f \in ObjectEntries(d, e)
  PROVE  KeyStep(e, f, D) /\ f = Entry(f.path, f.node, f.via) /\ f.via \in D \cup {NoVia}
<1> DEFINE n == e.node
<1>1. /\ n \in Value /\ n \in Node /\ d.sd[n] = SDDigests(n) /\ d.props[n] = PlainProps(n)
  <2>1. n \in Value /\ n \in Node
    BY HoleFacts
  <2>2. \A m \in Value : m \in Node => d.sd[m] = SDDigests(m)
    BY PackedParts
  <2>3. \A m \in Node : d.props[m] = PlainProps(m)
    BY PackedParts
  <2> HIDE DEF n
  <2> QED
    BY <2>1, <2>2, <2>3
<1>2. D \subseteq frame.sd
  BY DEF Carries
<1> f \in KeyEntries(d, e) \/ \E g \in Range(d.sd[n]) : f \in DigestEntry(d, e, g)
  BY DEF ObjectEntries
<1>3. CASE f \in KeyEntries(d, e)
  <2>1. PICK k \in DOMAIN PlainProps(n) : f = Entry(e.path \o Words[k], PlainProps(n)[k], NoVia)
    BY <1>1, <1>3 DEF KeyEntries
  <2>2. /\ k \in DOMAIN Tree[n].claims /\ PlainProps(n)[k] = Tree[n].claims[k]
        /\ PlainProps(n)[k] \notin frame.sd
    BY <1>1, PlainPropsFacts
  <2> QED
    BY <2>1, <2>2 DEF Entry, KeyStep
<1>4. CASE \E g \in Range(d.sd[n]) : f \in DigestEntry(d, e, g)
  <2>1. PICK g \in Range(d.sd[n]) : f \in DigestEntry(d, e, g)
    BY <1>4
  <2>2. Presented(d) = D /\ g \in D /\ DisclosureOf(d, g) = Disclose(g)
    BY <2>1, PresentedFacts DEF DigestEntry
  <2>3. f = Entry(e.path \o Words[Disclose(g).name], Disclose(g).value, g)
    BY <2>1, <2>2 DEF DigestEntry
  <2>4. g \in Members(n)
    <3>1. g \in (Members(n) \cap frame.sd) \cup frame.decoys[n]
      BY <1>1, <2>1, SDFacts DEF Range
    <3>2. g \notin frame.decoys[n]
      BY <1>1, <1>2, <2>2, InputFacts DEF Decoy
    <3> QED
      BY <3>1, <3>2
  <2>5. PICK x \in Spots(n) : ValueAt(n, x) = g
    BY <2>4 DEF Members
  <2>6. Disclose(g).name = x /\ Disclose(g).value = g
    BY <1>1, <1>2, <2>2, <2>5, DiscloseFacts
  <2>7. x \in DOMAIN Tree[n].claims /\ Tree[n].claims[x] = g
    BY <1>1, <2>5, TreeFacts DEF Spots, ValueAt
  <2> QED
    BY <2>2, <2>3, <2>6, <2>7 DEF Entry, KeyStep
<1> QED
  BY <1>3, <1>4

LEMMA ArraySteps ==
  ASSUME InputOK, NEW d, NEW D, Carries(d, D), NEW e, e.node \in Value,
         claims.kind[e.node] = "arr",
         NEW i \in DOMAIN d.items[e.node], NEW f \in ItemEntry(d, e, i, VerifierPath(e.path, i))
  PROVE  ItemStep(e, f, D) /\ f = Entry(f.path, f.node, f.via) /\ f.via \in D \cup {NoVia}
<1> DEFINE n == e.node
           c == claims.items[n]
           w == PackedItems(n)
           z == VerifierPath(e.path, i)
<1>0. \A m \in Value : m \in Node => d.kind[m] = claims.kind[m]
  BY PackedParts
<1>1. n \in Value /\ n \in Node /\ d.items[n] = w
  BY PackedParts, HoleFacts
<1>2. PICK N \in Nat, y \in Seq(Digest) : IsPacking(n, w, N, y)
  BY <1>1, ItemFacts
<1>3. /\ {y[j] : j \in 1..Len(y)} = frame.decoys[n]
      /\ N = Len(c) /\ w \in Seq(Node) /\ Len(w) = N + Len(y)
      /\ \A j \in 1..N : w[j] = IF c[j] \in frame.sd THEN Hole[c[j]] ELSE c[j]
      /\ \A j \in 1..N + Len(y) : j \notin 1..N => j - N \in 1..Len(y) /\ w[j] = Hole[y[j - N]]
  BY <1>2 DEF IsPacking
<1>4. i \in 1..N + Len(y) /\ c \in Seq(Value) /\ DOMAIN c = 1..N
  BY <1>1, <1>3, InputFacts
<1>5. D \subseteq frame.sd /\ Presented(d) = D /\ \A g \in D : DisclosureOf(d, g).value = g
  <2>1. D \subseteq frame.sd
    BY DEF Carries
  <2>2. Presented(d) = D /\ \A g \in D : DisclosureOf(d, g) = Disclose(g)
    BY PresentedFacts
  <2>3. \A g : Disclose(g).value = g
    BY DEF Disclose
  <2> QED
    BY <2>1, <2>2, <2>3
<1>6. \A g \in Digest : d.kind[Hole[g]] = "ph" /\ d.hides[Hole[g]] = g
  BY PackedHoles
<1>7. f \in IF d.kind[w[i]] # "ph" THEN {Entry(z, w[i], NoVia)}
            ELSE IF d.hides[w[i]] \in Presented(d)
                   THEN {Entry(z, DisclosureOf(d, d.hides[w[i]]).value, d.hides[w[i]])} ELSE {}
  BY <1>1 DEF ItemEntry
<1> HIDE DEF w, z, c
<1>8. ASSUME i \notin 1..N PROVE FALSE
  <2>1. i - N \in 1..Len(y) /\ w[i] = Hole[y[i - N]]
    BY <1>3, <1>4, <1>8
  <2>2. y[i - N] \in frame.decoys[n] /\ y[i - N] \in Digest
    BY <1>2, <1>3, <2>1
  <2>3. y[i - N] \notin frame.sd
    BY <1>1, <2>2, InputFacts DEF Decoy
  <2> QED
    BY <1>5, <1>6, <1>7, <2>1, <2>2, <2>3
<1>9. c[i] \in Value /\ c[i] \in Digest /\ c[i] \in Node
  BY <1>4, <1>8, HoleFacts
<1>10. \E v \in D \cup {NoVia} : f = Entry(z, c[i], v) /\ c[i] \notin frame.sd \ D
  <2>1. CASE c[i] \in frame.sd
    <3>1. w[i] = Hole[c[i]] /\ d.kind[w[i]] = "ph" /\ d.hides[w[i]] = c[i]
      BY <1>3, <1>6, <1>8, <1>9, <2>1
    <3> QED
      BY <1>5, <1>7, <3>1
  <2>2. CASE c[i] \notin frame.sd
    <3>1. w[i] = c[i] /\ d.kind[w[i]] = claims.kind[c[i]]
      BY <1>0, <1>3, <1>8, <1>9, <2>2
    <3>2. d.kind[w[i]] # "ph"
      BY <1>9, <3>1, InputFacts
    <3> QED
      BY <1>7, <2>2, <3>1, <3>2
  <2> QED
    BY <2>1, <2>2
<1> QED
  BY <1>4, <1>8, <1>10 DEF Entry, ItemStep, z, c

LEMMA VerifierPathFacts ==
  ASSUME NEW p \in Seq(Texts), p # <<>>, NEW i \in 1..Cardinality(Node)
  PROVE  /\ VerifierPath(p, i) \in Seq(Texts) /\ Len(VerifierPath(p, i)) = Len(p)
         /\ \A j \in 1..Len(p) : j # Len(p) => VerifierPath(p, i)[j] = p[j]
         /\ IsIndex(VerifierPath(p, i)[Len(p)])
<1> DEFINE w == Last(p)
           x == Append(w, Index(i))
<1>1. Len(p) \in Nat /\ Len(p) >= 1 /\ w \in Texts
  BY DEF Last
<1>2. Index(i) \in Letters
  <2>1. Cardinality(Node) \in Nat
    BY NodesFinite, FS_CardinalityType
  <2>2. i \in Nat
    BY <2>1
  <2> QED
    BY <2>2, WordsAreTexts
<1>3. x \in Texts /\ x # <<>> /\ Last(x) = Index(i)
  <2>1. ASSUME NEW T, NEW s \in Seq(T), NEW a \in T
        PROVE  Append(s, a) \in Seq(T) /\ Append(s, a) # <<>> /\ Last(Append(s, a)) = a
    BY DEF Last
  <2> HIDE DEF w
  <2> QED
    BY <1>1, <1>2, <2>1 DEF Texts
<1>4. IsIndex(x)
  BY <1>3 DEF IsIndex
<1> DEFINE y == Front(p)
<1>5. y \in Seq(Texts) /\ Len(y) = Len(p) - 1 /\ \A j \in 1..Len(p) - 1 : y[j] = p[j]
  <2>1. ASSUME NEW T, NEW s \in Seq(T), NEW N \in Nat, Len(s) = N, N >= 1
        PROVE  /\ SubSeq(s, 1, N - 1) \in Seq(T) /\ Len(SubSeq(s, 1, N - 1)) = N - 1
               /\ \A j \in 1..N - 1 : SubSeq(s, 1, N - 1)[j] = s[j]
    BY <2>1
  <2>2. y = SubSeq(p, 1, Len(p) - 1)
    BY DEF Front
  <2> HIDE DEF y
  <2> QED
    BY <1>1, <2>1, <2>2
<1>6. VerifierPath(p, i) = Append(y, x)
  BY DEF VerifierPath
<1> HIDE DEF x, y
<1> QED
  BY <1>1, <1>3, <1>4, <1>5, <1>6

(* A path with an index in it, up to which it is like that of a place in B. *)
Marked(path, B) ==
  \E j \in 1..Len(path) :
    /\ IsIndex(path[j])
    /\ \E x \in Places : /\ x.node \in B /\ j <= Len(x.path) + 1
                         /\ \A i \in 1..Len(path) : i < j => path[i] = x.path[i]

SeenEntry(e, D) ==
  /\ e.node \in SeenWith(D)
  /\ [path |-> e.path, node |-> e.node] \in Places \/ Marked(e.path, SeenWith(D))

SeenEntries(D) ==
  {e \in [path : Seq(Texts), node : Value, via : D \cup {NoVia}] : SeenEntry(e, D)}

LEMMA SeenChild ==
  ASSUME InputOK, NEW D, NEW n \in SeenWith(D), NEW c \in Promise!Children(Tree, n), c \notin frame.sd \ D
  PROVE  c \in SeenWith(D) /\ c \in Value /\ n \in Value
BY ValuesAreDigests, BelowFacts, ChildFacts DEF SeenWith

LEMMA KeyStepSeen ==
  ASSUME InputOK, NEW D, NEW e \in SeenEntries(D), NEW f, KeyStep(e, f, D)
  PROVE  f.path \in Seq(Texts) /\ f.node \in Value /\ SeenEntry(f, D)
<1> DEFINE n == e.node
<1>1. e.path \in Seq(Texts) /\ n \in Value /\ n \in SeenWith(D)
  BY DEF SeenEntries, SeenEntry
<1>2. PICK k \in DOMAIN Tree[n].claims :
        f.path = e.path \o Words[k] /\ f.node = Tree[n].claims[k] /\ f.node \notin frame.sd \ D
  BY DEF KeyStep
<1>3. f.node \in SeenWith(D) /\ f.node \in Value
  BY <1>1, <1>2, KidFacts, SeenChild
<1>4. Words[k] \in Seq(Texts)
  <2>1. k \in Name
    BY <1>1, <1>2, TreeFacts, InputFacts, CnfIsName
  <2> QED
    BY <2>1, NamesHaveWords, WordsAreTexts
<1>5. f.path \in Seq(Texts)
  BY <1>1, <1>2, <1>4
<1>6. CASE [path |-> e.path, node |-> n] \in Places
  <2> DEFINE p == [path |-> e.path, node |-> n]
  <2>1. KeyHop(n, k) \in Hops(p.node)
    BY DEF Hops
  <2>2. Onto(p, KeyHop(n, k)) \in Places
    BY <1>6, <2>1, OntoFacts
  <2>3. Onto(p, KeyHop(n, k)) = [path |-> f.path, node |-> f.node]
    BY <1>2 DEF Onto, KeyHop
  <2> QED
    BY <1>3, <1>5, <2>2, <2>3 DEF SeenEntry
<1>7. CASE Marked(e.path, SeenWith(D))
  <2> DEFINE B == SeenWith(D)
  <2>1. /\ Len(f.path) \in Nat /\ Len(e.path) \in Nat /\ Len(e.path) <= Len(f.path)
        /\ \A i \in 1..Len(e.path) : f.path[i] = e.path[i]
    <3>1. ASSUME NEW T, NEW s \in Seq(T), NEW t \in Seq(T)
          PROVE  /\ Len(s \o t) \in Nat /\ Len(s) \in Nat /\ Len(s) <= Len(s \o t)
                 /\ \A i \in 1..Len(s) : (s \o t)[i] = s[i]
      OBVIOUS
    <3> DEFINE u == e.path
               v == Words[k]
    <3>2. u \in Seq(Texts) /\ v \in Seq(Texts) /\ f.path = u \o v
      BY <1>1, <1>2, <1>4
    <3> HIDE DEF u, v
    <3>3. /\ Len(u \o v) \in Nat /\ Len(u) \in Nat /\ Len(u) <= Len(u \o v)
          /\ \A i \in 1..Len(u) : (u \o v)[i] = u[i]
      BY <3>1, <3>2
    <3>4. /\ Len(f.path) \in Nat /\ Len(u) \in Nat /\ Len(u) <= Len(f.path)
          /\ \A i \in 1..Len(u) : f.path[i] = u[i]
      BY <3>2, <3>3
    <3> QED
      BY <3>4 DEF u
  <2> HIDE DEF B
  <2>2. PICK j \in 1..Len(e.path) :
          /\ IsIndex(e.path[j])
          /\ \E x \in Places : /\ x.node \in B /\ j <= Len(x.path) + 1
                               /\ \A i \in 1..Len(e.path) : i < j => e.path[i] = x.path[i]
    BY <1>7 DEF Marked, B
  <2>3. j \in 1..Len(f.path) /\ IsIndex(f.path[j])
    BY <2>1, <2>2
  <2>4. \A i \in 1..Len(f.path) : i < j => i \in 1..Len(e.path)
    BY <2>1, <2>2
  <2>5. Marked(f.path, B)
    BY <2>1, <2>2, <2>3, <2>4 DEF Marked
  <2> QED
    BY <1>3, <1>5, <2>5 DEF SeenEntry, B
<1> QED
  BY <1>6, <1>7 DEF SeenEntries, SeenEntry

LEMMA ItemStepSeen ==
  ASSUME InputOK, PathsApart, NEW D, NEW e \in SeenEntries(D), claims.kind[e.node] = "arr",
         NEW f, ItemStep(e, f, D)
  PROVE  f.path \in Seq(Texts) /\ f.node \in Value /\ SeenEntry(f, D)
<1> DEFINE n == e.node
           B == SeenWith(D)
<1>1. e.path \in Seq(Texts) /\ n \in Value /\ n \in B
  BY DEF SeenEntries, SeenEntry
<1>2. PICK i \in DOMAIN claims.items[n] :
        f.path = VerifierPath(e.path, i) /\ f.node = claims.items[n][i] /\ f.node \notin frame.sd \ D
  BY DEF ItemStep
<1>3. f.node \in B /\ f.node \in Value
  <2>1. claims.items[n] = Tree[n].items
    BY <1>1, TreeFacts
  <2> QED
    BY <1>1, <1>2, <2>1, KidFacts, SeenChild
<1>4. i \in 1..Cardinality(Node)
  BY <1>1, <1>2, ItemIndexes
<1>5. n # Root
  BY DEF InputOK, ClaimsOK
<1> HIDE DEF B
<1>6. e.path # <<>>
  <2>1. CASE [path |-> e.path, node |-> n] \in Places
    <3> DEFINE p == [path |-> e.path, node |-> n]
    <3>1. PlaceRoot \in Places /\ PlaceRoot.path = <<>> /\ PlaceRoot.node = Root
      BY PlaceFacts, RootIsPlace
    <3>2. p.path = <<>> => p = PlaceRoot
      BY <2>1, <3>1, PathsMean
    <3> QED
      BY <1>5, <3>1, <3>2
  <2>2. CASE Marked(e.path, B)
    BY <1>1, <2>2 DEF Marked
  <2> QED
    BY <2>1, <2>2 DEF SeenEntries, SeenEntry, B
<1>7. /\ f.path \in Seq(Texts) /\ Len(f.path) = Len(e.path)
      /\ \A j \in 1..Len(e.path) : j # Len(e.path) => f.path[j] = e.path[j]
      /\ IsIndex(f.path[Len(e.path)])
  BY <1>1, <1>2, <1>4, <1>6, VerifierPathFacts
<1>8. Len(e.path) \in Nat /\ Len(e.path) \in 1..Len(e.path)
  BY <1>1, <1>6
<1>9. Marked(f.path, B)
  <2>1. CASE [path |-> e.path, node |-> n] \in Places
    <3> DEFINE p == [path |-> e.path, node |-> n]
    <3>1. p \in Places /\ p.path = e.path /\ p.node \in B
      BY <1>1, <2>1
    <3> HIDE DEF p
    <3>2. \A j \in 1..Len(f.path) : j < Len(e.path) => f.path[j] = p.path[j]
      BY <1>7, <1>8, <3>1
    <3>3. Len(e.path) \in 1..Len(f.path) /\ Len(e.path) <= Len(p.path) + 1
      BY <1>7, <1>8, <3>1
    <3> QED
      BY <1>7, <3>1, <3>2, <3>3 DEF Marked
  <2>2. CASE Marked(e.path, B)
    <3>1. PICK j \in 1..Len(e.path) :
            /\ IsIndex(e.path[j])
            /\ \E x \in Places : /\ x.node \in B /\ j <= Len(x.path) + 1
                                 /\ \A k \in 1..Len(e.path) : k < j => e.path[k] = x.path[k]
      BY <2>2 DEF Marked
    <3>2. j \in 1..Len(f.path) /\ IsIndex(f.path[j])
      BY <1>7, <3>1
    <3>3. \A k \in 1..Len(f.path) : k < j => k \in 1..Len(e.path) /\ f.path[k] = e.path[k]
      BY <1>7, <1>8, <3>1
    <3> QED
      BY <3>1, <3>2, <3>3 DEF Marked
  <2> QED
    BY <2>1, <2>2 DEF SeenEntries, SeenEntry, B
<1> QED
  BY <1>3, <1>7, <1>9 DEF SeenEntry, B

(* What DisclosedClaims meets below e. *)
VerifierUnder(d, e) ==
  CASE d.kind[e.node] = "obj" -> ObjectEntries(d, e)
    [] d.kind[e.node] = "arr" ->
         UNION {ItemEntry(d, e, i, VerifierPath(e.path, i)) : i \in DOMAIN d.items[e.node]}
    [] OTHER -> {}

LEMMA VerifierUnderSeen ==
  ASSUME InputOK, PathsApart, NEW d, NEW D, Carries(d, D), NEW e \in SeenEntries(D)
  PROVE  VerifierUnder(d, e) \subseteq SeenEntries(D)
<1> SUFFICES ASSUME NEW f \in VerifierUnder(d, e) PROVE f \in SeenEntries(D)
  OBVIOUS
<1>1. e.node \in Value /\ d.kind[e.node] = claims.kind[e.node]
  <2>1. e.node \in Value /\ e.node \in Node
    BY HoleFacts DEF SeenEntries
  <2>2. \A m \in Value : m \in Node => d.kind[m] = claims.kind[m]
    BY PackedParts
  <2> QED
    BY <2>1, <2>2
<1>2. f.path \in Seq(Texts) /\ f.node \in Value /\ SeenEntry(f, D)
       /\ f = Entry(f.path, f.node, f.via) /\ f.via \in D \cup {NoVia}
  <2>1. CASE d.kind[e.node] = "obj"
    <3>1. f \in ObjectEntries(d, e)
      BY <2>1 DEF VerifierUnder
    <3>2. KeyStep(e, f, D) /\ f = Entry(f.path, f.node, f.via) /\ f.via \in D \cup {NoVia}
      <4>1. claims.kind[e.node] = "obj" /\ e.node \in Value
        BY <1>1, <2>1
      <4> QED
        BY <3>1, <4>1, ObjectSteps, Zenon
    <3> QED
      BY <3>2, KeyStepSeen
  <2>2. CASE d.kind[e.node] = "arr"
    <3>1. PICK i \in DOMAIN d.items[e.node] : f \in ItemEntry(d, e, i, VerifierPath(e.path, i))
      BY <2>2 DEF VerifierUnder
    <3>2. ItemStep(e, f, D) /\ f = Entry(f.path, f.node, f.via) /\ f.via \in D \cup {NoVia}
      BY <1>1, <2>2, <3>1, ArraySteps
    <3> QED
      BY <1>1, <2>2, <3>2, ItemStepSeen
  <2> QED
    BY <2>1, <2>2 DEF VerifierUnder
<1> DEFINE p == f.path
           n == f.node
           v == f.via
<1>3. p \in Seq(Texts) /\ n \in Value /\ v \in D \cup {NoVia} /\ f = [path |-> p, node |-> n, via |-> v]
  BY <1>2 DEF Entry
<1> HIDE DEF p, n, v
<1>4. f \in [path : Seq(Texts), node : Value, via : D \cup {NoVia}]
  BY <1>3
<1> QED
  BY <1>2, <1>4 DEF SeenEntries

(* The paths that the verifier reports are those of what is seen. *)
LEMMA DisclosedSeen ==
  ASSUME InputOK, PathsApart, NEW d, NEW D, Carries(d, D), NEW q \in DisclosedClaims(d)
  PROVE  \E e \in SeenEntries(D) : e.path = q
<1> DEFINE N == Cardinality(Node)
           E == SeenEntries(D)
           first == Entry(<<>>, Root, NoVia)
           Grow(S) == UNION {{e} \cup VerifierUnder(d, e) : e \in S}
           G == [S \in SUBSET E |-> Grow(S)]
           step == [k \in Nat |-> G]
           Eqn(w) == w = [k \in 0..N |-> IF k = 0 THEN {first} ELSE Grow(w[k - 1])]
<1>1. N \in Nat
  BY NodesFinite, FS_CardinalityType
<1>2. \A S \in SUBSET E : Grow(S) \in SUBSET E
  BY VerifierUnderSeen
<1>3. first \in E
  <2>1. Root \in SeenWith(D) /\ Root \in Value
    BY ValuesAreDigests, BelowFacts DEF SeenWith
  <2>2. [path |-> <<>>, node |-> Root] \in Places
    BY PlaceFacts DEF PlaceRoot
  <2>3. first.path = <<>> /\ first.node = Root
    BY DEF Entry
  <2>4. SeenEntry(first, D)
    BY <2>1, <2>2, <2>3 DEF SeenEntry
  <2>5. first \in [path : Seq(Texts), node : Value, via : D \cup {NoVia}]
    BY <2>1 DEF Entry
  <2> QED
    BY <2>4, <2>5 DEF SeenEntries
<1>4. \E f : Eqn(f)
  <2> HIDE DEF N, E, first
  <2> SUFFICES \E f : f = [k \in 0..N |-> IF k = 0 THEN {first} ELSE Grow(f[k - 1])]
    OBVIOUS
  <2> HIDE DEF Grow
  <2>1. step \in [Nat -> [SUBSET E -> SUBSET E]]
    BY <1>2
  <2>2. {first} \in SUBSET E
    BY <1>3
  <2> HIDE DEF step
  <2>3. PICK f : PP!IsRecursion(f, SUBSET E, {first}, step, N)
    BY <1>1, <2>1, <2>2, PP!RecursionExists, Assumed
  <2>4. f \in [0..N -> SUBSET E] /\ f[0] = {first} /\ \A k \in 1..N : f[k] = step[k][f[k - 1]]
    BY <2>3 DEF PP!IsRecursion
  <2>5. \A k \in 1..N : f[k] = Grow(f[k - 1])
    <3> TAKE k \in 1..N
    <3>1. k - 1 \in 0..N /\ k \in Nat
      BY <1>1
    <3>2. f[k - 1] \in SUBSET E
      BY <2>4, <3>1
    <3>3. step[k][f[k - 1]] = Grow(f[k - 1])
      BY <3>1, <3>2 DEF step
    <3> QED
      BY <2>4, <3>3
  <2>6. \A k \in 0..N : f[k] = IF k = 0 THEN {first} ELSE Grow(f[k - 1])
    <3>1. \A k \in 0..N : k # 0 => k \in 1..N
      BY <1>1
    <3> QED
      BY <2>4, <2>5, <3>1
  <2>7. f = [k \in 0..N |-> IF k = 0 THEN {first} ELSE Grow(f[k - 1])]
    BY <2>4, <2>6
  <2> QED
    BY <2>7
<1>5. PICK w : Eqn(w) /\ DisclosedClaims(d) = {e.path : e \in {e \in w[N] : e.via # NoVia}}
  BY <1>4, Zenon DEF DisclosedClaims, VerifierUnder, ObjectEntries
<1>6. \A k \in 0..N : w[k] = IF k = 0 THEN {first} ELSE Grow(w[k - 1])
  BY <1>5, Zenon
<1> HIDE DEF N, E, first, Grow
<1> DEFINE M == {k \in Nat : k \in 0..N => w[k] \in SUBSET E}
<1>7. 0 \in M
  BY <1>1, <1>3, <1>6
<1>8. ASSUME NEW k \in Nat, k \in M PROVE k + 1 \in M
  <2> SUFFICES ASSUME k + 1 \in 0..N PROVE w[k + 1] \in SUBSET E
    OBVIOUS
  <2>1. k \in 0..N /\ k + 1 # 0 /\ (k + 1) - 1 = k
    BY <1>1
  <2>2. w[k] \in SUBSET E /\ w[k + 1] = Grow(w[k])
    BY <1>6, <1>8, <2>1
  <2> QED
    BY <1>2, <2>2
<1> HIDE DEF M
<1>9. w[N] \in SUBSET E
  <2>1. Nat \subseteq M
    BY <1>7, <1>8, Induction
  <2>2. N \in M /\ N \in 0..N
    BY <1>1, <2>1
  <2> QED
    BY <2>2 DEF M
<1> QED
  BY <1>5, <1>9 DEF E

-----------------------------------------------------------------------------
(* A required claim is found if the verifier sees it. *)

(* Up to its first index, a path that is seen is that of a place. *)
LEMMA NamedSeen ==
  ASSUME InputOK, NEW D, NEW e \in SeenEntries(D), NEW r \in Seq(Texts),
         \A j \in DOMAIN r : ~IsIndex(r[j]), IsPrefix(r, e.path)
  PROVE  \E x \in Places : x.node \in SeenWith(D) /\ IsPrefix(r, x.path)
<1> DEFINE B == SeenWith(D)
           p == e.path
<1>1. p \in Seq(Texts) /\ Len(p) \in Nat /\ Len(r) \in Nat /\ DOMAIN r = 1..Len(r)
  BY DEF SeenEntries
<1>2. e.node \in B /\ ([path |-> p, node |-> e.node] \in Places \/ Marked(p, B))
  BY DEF SeenEntries, SeenEntry
<1>3. ASSUME NEW s \in Seq(Texts)
      PROVE  IsPrefix(r, s) <=> Len(r) <= Len(s) /\ \A i \in 1..Len(r) : r[i] = s[i]
  BY <1>3, PrefixMeans
<1> HIDE DEF B
<1>4. CASE [path |-> p, node |-> e.node] \in Places
  BY <1>2, <1>4 DEF B
<1>5. CASE Marked(p, B)
  <2> HIDE DEF p
  <2>1. Len(r) <= Len(p) /\ \A i \in 1..Len(r) : r[i] = p[i]
    BY <1>1, <1>3 DEF p
  <2>2. PICK j \in 1..Len(p), x \in Places :
          /\ IsIndex(p[j]) /\ x.node \in B /\ j <= Len(x.path) + 1
          /\ \A i \in 1..Len(p) : i < j => p[i] = x.path[i]
    BY <1>5 DEF Marked
  <2>3. x.path \in Seq(Texts)
    BY PlaceFacts, WordsAreTexts
  <2>4. j \notin 1..Len(r)
    BY <1>1, <2>1, <2>2
  <2>5. Len(x.path) \in Nat
    BY <2>3
  <2>6. Len(r) <= Len(x.path) /\ \A i \in 1..Len(r) : i \in 1..Len(p) /\ i < j
    BY <1>1, <2>1, <2>2, <2>4, <2>5
  <2>7. IsPrefix(r, x.path)
    BY <1>3, <2>1, <2>2, <2>3, <2>6
  <2> QED
    BY <2>2, <2>7 DEF B
<1> QED
  BY <1>2, <1>4, <1>5

LEMMA SeenThere ==
  ASSUME InputOK, PathsApart, NEW D, NEW y \in Places, NEW x \in Places,
         x.node \in SeenWith(D), IsPrefix(y.path, x.path)
  PROVE  y.node \in SeenWith(D)
<1>1. x.node \in Inside(y.node)
  BY PathsMean
<1>2. y.node \in Value /\ y.node \in Inside(Root)
  BY PlaceFacts
<1> QED
  BY <1>1, <1>2, SeenAround DEF SeenWith

LEMMA RootClaimPlace ==
  ASSUME InputOK, NEW k \in DOMAIN Tree[Root].claims
  PROVE  [path |-> Words[k], node |-> Tree[Root].claims[k]] \in Places
<1>1. PlaceRoot \in Places /\ PlaceRoot.path = <<>> /\ PlaceRoot.node = Root
  BY PlaceFacts, RootIsPlace
<1>2. KeyHop(Root, k) \in Hops(PlaceRoot.node)
  BY <1>1 DEF Hops
<1>3. Words[k] \in Seq(Seq(STRING))
  BY ValuesAreDigests, TreeFacts, InputFacts, CnfIsName, NamesHaveWords
<1>4. Onto(PlaceRoot, KeyHop(Root, k)) = [path |-> <<>> \o Words[k], node |-> Tree[Root].claims[k]]
  BY <1>1 DEF Onto, KeyHop
<1>5. <<>> \o Words[k] = Words[k]
  BY <1>3
<1> QED
  BY <1>1, <1>2, <1>4, <1>5, OntoFacts

(* Of a name without dots, the claim is that of the object one word before. *)
LEMMA NextWord ==
  ASSUME InputOK, PathsApart, NEW y \in Places, NEW z \in Places, NEW w \in Texts,
         z.path = y.path \o <<w>>, ~IsIndex(w)
  PROVE  \E k \in DOMAIN Tree[y.node].claims : Words[k] = <<w>> /\ Tree[y.node].claims[k] = z.node
<1> DEFINE n == y.node
           one == <<w>>
<1>1. /\ y.path \in Seq(Texts) /\ z.path \in Seq(Texts) /\ one \in Seq(Texts)
      /\ Len(one) = 1 /\ one[1] = w /\ n \in Value /\ z.path = y.path \o one
  BY PlaceFacts, WordsAreTexts
<1> HIDE DEF one, n
<1>2. ASSUME NEW s \in Seq(Texts), NEW t \in Seq(Texts)
      PROVE  Len(s) \in Nat /\ Len(t) \in Nat /\ Len(s \o t) = Len(s) + Len(t)
  OBVIOUS
<1>3. Len(z.path) = Len(y.path) + 1 /\ Len(y.path) \in Nat /\ IsPrefix(y.path, z.path)
  <2>1. IsPrefix(y.path, y.path \o one)
    BY <1>1, PrefixFacts
  <2> QED
    BY <1>1, <1>2, <2>1
<1>4. z.node \in Inside(n) /\ z.node # n
  <2>1. z.node \in Inside(n)
    BY <1>3, PathsMean DEF n
  <2>2. z.node = n => z = y
    BY PlaceFacts DEF n
  <2> QED
    BY <1>3, <2>1, <2>2
<1>5. PICK h \in Hops(n) : z.node \in Inside(h.node)
  <2>1. PICK c \in Promise!Children(Tree, n) : z.node \in Inside(c)
    BY <1>1, <1>4, InsideSplit
  <2>2. \E h \in Hops(n) : h.node = c
    BY <1>1, HopFacts
  <2> QED
    BY <2>1, <2>2
<1> DEFINE u == Onto(y, h)
<1>6. u \in Places /\ u.node = h.node /\ u.path = y.path \o h.way
  BY OntoFacts DEF n
<1>7. h.way \in Seq(Texts) /\ h.way # <<>>
  BY <1>1, HopFacts, WordsAreTexts
<1> HIDE DEF u
<1>8. IsPrefix(u.path, z.path)
  BY <1>5, <1>6, PathsMean
<1>9. IsPrefix(h.way, one)
  BY <1>1, <1>6, <1>7, <1>8, PrefixFacts
<1>10. h.way = one
  <2>1. Len(h.way) <= Len(one) /\ (Len(h.way) = Len(one) => h.way = one)
    BY <1>1, <1>7, <1>9, PrefixFacts
  <2>2. Len(h.way) \in Nat /\ Len(h.way) # 0
    BY <1>7
  <2> QED
    BY <1>1, <2>1, <2>2
<1>11. z.node = h.node
  BY <1>1, <1>6, <1>10, PathsMean
<1>12. CASE \E k \in DOMAIN Tree[n].claims : h = KeyHop(n, k)
  BY <1>10, <1>11, <1>12 DEF KeyHop, n, one
<1>13. ASSUME NEW i \in DOMAIN Tree[n].items, h = ItemHop(n, i) PROVE FALSE
  <2>1. h.way = <<<<Index(i)>>>>
    BY <1>13 DEF ItemHop
  <2>2. w = <<Index(i)>>
    BY <1>1, <1>10, <2>1
  <2>3. i \in 1..Cardinality(Node)
    BY <1>1, <1>13, TreeFacts, ItemIndexes
  <2>4. w # <<>> /\ Last(w) = Index(i)
    BY <2>2 DEF Last
  <2> QED
    BY <2>3, <2>4 DEF IsIndex
<1> QED
  BY <1>12, <1>13 DEF Hops

(* The verifier sees the claims of an object that are not cut off. *)
LEMMA SightClaims ==
  ASSUME InputOK, NEW d \in Parts, NEW D, Carries(d, D), NEW m \in SeenWith(D)
  PROVE  /\ \A k : k \in DOMAIN Expected(d, m).claims
                  <=> k \in DOMAIN Tree[m].claims /\ Tree[m].claims[k] \in SeenWith(D)
         /\ \A k \in DOMAIN Expected(d, m).claims : Expected(d, m).claims[k] = Tree[m].claims[k]
<1> DEFINE B == SeenWith(D)
           t == Tree[m].claims
           kept == {k \in DOMAIN t : t[k] \in B}
<1>1. m \in B /\ Expected(d, m) = Promise!Cut(Tree, B)[m]
  BY CutExpected DEF SeenWith
<1> HIDE DEF B
<1>2. Promise!Cut(Tree, B)[m] = [claims |-> [k \in kept |-> t[k]], items |-> Kept(Tree[m].items, B)]
  BY <1>1, SameKept DEF Promise!Cut
<1>3. Expected(d, m).claims = [k \in kept |-> t[k]]
  BY <1>1, <1>2
<1> QED
  BY <1>3 DEF B

(* The claims one word on from the objects of S. *)
ClaimsNamed(d, m, w) ==
  {Expected(d, m).claims[k] : k \in {k \in DOMAIN Expected(d, m).claims : Words[k] = <<w>>}}
AllNamed(d, S, w) == UNION {ClaimsNamed(d, m, w) : m \in S}

ReachLayers(d, D, r, v) ==
  /\ \A i \in 0..Len(r) : v[i] \in SUBSET SeenWith(D)
  /\ v[0] = {Root}
  /\ \A i \in 1..Len(r) : v[i] = AllNamed(d, v[i - 1], r[i])
  /\ ClaimExists(d, r) <=> r # <<>> /\ v[Len(r)] # {}

LEMMA ReachExists ==
  ASSUME InputOK, NEW d \in Parts, NEW D, Carries(d, D), NEW r \in Seq(Texts)
  PROVE  \E v : ReachLayers(d, D, r, v)
<1> DEFINE B == SeenWith(D)
           N == Len(r)
           step == [k \in Nat |-> [S \in SUBSET B |-> AllNamed(d, S, r[k])]]
           Eqn(v) == v = [i \in 0..N |-> IF i = 0 THEN {Root} ELSE AllNamed(d, v[i - 1], r[i])]
<1>1. N \in Nat /\ Root \in B
  BY ValuesAreDigests, BelowFacts DEF SeenWith
<1>2. ASSUME NEW S \in SUBSET B, NEW w PROVE AllNamed(d, S, w) \in SUBSET B
  <2>1. \A m \in S : \A k \in DOMAIN Expected(d, m).claims : Expected(d, m).claims[k] \in B
    BY SightClaims
  <2> QED
    BY <2>1 DEF AllNamed, ClaimsNamed
<1> HIDE DEF B, N
<1>3. \E f : Eqn(f)
  <2> SUFFICES \E f : f = [i \in 0..N |-> IF i = 0 THEN {Root} ELSE AllNamed(d, f[i - 1], r[i])]
    OBVIOUS
  <2>1. step \in [Nat -> [SUBSET B -> SUBSET B]]
    BY <1>2
  <2>2. {Root} \in SUBSET B
    BY <1>1
  <2> HIDE DEF step
  <2>3. PICK f : PP!IsRecursion(f, SUBSET B, {Root}, step, N)
    BY <1>1, <2>1, <2>2, PP!RecursionExists, Assumed
  <2>4. f \in [0..N -> SUBSET B] /\ f[0] = {Root} /\ \A k \in 1..N : f[k] = step[k][f[k - 1]]
    BY <2>3 DEF PP!IsRecursion
  <2>5. \A k \in 1..N : f[k] = AllNamed(d, f[k - 1], r[k])
    <3> TAKE k \in 1..N
    <3>1. k - 1 \in 0..N /\ k \in Nat
      BY <1>1
    <3>2. f[k - 1] \in SUBSET B
      BY <2>4, <3>1
    <3>3. step[k][f[k - 1]] = AllNamed(d, f[k - 1], r[k])
      BY <3>1, <3>2 DEF step
    <3> QED
      BY <2>4, <3>3
  <2>6. \A k \in 0..N : f[k] = IF k = 0 THEN {Root} ELSE AllNamed(d, f[k - 1], r[k])
    <3>1. \A k \in 0..N : k # 0 => k \in 1..N
      BY <1>1
    <3> QED
      BY <2>4, <2>5, <3>1
  <2>7. f = [i \in 0..N |-> IF i = 0 THEN {Root} ELSE AllNamed(d, f[i - 1], r[i])]
    BY <2>4, <2>6
  <2> QED
    BY <2>7
<1>4. PICK v : Eqn(v) /\ (ClaimExists(d, r) <=> r # <<>> /\ v[N] # {})
  BY <1>3, Zenon DEF ClaimExists, AllNamed, ClaimsNamed, N
<1>5. \A i \in 0..N : v[i] = IF i = 0 THEN {Root} ELSE AllNamed(d, v[i - 1], r[i])
  BY <1>4, Zenon
<1>6. v[0] = {Root} /\ \A i \in 1..N : v[i] = AllNamed(d, v[i - 1], r[i])
  <2>1. 0 \in 0..N /\ \A i \in 1..N : i \in 0..N /\ i # 0
    BY <1>1
  <2> QED
    BY <1>5, <2>1
<1> DEFINE M == {k \in Nat : k \in 0..N => v[k] \in SUBSET B}
<1>7. 0 \in M
  BY <1>1, <1>6
<1>8. ASSUME NEW k \in Nat, k \in M PROVE k + 1 \in M
  <2> SUFFICES ASSUME k + 1 \in 0..N PROVE v[k + 1] \in SUBSET B
    OBVIOUS
  <2>1. k \in 0..N /\ k + 1 \in 1..N /\ (k + 1) - 1 = k
    BY <1>1
  <2>2. v[k] \in SUBSET B /\ v[k + 1] = AllNamed(d, v[k], r[k + 1])
    BY <1>6, <1>8, <2>1
  <2> QED
    BY <1>2, <2>2
<1> HIDE DEF M
<1>9. \A i \in 0..N : v[i] \in SUBSET B
  <2>1. Nat \subseteq M
    BY <1>7, <1>8, Induction
  <2> QED
    BY <1>1, <2>1 DEF M
<1>10. ReachLayers(d, D, r, v)
  BY <1>4, <1>6, <1>9 DEF ReachLayers, B, N
<1> QED
  BY <1>10

(* The prefixes of a path, word by word. *)
LEMMA WordByWord ==
  ASSUME NEW r \in Seq(Texts)
  PROVE  /\ SubSeq(r, 1, 0) = <<>> /\ SubSeq(r, 1, Len(r)) = r
         /\ \A i \in 0..Len(r) : SubSeq(r, 1, i) \in Seq(Texts) /\ IsPrefix(SubSeq(r, 1, i), r)
         /\ \A i \in 1..Len(r) : /\ r[i] \in Texts
                                 /\ SubSeq(r, 1, i) = SubSeq(r, 1, i - 1) \o <<r[i]>>
<1>1. Len(r) \in Nat /\ \A i \in 1..Len(r) : r[i] \in Texts
  OBVIOUS
<1>2. SubSeq(r, 1, 0) = <<>> /\ SubSeq(r, 1, Len(r)) = r
  OBVIOUS
<1>3. ASSUME NEW i \in 0..Len(r)
      PROVE  /\ SubSeq(r, 1, i) \in Seq(Texts) /\ Len(SubSeq(r, 1, i)) = i
             /\ \A j \in 1..i : SubSeq(r, 1, i)[j] = r[j]
  BY <1>1
<1>4. ASSUME NEW i \in 0..Len(r) PROVE IsPrefix(SubSeq(r, 1, i), r)
  <2> DEFINE s == SubSeq(r, 1, i)
  <2>1. s \in Seq(Texts) /\ Len(s) = i /\ \A j \in 1..i : s[j] = r[j]
    BY <1>3
  <2> HIDE DEF s
  <2>2. Len(s) <= Len(r) /\ \A j \in 1..Len(s) : s[j] = r[j]
    BY <1>1, <2>1
  <2>3. IsPrefix(s, r)
    BY <2>1, <2>2, PrefixMeans
  <2> QED
    BY <2>3 DEF s
<1>5. ASSUME NEW i \in 1..Len(r) PROVE SubSeq(r, 1, i) = SubSeq(r, 1, i - 1) \o <<r[i]>>
  <2> DEFINE s == SubSeq(r, 1, i)
             t == SubSeq(r, 1, i - 1)
             w == r[i]
  <2>1. i - 1 \in 0..Len(r) /\ i \in 0..Len(r) /\ i \in Nat /\ i - 1 \in Nat
    BY <1>1
  <2>2. /\ s \in Seq(Texts) /\ Len(s) = i /\ \A j \in 1..i : s[j] = r[j]
        /\ t \in Seq(Texts) /\ Len(t) = i - 1 /\ \A j \in 1..i - 1 : t[j] = r[j]
        /\ w \in Texts
    BY <1>1, <1>3, <2>1
  <2>3. s[i] = w
    BY <2>1, <2>2
  <2> HIDE DEF s, t, w
  <2>4. /\ t \o <<w>> \in Seq(Texts) /\ Len(t \o <<w>>) = i
        /\ \A j \in 1..i - 1 : (t \o <<w>>)[j] = t[j]
        /\ (t \o <<w>>)[i] = w
    BY <2>1, <2>2
  <2>5. \A j \in 1..i : s[j] = (t \o <<w>>)[j]
    <3> TAKE j \in 1..i
    <3>1. j = i \/ j \in 1..i - 1
      BY <2>1
    <3> QED
      BY <2>2, <2>3, <2>4, <3>1
  <2> DEFINE x == t \o <<w>>
  <2> HIDE DEF x
  <2>6. s = x
    BY <2>1, <2>2, <2>4, <2>5 DEF x
  <2> QED
    BY <2>6 DEF s, t, w, x
<1>6. \A i \in 0..Len(r) : SubSeq(r, 1, i) \in Seq(Texts) /\ IsPrefix(SubSeq(r, 1, i), r)
  BY <1>3, <1>4
<1>7. \A i \in 1..Len(r) : r[i] \in Texts /\ SubSeq(r, 1, i) = SubSeq(r, 1, i - 1) \o <<r[i]>>
  BY <1>1, <1>5
<1> QED
  BY <1>2, <1>6, <1>7

LEMMA ClaimPlace ==
  ASSUME InputOK, NEW d \in Parts, NEW D, Carries(d, D), NEW y \in Places, y.node \in SeenWith(D),
         NEW k \in DOMAIN Expected(d, y.node).claims
  PROVE  [path |-> y.path \o Words[k], node |-> Expected(d, y.node).claims[k]] \in Places
<1> DEFINE n == y.node
<1>1. k \in DOMAIN Tree[n].claims /\ Expected(d, n).claims[k] = Tree[n].claims[k]
  BY SightClaims
<1>2. KeyHop(n, k) \in Hops(y.node)
  BY <1>1 DEF Hops
<1>3. Onto(y, KeyHop(n, k)) = [path |-> y.path \o Words[k], node |-> Expected(d, n).claims[k]]
  BY <1>1 DEF Onto, KeyHop
<1> QED
  BY <1>2, <1>3, OntoFacts

(* A claim that is found from object to object is one of the tree. *)
LEMMA ReachSound ==
  ASSUME InputOK, NEW d \in Parts, NEW D, Carries(d, D), NEW r \in Seq(Texts), ClaimExists(d, r)
  PROVE  \E y \in Places : y.path = r /\ y.node \in SeenWith(D)
<1> DEFINE B == SeenWith(D)
           N == Len(r)
           Led(i, m) == \E y \in Places : y.node = m /\ y.path = SubSeq(r, 1, i)
<1>1. PICK v : ReachLayers(d, D, r, v)
  BY ReachExists
<1>2. /\ \A i \in 0..N : v[i] \in SUBSET B
      /\ v[0] = {Root} /\ v[N] # {}
      /\ \A i \in 1..N : v[i] = AllNamed(d, v[i - 1], r[i])
  BY <1>1 DEF ReachLayers
<1>3. N \in Nat
  OBVIOUS
<1> HIDE DEF B, N
<1> DEFINE M == {i \in Nat : i \in 0..N => \A m \in v[i] : Led(i, m)}
<1>4. 0 \in M
  <2>1. Led(0, Root)
    BY PlaceFacts, RootIsPlace, WordByWord
  <2> QED
    BY <1>2, <2>1
<1>5. ASSUME NEW i \in Nat, i \in M PROVE i + 1 \in M
  <2> SUFFICES ASSUME i + 1 \in 0..N, NEW c \in v[i + 1] PROVE Led(i + 1, c)
    OBVIOUS
  <2>1. i \in 0..N /\ i + 1 \in 1..N /\ (i + 1) - 1 = i
    BY <1>3
  <2>2. v[i] \in SUBSET B /\ v[i + 1] = AllNamed(d, v[i], r[i + 1])
    BY <1>2, <2>1
  <2>3. PICK m \in v[i] : c \in ClaimsNamed(d, m, r[i + 1])
    BY <2>2 DEF AllNamed
  <2>4. PICK k \in DOMAIN Expected(d, m).claims :
          c = Expected(d, m).claims[k] /\ Words[k] = <<r[i + 1]>>
    BY <2>3 DEF ClaimsNamed
  <2>5. PICK y \in Places : y.node = m /\ y.path = SubSeq(r, 1, i)
    BY <1>5, <2>1, <2>3
  <2>6. [path |-> y.path \o Words[k], node |-> c] \in Places
    BY <2>2, <2>4, <2>5, ClaimPlace DEF B
  <2>7. SubSeq(r, 1, i + 1) = SubSeq(r, 1, i) \o <<r[i + 1]>>
    BY <2>1, WordByWord DEF N
  <2>8. [path |-> SubSeq(r, 1, i + 1), node |-> c] \in Places
    BY <2>4, <2>5, <2>6, <2>7
  <2> QED
    BY <2>8
<1> HIDE DEF M
<1>6. \A m \in v[N] : Led(N, m)
  <2>1. Nat \subseteq M
    BY <1>4, <1>5, Induction
  <2>2. N \in M /\ N \in 0..N
    BY <1>3, <2>1
  <2> QED
    BY <2>2 DEF M
<1>7. PICK m \in v[N] : m \in B
  <2>1. N \in 0..N
    BY <1>3
  <2> QED
    BY <1>2, <2>1
<1>8. SubSeq(r, 1, N) = r
  BY WordByWord DEF N
<1> QED
  BY <1>6, <1>7, <1>8 DEF B

(* A claim whose objects are all named on the way to it is found. *)
LEMMA ReachComplete ==
  ASSUME InputOK, PathsApart, NEW d \in Parts, NEW D, Carries(d, D),
         NEW r \in Seq(Texts), r # <<>>, \A j \in DOMAIN r : ~IsIndex(r[j]),
         \A j \in DOMAIN r : SubSeq(r, 1, j) \in Paths,
         NEW y \in Places, y.path = r, y.node \in SeenWith(D)
  PROVE  ClaimExists(d, r)
<1> DEFINE B == SeenWith(D)
           N == Len(r)
           Met(i, S) == \E x \in Places : x.path = SubSeq(r, 1, i) /\ x.node \in S
<1>1. PICK v : ReachLayers(d, D, r, v)
  BY ReachExists
<1>2. /\ \A i \in 0..N : v[i] \in SUBSET B
      /\ v[0] = {Root}
      /\ \A i \in 1..N : v[i] = AllNamed(d, v[i - 1], r[i])
      /\ v[N] # {} => ClaimExists(d, r)
  BY <1>1 DEF ReachLayers
<1>3. N \in Nat /\ DOMAIN r = 1..N
  OBVIOUS
<1> HIDE DEF B, N
<1> DEFINE M == {i \in Nat : i \in 0..N => Met(i, v[i])}
<1>4. 0 \in M
  <2>1. Met(0, {Root})
    BY PlaceFacts, RootIsPlace, WordByWord
  <2> QED
    BY <1>2, <2>1
<1>5. ASSUME NEW i \in Nat, i \in M PROVE i + 1 \in M
  <2> SUFFICES ASSUME i + 1 \in 0..N PROVE Met(i + 1, v[i + 1])
    OBVIOUS
  <2>1. i \in 0..N /\ i + 1 \in 1..N /\ i + 1 \in 0..N /\ (i + 1) - 1 = i
    BY <1>3
  <2>2. v[i] \in SUBSET B /\ v[i + 1] = AllNamed(d, v[i], r[i + 1])
    BY <1>2, <2>1
  <2>3. PICK x \in Places : x.path = SubSeq(r, 1, i) /\ x.node \in v[i]
    BY <1>5, <2>1
  <2>4. PICK z \in Places : z.path = SubSeq(r, 1, i + 1)
    <3>1. SubSeq(r, 1, i + 1) \in Paths
      BY <1>3, <2>1
    <3> QED
      BY <3>1 DEF Paths
  <2>5. /\ r[i + 1] \in Texts /\ SubSeq(r, 1, i + 1) = SubSeq(r, 1, i) \o <<r[i + 1]>>
        /\ IsPrefix(SubSeq(r, 1, i + 1), r)
    BY <2>1, WordByWord DEF N
  <2>6. PICK k \in DOMAIN Tree[x.node].claims :
          Words[k] = <<r[i + 1]>> /\ Tree[x.node].claims[k] = z.node
    <3>1. ~IsIndex(r[i + 1])
      BY <1>3, <2>1
    <3>2. z.path = x.path \o <<r[i + 1]>>
      BY <2>3, <2>4, <2>5
    <3> QED
      BY <2>5, <3>1, <3>2, NextWord
  <2>7. z.node \in B
    BY <2>4, <2>5, SeenThere DEF B
  <2>8. k \in DOMAIN Expected(d, x.node).claims /\ Expected(d, x.node).claims[k] = z.node
    BY <2>2, <2>3, <2>6, <2>7, SightClaims DEF B
  <2>9. z.node \in AllNamed(d, v[i], r[i + 1])
    BY <2>3, <2>6, <2>8 DEF AllNamed, ClaimsNamed
  <2> QED
    BY <2>2, <2>4, <2>9
<1> HIDE DEF M
<1>6. Met(N, v[N])
  <2>1. Nat \subseteq M
    BY <1>4, <1>5, Induction
  <2>2. N \in M /\ N \in 0..N
    BY <1>3, <2>1
  <2> QED
    BY <2>2 DEF M
<1> QED
  BY <1>2, <1>6

(* How a required path names a claim. *)
Named(r) ==
  /\ r \in Seq(Seq(STRING)) \ {<<>>}
  /\ \A j \in DOMAIN r : ~IsIndex(r[j])
  /\ (\E p \in Paths : IsPrefix(r, p)) =>
       \/ \E k \in DOMAIN Tree[Root].claims : Words[k] = r
       \/ \A j \in DOMAIN r : SubSeq(r, 1, j) \in Paths

LEMMA FoundExact ==
  ASSUME InputOK, PathsApart, NEW d \in Parts, NEW D, Carries(d, D), NEW r, Named(r)
  PROVE  Found(d, r) <=> At({r}) \cap SeenWith(D) # {}
<1> DEFINE B == SeenWith(D)
<1>1. /\ r \in Seq(Texts) /\ r # <<>> /\ Len(r) \in DOMAIN r /\ SubSeq(r, 1, Len(r)) = r
      /\ IsPrefix(r, r) /\ \A j \in DOMAIN r : ~IsIndex(r[j])
  <2>1. r \in Seq(Texts) /\ r # <<>> /\ \A j \in DOMAIN r : ~IsIndex(r[j])
    BY WordsAreTexts DEF Named
  <2>2. Len(r) \in DOMAIN r
    BY <2>1
  <2> QED
    BY <2>1, <2>2, WordByWord, PrefixFacts
<1>2. At({r}) \cap B # {} <=> \E y \in Places : y.path = r /\ y.node \in B
  BY DEF At
<1>3. Root \in B
  BY ValuesAreDigests, BelowFacts DEF SeenWith
<1> HIDE DEF B
<1>4. ASSUME NEW q \in DisclosedClaims(d), IsPrefix(r, q)
      PROVE  \E y \in Places : y.path = r /\ y.node \in B
  <2>1. PICK e \in SeenEntries(D) : e.path = q
    BY DisclosedSeen
  <2>2. PICK x \in Places : x.node \in B /\ IsPrefix(r, x.path)
    BY <1>1, <1>4, <2>1, NamedSeen DEF B
  <2>3. PICK y \in Places : y.path = r
    <3>1. \E p \in Paths : IsPrefix(r, p)
      BY <2>2 DEF Paths
    <3>2. CASE \E k \in DOMAIN Tree[Root].claims : Words[k] = r
      BY <3>2, RootClaimPlace
    <3>3. CASE \A j \in DOMAIN r : SubSeq(r, 1, j) \in Paths
      BY <1>1, <3>3 DEF Paths
    <3> QED
      BY <3>1, <3>2, <3>3 DEF Named
  <2> QED
    BY <2>2, <2>3, SeenThere DEF B
<1>5. ASSUME NEW k \in DOMAIN Expected(d, Root).claims, Words[k] = r
      PROVE  \E y \in Places : y.path = r /\ y.node \in B
  <2>1. k \in DOMAIN Tree[Root].claims /\ Tree[Root].claims[k] \in B
    BY <1>3, SightClaims DEF B
  <2> QED
    BY <1>5, <2>1, RootClaimPlace
<1>6. ASSUME NEW y \in Places, y.path = r, y.node \in B PROVE Found(d, r)
  <2>1. r \in Paths
    BY <1>6 DEF Paths
  <2>2. CASE \E k \in DOMAIN Tree[Root].claims : Words[k] = r
    <3>1. PICK k \in DOMAIN Tree[Root].claims : Words[k] = r
      BY <2>2
    <3>2. [path |-> r, node |-> Tree[Root].claims[k]] = y
      BY <1>6, <3>1, RootClaimPlace, PathsMean
    <3>3. Tree[Root].claims[k] \in B
      BY <1>6, <3>2
    <3>4. k \in DOMAIN Expected(d, Root).claims
      BY <1>3, <3>3, SightClaims DEF B
    <3> QED
      BY <3>1, <3>4 DEF Found
  <2>3. CASE \A j \in DOMAIN r : SubSeq(r, 1, j) \in Paths
    <3>1. ClaimExists(d, r)
      BY <1>1, <1>6, <2>3, ReachComplete DEF B
    <3> QED
      BY <3>1 DEF Found
  <2> QED
    BY <1>1, <2>1, <2>2, <2>3 DEF Named
<1>7. ClaimExists(d, r) => \E y \in Places : y.path = r /\ y.node \in B
  BY <1>1, ReachSound DEF B
<1>8. Found(d, r) => \E y \in Places : y.path = r /\ y.node \in B
  BY <1>4, <1>5, <1>7 DEF Found
<1> QED
  BY <1>2, <1>6, <1>8 DEF B

LEMMA VerifyMissing ==
  ASSUME ReadInv, PathsApart, RequiredByName, ShowInv, NEW keys \in Required, Verify(keys)
  PROVE  MissingExact'
<1> DEFINE D == OpenedBy(request)
           d == Received
<1>1. InputOK /\ CanIssue /\ sdjwt = Pack /\ stage = "selected"
  BY DEF ReadInv, IInv, IssueInv, Verify
<1>2. Discloses(presented, D)
  BY <1>1 DEF ShowInv
<1>3. D \subseteq frame.sd
  BY DEF OpenedBy
<1>4. d = Parsed([Pack EXCEPT !.disclosures = presented])
  BY <1>1 DEF Received
<1> HIDE DEF D, d
<1>5. d \in Parts /\ Carries(d, D)
  BY <1>1, <1>2, <1>3, <1>4, ParsedCarries
<1>6. Revealed(d) = SeenWith(D)
  BY <1>1, <1>5, CarriedRevealed DEF SeenWith
<1>7. ~error' /\ required' = RequiredNames(keys) /\ input' = input /\ UNCHANGED <<sdjwt, presented>>
  BY VerifyShows DEF Verify
<1>8. missing' = {r \in required' : ~Found(d, r)}
  BY <1>7 DEF Verify, d
<1>9. \A r \in required' : Named(r)
  BY <1>7, RequiredAreWords DEF RequiredByName, Named
<1>10. \A r \in required' : r \in missing' <=> At({r}) \cap Revealed(d) = {}
  BY <1>1, <1>5, <1>6, <1>8, <1>9, FoundExact
<1>11. Received' = d
  BY <1>7 DEF Received, Parsed, d
<1>12. Revealed(Received)' = Revealed(d)
  BY <1>11 DEF Revealed
<1>13. ASSUME NEW r PROVE At({r})' = At({r})
  BY <1>7, PlacesStay DEF At
<1> QED
  BY <1>10, <1>12, <1>13 DEF MissingExact

LEMMA RequiredStays ==
  ASSUME input' = input
  PROVE  RequiredByName' = RequiredByName
<1>1. Tree' = Tree /\ Places' = Places
  BY InputStays, PlacesStay
<1> QED
  BY <1>1 DEF RequiredByName, Paths

(***************************************************************************)
(* The verifier's verdict on required claims: where they are required by   *)
(* their names, a claim is missing exactly if nothing that the verifier    *)
(* sees is at its path.  Neither the paths that validateRequiredClaims     *)
(* takes from processing, elements by "[i]", nor its search from object to *)
(* object find more or less than that.                                     *)
(***************************************************************************)
THEOREM MissingIsExact == PathSpec /\ RequiredByName => []MissingExact
<1> DEFINE Inv == ReadInv /\ PathsApart /\ RequiredByName /\ WalkInv /\ ShowInv /\ MissingExact
<1>1. Init /\ PathsApart /\ RequiredByName => Inv
  <2>1. Init => ReadInv /\ ShowInv /\ MissingExact
    BY InitIInv DEF Init, Start, ReadInv, ShowInv, MissingExact
  <2> QED
    BY <2>1, InitWalkInv
<1>2. Inv /\ [Next /\ AsInMemory]_vars => Inv'
  <2> SUFFICES ASSUME Inv, [Next /\ AsInMemory]_vars PROVE Inv'
    OBVIOUS
  <2>1. ReadInv' /\ WalkInv' /\ ShowInv'
    BY NextReadInv, NextWalkInv, NextShowInv
  <2>2. input' = input
    BY DEF Next, vars, IssueWithFrame, NewHolder, ParseAndCreateHolder, CreateHolder,
           WalkPayloadForKeys, SelectWithFrame, Verify
  <2>3. PathsApart' /\ RequiredByName'
    BY <2>2, PlacesStay, RequiredStays
  <2>4. MissingExact'
    <3>1. CASE stage' # "verified"
      BY <3>1 DEF MissingExact
    <3>2. CASE \E keys \in Required : Verify(keys)
      BY <3>2, VerifyMissing
    <3>3. CASE UNCHANGED vars
      <4>1. Received' = Received /\ Places' = Places
        BY <2>2, <3>3, PlacesStay DEF vars, Received, Parsed
      <4>2. Revealed(Received)' = Revealed(Received)
        BY <4>1 DEF Revealed
      <4>3. ASSUME NEW r PROVE At({r})' = At({r})
        BY <4>1 DEF At
      <4> QED
        BY <3>3, <4>2, <4>3 DEF vars, MissingExact
    <3>4. CASE IssueWithFrame \/ NewHolder \/ ParseAndCreateHolder \/ WalkPayloadForKeys
                 \/ \E keys \in Requests : SelectWithFrame(keys)
      <4>1. stage' # "verified"
        BY <3>4 DEF IssueWithFrame, NewHolder, ParseAndCreateHolder, CreateHolder,
                    WalkPayloadForKeys, SelectWithFrame
      <4> QED
        BY <3>1, <4>1
    <3> QED
      BY <3>2, <3>3, <3>4 DEF Next
  <2> QED
    BY <2>1, <2>3, <2>4
<1> QED
  BY <1>1, <1>2, PTL DEF PathSpec, ReadSpec
=============================================================================
