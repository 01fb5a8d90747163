-------------------------- MODULE MCProcessPayload --------------------------
(***************************************************************************)
(* A family of documents for ProcessPayload: a root object with nested     *)
(* values under "x" and "z" or none, digests of two disclosures and of a   *)
(* decoy anywhere in it, repeated or not, two disclosed values that may    *)
(* embed their own digest or each other's, also in a cycle, and any        *)
(* presented list of up to two disclosures of either shape with clashing,  *)
(* reserved and ordinary names.                                            *)
(***************************************************************************)
EXTENDS ProcessPayload

MCNode == {"root", "a", "b", "v1", "v2", "e", "f", "p1", "p2"}
MCName == {"x", "y", "z", "_sd"}
MCDigest == {"g1", "g2", "decoy"}
MCAlg == {"sha-256", "sha-512", "md5"}
MCSupported == {"sha-256", "sha-512"}

Lists(S, n) == UNION {[1..k -> S] : k \in 0..n}

(* A value: its kind, the digests it embeds, its items, its defect. *)
Prim == [kind |-> "prim", sd |-> <<>>, items |-> <<>>, malformed |-> FALSE]
Obj(list) == [Prim EXCEPT !.kind = "obj", !.sd = list]
Arr(list) == [Prim EXCEPT !.kind = "arr", !.items = list]

RootValues == {Obj(s) : s \in Lists(MCDigest, 2)}
InnerValues == {Prim} \cup {Obj(s) : s \in Lists({"g1", "g2"}, 1)}
                      \cup {Arr(<<>>), Arr(<<"p1">>), Arr(<<"p1", "p1">>),
                            Arr(<<"e", "p1", "p2">>), Arr(<<"p2", "p1", "e">>)}
SecondValues == {Prim, Obj(<<"g2">>)}
Value1 == {Prim, Obj(<<"g2">>), Obj(<<"g1">>), Arr(<<"f", "p2">>)}
Value2 == {Prim, Obj(<<"g1">>), [Obj(<<>>) EXCEPT !.malformed = TRUE], [Prim EXCEPT !.kind = "ph"]}

D(g, v, arr, nm) == [digest |-> g, isArray |-> arr, name |-> nm, value |-> v]
D1 == {D("g1", "v1", TRUE, "x"), D("g1", "v1", FALSE, "x"), D("g1", "v1", FALSE, "y")}
D2 == {D("g2", "v2", TRUE, "x"), D("g2", "v2", FALSE, "y"), D("g2", "v2", FALSE, "_sd")}
DisclosureLists == {<<>>} \cup {<<d>> : d \in D1 \cup D2} \cup (D1 \X D2)
                          \cup {<<d, d>> : d \in {D("g1", "v1", FALSE, "y")}}

(* placeholderBad: p1 carries a second key. *)
Doc(rootValue, keys, a, b, v1, v2, placeholderBad, list, sdAlg, provided) ==
  LET val == [n \in MCNode |-> CASE n = "root" -> rootValue [] n = "a" -> a [] n = "b" -> b
                                 [] n = "v1" -> v1 [] n = "v2" -> v2
                                 [] n \in {"e", "f"} -> Prim
                                 [] OTHER -> [Prim EXCEPT !.kind = "ph"]]
  IN  [kind |-> [n \in MCNode |-> val[n].kind],
       props |-> [n \in MCNode |-> IF n = "root" THEN [k \in keys |-> IF k = "x" THEN "a" ELSE "b"]
                                   ELSE IF n = "v1" /\ v1.kind = "obj" THEN [k \in {"x"} |-> "f"]
                                   ELSE <<>>],
       sd |-> [n \in MCNode |-> val[n].sd],
       items |-> [n \in MCNode |-> val[n].items],
       hides |-> [n \in MCNode |-> IF n = "p2" THEN "g2" ELSE "g1"],
       malformed |-> [n \in MCNode |-> (n = "p1" /\ placeholderBad) \/ val[n].malformed],
       disclosures |-> list, sdAlg |-> sdAlg, provided |-> provided]

MCInit ==
  /\ \E v1 \in Value1, v2 \in Value2, list \in DisclosureLists :
       \/ \E r \in RootValues, a \in InnerValues, b \in SecondValues :
            doc = Doc(r, {"x", "z"}, a, b, v1, v2, FALSE, list, "sha-256", "")
       \/ \E r \in RootValues :
            doc = Doc(r, {}, Prim, Prim, v1, v2, FALSE, list, "", "sha-256")
       \/ \E a \in InnerValues :
            doc = Doc(Obj(<<"g2">>), {"x"}, a, Prim, v1, v2, TRUE, list, "sha-256", "sha-256")
       \/ \E s \in MCAlg \cup {"", "bad"}, p \in MCAlg \cup {""} :
            doc = Doc(Obj(<<"g1">>), {"x"}, Prim, Prim, v1, v2, FALSE, list, s, p)
  /\ Start

(* A call that has returned stays so; one that is running must not be stuck. *)
Returned == status \in {"ok", "error"} /\ UNCHANGED vars

MCSpec == MCInit /\ [][Next \/ Returned]_vars
=============================================================================
