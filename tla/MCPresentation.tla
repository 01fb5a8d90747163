---------------------------- MODULE MCPresentation ----------------------------
(***************************************************************************)
(* A small claim tree for Presentation,                                    *)
(*                                                                         *)
(*   root: { "a": { "b": b, "c": [e1, e2] }, "d.e": d }                     *)
(*                                                                         *)
(* with any disclosure frame on root, a and c, a decoy in a and in c.      *)
(***************************************************************************)
EXTENDS Presentation

MCValue == {"root", "a", "b", "c", "d", "e1", "e2", "key"}
MCDigest == MCValue \cup {"decoy1", "decoy2"}
MCHole == [g \in MCDigest |-> "..." \o g]
MCNode == MCValue \cup Range(MCHole)
MCName == {"a", "b", "c", "d.e", "cnf", "_sd"}
MCWords ==
  [k \in MCName \cup {"0", "1", "d", "e", "d.x"} |->
     CASE k = "d.e" -> <<<<"d">>, <<"e">>>>
       [] k = "d.x" -> <<<<"d">>, <<"x">>>>
       [] OTHER -> <<<<k>>>>]

MCClaims(root, a) ==
  [kind  |-> [n \in MCValue |-> CASE n = "c" -> "arr" [] n \in {"root", "a"} -> "obj" [] OTHER -> "prim"],
   props |-> [n \in MCValue |-> CASE n = "root" -> root [] n = "a" -> a [] OTHER -> <<>>],
   items |-> [n \in MCValue |-> IF n = "c" THEN <<"e1", "e2">> ELSE <<>>]]

Nested == MCClaims([k \in {"a", "d.e"} |-> IF k = "a" THEN "a" ELSE "d"], [k \in {"b", "c"} |-> k])
Reserved == MCClaims([k \in {"a"} |-> "a"], [k \in {"_sd"} |-> "b"])

(* The values that a frame on the values in framed can make disclosable. *)
Disclosable(c, framed) == UNION {Range(c.props[n]) \cup Range(c.items[n]) : n \in framed}

FrameOf(framed, sd, decoys) ==
  [framed |-> framed, sd |-> sd,
   decoys |-> [n \in MCValue |-> CASE decoys /\ n = "a" /\ n \in framed -> {"decoy1"}
                                   [] decoys /\ n = "c" /\ n \in framed -> {"decoy2"}
                                   [] OTHER -> {}]]

(* Two orders of the hash values. *)
Up == <<"a", "b", "c", "d", "decoy1", "e1", "decoy2", "e2">>
Orders == {Up, Reverse(Up)}

Inputs(c, framed, algs, keys, decoys) ==
  {[claims |-> c, frame |-> FrameOf(framed, sd, y), alg |-> g, holderKey |-> k, order |-> o] :
     sd \in SUBSET Disclosable(c, framed), g \in algs, k \in keys, y \in decoys, o \in Orders}

Framings == {{}, {"root"}, {"root", "a"}, {"root", "a", "c"}}

MCKeys ==
  {<<"a">>, <<"a", "b">>, <<"a", "c">>, <<"d.e">>, <<"a", "c", "0">>, <<"a", "c", "1">>}
MCRequests == {Everything} \cup {S \in SUBSET MCKeys : Cardinality(S) <= 2}
MCRequired == {{<<"a", "b">>}, {<<"a", "c">>}, {<<"d", "e">>}, {<<"d.x">>, <<"d.e">>}, {<<"b">>}}

MCInit ==
  /\ input \in UNION {Inputs(Nested, f, {"sha-256"}, {TRUE}, BOOLEAN) : f \in Framings}
            \cup Inputs(Nested, {"root"}, {"sha-256", "sha-512", "md5"}, BOOLEAN, {TRUE})
            \cup Inputs(Reserved, {"root", "a"}, {"sha-256"}, {FALSE}, {FALSE})
  /\ Start /\ PathsApart /\ RequiredByName

(* MemorySpec has the cases that AsInMemory leaves out. *)
MCSpec == MCInit /\ [][Next /\ AsInMemory]_vars

(* An array with a disclosable element is inside a disclosable object. *)
MemoryInit ==
  /\ input = [claims |-> Nested, frame |-> FrameOf({"root", "a", "c"}, {"a", "e1"}, FALSE),
              alg |-> "sha-256", holderKey |-> TRUE, order |-> Up]
  /\ Start

MemorySpec == MemoryInit /\ [][Next]_vars
=============================================================================
