------------------------ MODULE SelectiveDisclosure ------------------------
(***************************************************************************)
(* What an SD-JWT promises, with no JWT, digest, path or disclosure in it. *)
(* An issuer makes some of the values of a tree secret.  The holder asks   *)
(* for some of the secrets.  The verifier then sees the tree cut off at    *)
(* every secret that was not asked for and holds nothing asked for.        *)
(***************************************************************************)
EXTENDS FiniteSets, SequencesExt, Lists

CONSTANTS Value, Root

VARIABLES stage,    \* "draft", "refused", "issued", "asked", "shown"
          tree,     \* claims and items of each value
          secret,   \* the values made selectively disclosable
          asked,    \* the secrets that the holder asks for
          view      \* the tree that the verifier sees

vars == <<stage, tree, secret, asked, view>>

Nothing == [n \in {} |-> n]

Children(t, n) == Range(t[n].claims) \cup Range(t[n].items)

(* The values of t reached from n without going through the set cut. *)
Below(t, n, cut) ==
  LET within[k \in 0..Cardinality(Value)] ==
        IF k = 0
          THEN {n}
          ELSE UNION {{m} \cup (Children(t, m) \ cut) : m \in within[k - 1]}
  IN  within[Cardinality(Value)]

(* A secret is opened if it, or a secret anywhere inside it, is asked for. *)
Opened(t, secrets, wanted) == {s \in secrets : Below(t, s, {}) \cap wanted # {}}

Cut(t, S) ==
  [n \in S |-> LET kept == {k \in DOMAIN t[n].claims : t[n].claims[k] \in S}
               IN  [claims |-> [k \in kept |-> t[n].claims[k]],
                    items  |-> Kept(t[n].items, S)]]

Init ==
  /\ stage = "draft"
  /\ DOMAIN tree = Value /\ \A n \in Value : Children(tree, n) \subseteq Value \ {Root}
  /\ secret \subseteq Value \ {Root}
  /\ asked = {} /\ view = Nothing

Issue == stage = "draft" /\ stage' = "issued" /\ UNCHANGED <<tree, secret, asked, view>>

Refuse == stage = "draft" /\ stage' = "refused" /\ UNCHANGED <<tree, secret, asked, view>>

Ask ==
  /\ stage = "issued" /\ stage' = "asked"
  /\ asked' \in SUBSET secret
  /\ UNCHANGED <<tree, secret, view>>

Show ==
  /\ stage = "asked" /\ stage' = "shown"
  /\ view' = Cut(tree, Below(tree, Root, secret \ Opened(tree, secret, asked)))
  /\ UNCHANGED <<tree, secret, asked>>

Next == Issue \/ Refuse \/ Ask \/ Show

Spec == Init /\ [][Next]_vars
=============================================================================
