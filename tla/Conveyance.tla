------------------------------ MODULE Conveyance ------------------------------
(***************************************************************************)
(* What the serializations of an SD-JWT promise: whatever an SD-JWT is     *)
(* written as, read from, signed again or cut down to on its way, nothing  *)
(* is ever added to it, put in another order, or bound by a key binding    *)
(* JWT that was made for something else.                                   *)
(***************************************************************************)
EXTENDS Integers, Sequences

CONSTANT None       \* where there is no key binding JWT

VARIABLES content,  \* the JWT, the disclosures and the key binding JWT; or nothing
          agreed    \* what the key binding JWTs were made for

vars == <<content, agreed>>

Agreement(c, kb) == [jwt |-> c.jwt, disclosures |-> c.disclosures, kb |-> kb]

(* Init is any content that somebody made. *)
Init == agreed = {}

Subsequence(t, s) ==
  \E p \in [DOMAIN t -> DOMAIN s] :
    /\ \A i, j \in DOMAIN t : i < j => p[i] < p[j]
    /\ \A i \in DOMAIN t : t[i] = s[p[i]]

Narrow(c, disclosures) ==
  /\ Subsequence(disclosures, c.disclosures)
  /\ content' = {[jwt |-> c.jwt, disclosures |-> disclosures, kb |-> None]}
  /\ UNCHANGED agreed

Agree(c, kb) ==
  /\ kb \notin {a.kb : a \in agreed}
  /\ content' = {Agreement(c, kb)} /\ agreed' = agreed \cup {Agreement(c, kb)}

Forget(c) == content' = {[c EXCEPT !.kb = None]} /\ UNCHANGED agreed

(* Another signature takes the place of the first, over the same payload. *)
SignAgain(c, jwt) ==
  /\ c.disclosures = <<>> /\ c.kb = None /\ (Len(c.jwt) = 3 => jwt[2] = c.jwt[2])
  /\ content' = {[c EXCEPT !.jwt = jwt]} /\ UNCHANGED agreed

Lose == content' = {} /\ UNCHANGED agreed

Next ==
  \/ Lose
  \/ \E c \in content :
       \/ Forget(c)
       \/ \E d \in content' :
            Narrow(c, d.disclosures) \/ Agree(c, d.kb) \/ SignAgain(c, d.jwt)

Spec == Init /\ [][Next]_vars
=============================================================================
