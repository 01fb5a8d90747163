---------------------------- MODULE HolderConsent ----------------------------
(***************************************************************************)
(* What key binding promises, with no JWT, signature or hash in it: a      *)
(* credential counts as presented in a session only if the holder it is    *)
(* bound to has agreed, recently enough, to show exactly these claims of   *)
(* it to this verifier in answer to this request.                          *)
(***************************************************************************)
EXTENDS Integers

VARIABLES now,
          consents,  \* what the holders have agreed to
          accepted   \* the presentation last accepted: at most one element

vars == <<now, consents, accepted>>

Init == now = 0 /\ consents = {} /\ accepted = {}

Tick == now' = now + 1 /\ UNCHANGED <<consents, accepted>>

Consent ==
  /\ \E e \in consents' : consents' = consents \cup {e}
  /\ UNCHANGED <<now, accepted>>

(* e is the agreement on which the presentation p rests. *)
Covers(e, p) ==
  /\ e.holder \in p.cred.cnf
  /\ e.cred = p.cred /\ e.disclosed = p.disclosed
  /\ e.audience = p.session.audience /\ e.audience # ""
  /\ e.nonce = p.session.nonce /\ e.nonce # ""
  /\ p.session.maxAge > 0 => now <= e.issuedAt + p.session.maxAge

Accept ==
  /\ \E p \in accepted' : accepted' = {p} /\ \E e \in consents : Covers(e, p)
  /\ UNCHANGED <<now, consents>>

Refuse == accepted' = {} /\ UNCHANGED <<now, consents>>

Next == Tick \/ Consent \/ Accept \/ Refuse

Spec == Init /\ [][Next]_vars
=============================================================================
