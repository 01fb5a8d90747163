---------------------------- MODULE MCKeyBinding ----------------------------
(***************************************************************************)
(* Two holders, two requests and one that is not valid, and credentials of *)
(* two issuers, in which dates and keys can be withheld.                   *)
(***************************************************************************)
EXTENDS KeyBinding

MCName == {"iss", "exp", "nbf", "aud", "cnf", "x"}
MCKey == {"h1", "h2"}
MCParty == {"i1", "i2", "v1", "v2"}
MCNonce == {"n1", "n2"}

Cred(issuer, alg, names, sd, holder) ==
  [signer |-> issuer, alg |-> alg, names |-> names, sd |-> sd, iss |-> issuer,
   exp |-> 1, nbf |-> 1, aud |-> {"v1"}, cnf |-> {holder}]

(* The expiry may be withheld; the same for each holder. *)
Short(holder) == Cred("i1", "sha-512", {"iss", "exp", "cnf", "x"}, {"exp", "x"}, holder)
(* Nothing can be withheld. *)
Plain == Cred("i2", "sha-512", {"nbf", "aud", "cnf"}, {}, "h1")
(* The holder's key can be withheld. *)
Hidden == Cred("i2", "sha-256", {"exp", "cnf", "x"}, {"cnf", "x"}, "h2")

MCCredentials == {Short("h1"), Short("h2"), Plain, Hidden}

Strict == [issuer |-> "i1", trusted |-> {"i1"}, expectedAudience |-> "",
           allowExpired |-> FALSE, required |-> {"exp"}]
Lax == [issuer |-> "i2", trusted |-> {}, expectedAudience |-> "v1",
        allowExpired |-> TRUE, required |-> {}]
MCOptions == {Strict, Lax}

MCSessions ==
  {[nonce |-> "n1", audience |-> "v1", maxAge |-> 1, options |-> Strict, claims |-> {"x"}],
   [nonce |-> "n2", audience |-> "v2", maxAge |-> 0, options |-> Lax, claims |-> {}],
   [nonce |-> "", audience |-> "v1", maxAge |-> 0, options |-> Lax, claims |-> {}]}

MCDisclosed == {{}, {"x"}, {"exp", "x"}, {"cnf", "x"}}
=============================================================================
