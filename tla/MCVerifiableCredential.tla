------------------------ MODULE MCVerifiableCredential ------------------------
(***************************************************************************)
(* One issuer with an id and one whose hash algorithm is not supported,    *)
(* frames that name claims which may and may not be disclosable, VCs that  *)
(* expire and VCs with a status, and a list of two statuses.               *)
(***************************************************************************)
EXTENDS VerifiableCredential, TLC

MCName == ClaimsNotSelectivelyDisclosable \cup {"iat", "sub", "aud", "x", "y"}
MCKey == {"h1", "h2"}
MCParty == {"i1", "v1"}
MCNonce == {"n1"}
MCDisclosed == {{}, {"x"}, {"aud", "x"}, {"status", "x"}, {"cnf", "x"}}

MCSizes == {2}
MCWidths == {1}
MCIndexes == {0}
MCValues == {{}, {0}}
MCListSizes == {0, 2, 9}

MCIssuers ==
  {[id |-> "i1", signer |-> "i1", alg |-> "sha-256"],
   [id |-> "", signer |-> "i1", alg |-> "md5"]}

MCClaims ==
  {[names |-> {"x", "aud"}, malformed |-> {}, aud |-> {"v1"}],
   [names |-> {"x", "exp", "cnf"}, malformed |-> {"exp", "cnf"}, aud |-> {}]}

MCOptions ==
  LET option == [vct |-> "type", adds |-> {"exp", "nbf"}, integrity |-> "well-formed",
                 exp |-> 1, nbf |-> 1, cnf |-> {"h1"}, key |-> "object", idx |-> 0,
                 uri |-> StatusURI, decoys |-> 0]
  IN  {option,
       [option EXCEPT !.adds = {"status", "cnf", "exp"}, !.decoys = 2],
       [option EXCEPT !.adds = {"status", "vct#integrity"}],
       [option EXCEPT !.adds = {"status"}, !.idx = -1],
       [option EXCEPT !.adds = {"vct#integrity"}, !.integrity = "malformed"],
       [option EXCEPT !.adds = {"cnf"}, !.key = "unreadable"],
       [option EXCEPT !.adds = {"cnf"}, !.key = "null"],
       [option EXCEPT !.vct = ""]}

MCFrames ==
  "plain" :> [sd |-> {}, keys |-> {}, decoys |-> 0, nestedDecoys |-> FALSE]
    @@ "some" :> [sd |-> {"aud", "x"}, keys |-> {"aud", "x"}, decoys |-> 0, nestedDecoys |-> FALSE]
    @@ "status" :> [sd |-> {"status", "x"}, keys |-> {"status", "x"}, decoys |-> 1,
                    nestedDecoys |-> FALSE]
    @@ "other" :> [sd |-> {"cnf", "x", "y"}, keys |-> {"cnf", "x"},
                   decoys |-> 0, nestedDecoys |-> TRUE]
    @@ "decoys" :> [sd |-> {}, keys |-> {"x"}, decoys |-> 0, nestedDecoys |-> TRUE]

MCRequests ==
  LET settings == [issuer |-> "i1", trusted |-> {}, expectedAudience |-> "",
                   allowExpired |-> FALSE, required |-> {}]
      request == [nonce |-> "n1", audience |-> "v1", maxAge |-> 0, options |-> settings,
                  claims |-> {}, skipNotBefore |-> FALSE, skipExpiration |-> FALSE,
                  clockSkew |-> 0, clock |-> {}, checkStatus |-> TRUE, listSize |-> 2]
  IN  {request,
       [request EXCEPT !.listSize = 9, !.claims = {"x"},
                       !.options = [settings EXCEPT !.trusted = {"i1"}, !.allowExpired = TRUE]],
       [request EXCEPT !.checkStatus = FALSE, !.clockSkew = 1, !.maxAge = 1],
       [request EXCEPT !.checkStatus = FALSE, !.clock = {1}, !.skipExpiration = TRUE,
                       !.skipNotBefore = TRUE, !.nonce = "",
                       !.options = [settings EXCEPT !.expectedAudience = "v1"]],
       [request EXCEPT !.options = [settings EXCEPT !.expectedAudience = "i1",
                                                    !.required = {"aud", "exp"}]]}
=============================================================================
