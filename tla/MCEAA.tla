-------------------------------- MODULE MCEAA ---------------------------------
(***************************************************************************)
(* A qualified issuer, one whose signer has the certificates, one with too *)
(* little of a configuration, one with the chain of another certificate    *)
(* and a regular one; attributes with reserved names and without, and with *)
(* cnf and status of all kinds; keys, certificates and periods; frames     *)
(* that make reserved claims, and members of claims, disclosable.          *)
(***************************************************************************)
EXTENDS EAA, TLC

MCName ==
  EAAClaimsNotSelectivelyDisclosable \cup Member
    \cup {"iat", "sub", "also_known_as", "subAttrs", "x", "_sd", "_sd_alg"}
MCKey == {"h1", "h2"}
MCParty == {"i1", "v1"}
MCNonce == {"n1"}
MCDisclosed ==
  {{}, {"x"}, {"sub", "x"}, {"subAttrs", "x"}, {"cnf"}, {"category", "cnf"}, {"cnf.jwk.x"},
   {"cnf", "cnf.jwk.x"}, {"cnf.jwk"}, {"status.uri"}, {"cnf.jwk", "status.uri"},
   {"cnf.jwk", "status.uri", "subAttrs.attrs"}}

MCConfigs ==
  LET qualified == [category |-> "qeaa", id |-> "i1", identity |-> {"issuing_authority", "issuing_country"},
                    signer |-> "i1", alg |-> "sha-256", url |-> TRUE, certificate |-> {"own"},
                    chain |-> {"own"}, signerCertificate |-> {"signers"}, signerChain |-> {"signers"}]
  IN  {qualified,
       [qualified EXCEPT !.category = "pub-eaa", !.certificate = {}, !.chain = {}, !.signerChain = {}],
       [qualified EXCEPT !.chain = {}],
       [qualified EXCEPT !.identity = {"issuing_authority"}, !.url = FALSE],
       [qualified EXCEPT !.category = "regular", !.identity = {"iss_reg_id"}, !.alg = "sha-384"],
       [qualified EXCEPT !.category = "", !.identity = {}, !.alg = "md5"]}

MCClaims ==
  LET attributes == [names |-> {"x"}, malformed |-> {}, category |-> "other"]
  IN  {attributes,
       [attributes EXCEPT !.names = {"x", "category", "issuing_authority", "issuing_country", "status",
                                     "status.uri", "status.status_list", "cnf", "cnf.jwk", "cnf.jwk.x"},
                          !.category = "qeaa"],
       [attributes EXCEPT !.names = {"adm_nbf", "subAttrs", "status", "status.status_list", "cnf"}
                                      \cup CnfMember, !.malformed = {"subAttrs"}],
       [attributes EXCEPT !.names = {"subAttrs", "subAttrs.attrs", "cnf", "cnf.jwk", "cnf.x5c"},
                          !.malformed = {"cnf.jwk"}],
       [attributes EXCEPT !.names = {"cnf", "cnf.x5u", "cnf.x5t#S256"},
                          !.malformed = {"cnf.x5u", EmptyThumbprint}],
       [attributes EXCEPT !.names = {"x", "_sd_alg"}]}

MCOptions ==
  LET required == {"vct", "vct#integrity", "jti", "nbf", "exp", "sub"}
      option == [given |-> required, integrity |-> "well-formed", nbf |-> 0, exp |-> 0, admNbf |-> 1,
                 admExp |-> 1, key |-> "object", cnf |-> {"h1"}, certificate |-> FALSE, url |-> FALSE,
                 subAttrsComplete |-> TRUE, decoys |-> 0]
      full == [option EXCEPT !.given = required \cup {"adm_nbf", "adm_exp", "status", "subAttrs", "oneTime"},
                             !.exp = 1]
      pseudonymous == [option EXCEPT !.given = required \cup {"also_known_as"}]
  IN  {option,
       [option EXCEPT !.key = "none"],
       [full EXCEPT !.certificate = TRUE],
       [full EXCEPT !.given = (@ \ {"sub"}) \cup {"also_known_as"}, !.key = "none", !.certificate = TRUE,
                    !.url = TRUE, !.admNbf = 0, !.admExp = 0, !.decoys = 1],
       [pseudonymous EXCEPT !.key = "unreadable", !.nbf = 1, !.exp = 1],
       [pseudonymous EXCEPT !.given = @ \cup {"status"}, !.key = "null", !.integrity = "malformed"],
       [full EXCEPT !.given = @ \ {"adm_exp"}],
       [full EXCEPT !.subAttrsComplete = FALSE]}

MCFrames ==
  NilFrame :> [sd |-> {}, decoys |-> 0]
    @@ "some" :> [sd |-> {"x", "sub", "subAttrs"}, decoys |-> 0]
    @@ "reserved" :> [sd |-> {"category", "cnf"}, decoys |-> 1]
    @@ "key" :> [sd |-> {"cnf", "cnf.jwk.x"}, decoys |-> 1]
    @@ "nested" :> [sd |-> {"cnf.jwk", "status.uri", "subAttrs.attrs"}, decoys |-> 1]

MCRequests ==
  LET settings == [issuer |-> "i1", trusted |-> {"i1"}, expectedAudience |-> "",
                   allowExpired |-> FALSE, required |-> {}]
      request == [nonce |-> "n1", audience |-> "v1", maxAge |-> 1, options |-> settings, claims |-> {},
                  category |-> {}, skipNotBefore |-> FALSE, skipExpiration |-> FALSE,
                  skipAdministrative |-> FALSE, skew |-> 0, clock |-> {}, clockSkew |-> 0]
  IN  {request,
       [request EXCEPT !.category = {"qeaa"}],
       [request EXCEPT !.category = {"pub-eaa"}, !.claims = {"x"}, !.skipAdministrative = TRUE],
       [request EXCEPT !.category = {"regular"}, !.skew = 1, !.clockSkew = 1],
       [request EXCEPT !.clock = {1}, !.skipNotBefore = TRUE, !.skipExpiration = TRUE,
                       !.options = [settings EXCEPT !.allowExpired = TRUE]]}
=============================================================================
