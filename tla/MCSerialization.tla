---------------------------- MODULE MCSerialization ---------------------------
(***************************************************************************)
(* An SD-JWT with two disclosures and one without any, whose issuer uses   *)
(* an algorithm that it does not state; and texts of other programs, most  *)
(* of which have something that the parsers must notice.                   *)
(***************************************************************************)
EXTENDS Serialization, TLC

D1 == <<"d1">>
D2 == <<"d2">>
MCDisclosures == {D1, D2}
MCKBs == {<<"k1", "p", "s">>, <<"k2", "p", "s">>}
MCSdAlg == "p" :> {} @@ "p384" :> {"sha-384"} @@ "pmd5" :> {"md5"}

MCValues ==
  LET issued == [form |-> "memory", jwt |-> <<"h", "p384", "s">>, disclosures |-> <<D1, D2>>,
                 kb |-> Empty, alg |-> "sha-384"]
  IN  {issued, [issued EXCEPT !.jwt = <<"h", "p", "s">>, !.disclosures = <<>>, !.alg = "sha-512"]}

MCCosigners == {[protected |-> <<"h2">>, signature |-> <<"s2">>, header |-> {}]}

MCTexts ==
  LET jwt == <<"h", "p", "s">>
      kb == <<"k", "p", "s">>
      compact(parts) == [form |-> "compact", parts |-> parts]
      flattened == [form |-> "flattened", protected |-> <<"h">>, payload |-> <<"p">>, signature |-> <<"s">>,
                    header |-> {[disclosures |-> <<D2, D1>>, kb |-> kb]}]
      general == [form |-> "general", payload |-> <<"p384">>,
                  signatures |-> <<[protected |-> <<"h">>, signature |-> <<"s">>, header |-> flattened.header]>>]
  IN  {compact(<<jwt>>), compact(<<<<"h", "p">>, Empty>>), compact(<<jwt, D1>>), compact(<<jwt, D1, kb>>),
       compact(<<jwt, Empty, D1, Empty>>), compact(<<<<"h", "x", "s">>, Empty>>),
       compact(<<<<"h", "pmd5", "s">>, Empty>>), compact(<<<<"h", "pmd5", "s">>, D1, Empty>>),
       flattened, [flattened EXCEPT !.protected = <<"h", "h">>], [flattened EXCEPT !.payload = <<"p", "p">>],
       [flattened EXCEPT !.header = {[disclosures |-> <<D1>>, kb |-> <<"k">>]}],
       general, [general EXCEPT !.signatures = <<>>], [general EXCEPT !.signatures = @ \o @]}

MCProvided == {"", "sha-256", "sha-384"}
MCSelections == {{}, {D1}, {D2}}
=============================================================================
