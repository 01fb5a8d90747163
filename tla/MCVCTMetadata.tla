---------------------------- MODULE MCVCTMetadata -----------------------------
(***************************************************************************)
(* Three types, each a draft with every rule for one claim or with claims  *)
(* that are hard to tell apart; and drafts with one mistake each.          *)
(***************************************************************************)
EXTENDS VCTMetadata, TLC

MCNumberText == 0 :> "[0]"

StringElement(text) == [kind |-> "string", text |-> text, number |-> 0]
A == StringElement(<<"a">>)
B == StringElement(<<"b">>)
AB == StringElement(<<"a", "b">>)
Star == StringElement(<<"*">>)
Every == [kind |-> "null", text |-> <<"">>, number |-> 0]
Number(n) == [kind |-> "number", text |-> <<"">>, number |-> n]
Fraction == [kind |-> "other", text |-> <<"">>, number |-> 0]

Claim(path, sd, mandatory) ==
  [path |-> path, sd |-> sd, mandatory |-> mandatory, svg_id |-> "", display |-> <<>>]

RulesOfOne ==
  {<<Claim(<<A, B>>, sd, mandatory)>> : sd \in {"", "always", "allowed", "never"}, mandatory \in BOOLEAN}

Others ==
  {<<>>, <<Claim(<<AB>>, "never", TRUE)>>, <<Claim(<<A, Every>>, "always", FALSE)>>,
   <<Claim(<<A, Star>>, "never", FALSE), Claim(<<A, Number(0)>>, "never", FALSE)>>,
   <<Claim(<<A, B>>, "always", FALSE), Claim(<<AB>>, "never", FALSE)>>,
   <<Claim(<<A, B>>, "never", FALSE), Claim(<<A, B>>, "allowed", TRUE)>>}

Draft(t, extends, claims) ==
  [vct |-> t, extends |-> extends, extendsIntegrity |-> <<>>, schemaIntegrity |-> "",
   display |-> <<>>, claims |-> claims]

Well ==
  LET image == [uri |-> "u", integrity |-> "well-formed"]
      template == [uri |-> "u", integrity |-> "", properties |-> {"p"}]
      rendering == [simple |-> {[logo |-> {image}, background |-> {image}]}, templates |-> <<template>>]
      display == [locale |-> "en", name |-> "n", rendering |-> {rendering}]
      claim == [Claim(<<A, Every, Number(0)>>, "never", FALSE) EXCEPT
                  !.svg_id = "a", !.display = <<[locale |-> "en", label |-> "", name |-> "n"]>>]
  IN  [Draft("t1", <<>>, <<claim>>) EXCEPT !.display = <<display>>, !.schemaIntegrity = "well-formed"]

(* Each of these but the last has a mistake. *)
Single ==
  LET path(p) == [Well EXCEPT !.claims[1].path = p]
      render(r) == [Well EXCEPT !.display[1].rendering = {r}]
      rendering == CHOOSE r \in Well.display[1].rendering : TRUE
      template == rendering.templates[1]
      unlike == <<template, [template EXCEPT !.properties = {}]>>
  IN  {[Well EXCEPT !.vct = ""], [Well EXCEPT !.extends = <<"t2", "t3">>],
       [Well EXCEPT !.extendsIntegrity = <<"well-formed">>], [Well EXCEPT !.schemaIntegrity = "malformed"],
       [Well EXCEPT !.display[1].locale = ""], [Well EXCEPT !.display[1].name = ""],
       [Well EXCEPT !.claims[1].sd = "Always"], [Well EXCEPT !.claims[1].display[1].name = ""],
       [Well EXCEPT !.claims[1].svg_id = "1"], [Well EXCEPT !.claims = @ \o @],
       path(<<>>), path(<<Number(-1)>>), path(<<Fraction>>), path(<<StringElement(<<"">>)>>),
       render([rendering EXCEPT !.simple = {}, !.templates = <<>>]),
       render([rendering EXCEPT !.templates[1].uri = ""]), render([rendering EXCEPT !.templates = unlike]),
       render([rendering EXCEPT !.simple = {[logo |-> {[uri |-> "", integrity |-> ""]}, background |-> {}]}]),
       render([rendering EXCEPT !.templates = <<template, template>>])}

MCDocuments ==
  {Draft("t1", <<>>, claims) : claims \in RulesOfOne \cup Others} \cup {Well} \cup Single
    \cup {Draft("t2", extends, claims) : extends \in {<<"t1">>}, claims \in RulesOfOne \cup Others}
    \cup {Draft("t3", extends, claims) : extends \in {<<"t2">>, <<>>}, claims \in RulesOfOne \cup Others}
    \cup {[Draft("t2", <<"t1">>, Well.claims) EXCEPT !.extendsIntegrity = <<"well-formed">>]}
=============================================================================
