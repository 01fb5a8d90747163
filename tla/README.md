# Selective Disclosure JWTs in TLA+

A verification project for the Go library `github.com/georgepadayatti/sdjwt`
(RFC 9901 SD-JWT, SD-JWT VC, ETSI EAA, token status lists). The modules are
translated from the code; paths below are relative to `src/`.

## The system

The library is sequential: no goroutines, no locks, nothing persisted. What
makes it hard is elsewhere. Three parties (issuer, holder, verifier) run the
same rules in different code over strings that pass between them; maps are
iterated in random order while shared maps are updated; paths are strings that
each part builds in its own way; the checks are spread over time; and what
arrives at a verifier can be any recombination of what was ever sent.

| Component | State it keeps | Operations | Talks to | What makes it correct |
|---|---|---|---|---|
| Payload processing, `sdjwt/validation.go` | per call: used digests, used disclosures, result | `ProcessSDJWTPayload` | called by holder and verifier | the verdict and the result do not depend on iteration order; signed claims survive; every disclosure is used |
| Issuance, `issuer/frame.go`, `sdjwt/disclosure.go` | none; returns an `SDJWT` | `IssueWithFrame` | signer; result goes to the holder, in memory or as text | what is packed unpacks to the claims |
| Holder, `holder/holder.go`, `present.go` | its `SDJWT` | `ParseAndCreateHolder`, `NewHolder`, `SelectWithFrame`, `PresentWithFrame`, `GetPresentableKeys`, `GetProcessedPayload` | processing, key binding | discloses what was asked for and nothing else |
| Key binding, `holder/keybinding.go`, `verifier/request.go` | none; a KB-JWT | `CreateKeyBindingJWT` | verifier's nonce and audience | binds holder, selection, verifier, request and time |
| Verifier, `verifier/verifier.go` | settings, requirement | `Verify`, `VerifyWithKeyBinding` | processing | accepts exactly the presentations that the holder agreed to and the settings allow |
| Status list, `statuslist/statuslist.go` | packed bytes, width, size | `NewStatusList`, `SetStatus`, `GetStatus`, `Encode`, `Decode`, tokens | `sdjwtvc.CheckStatus` | is a table; lookups are exact |
| SD-JWT VC, `sdjwtvc/sdjwtvc.go`, `verifier.go`, `validation_helpers.go` | issuer configuration; the caller's frame | `Issue`, `VerifySDJWTVC`, `ValidateVC`, `CheckStatus` | issuer, verifier, status list | what is issued validates; options mean what they say |
| ETSI EAA, `sdjwtvc/etsi_eaa.go` | issuer configuration, certificates; the caller's frame | `NewEAAIssuer`, `Issue`, `ValidateEAA` | issuer, verifier | what is issued validates, is complete for its category, bound to its holder, and a VC too |
| VCT metadata, `sdjwtvc/metadata_validation.go` | none; documents that extend one another | `ValidateVCTMetadata`, `ValidateVCTMetadataWithParent` | | a type does not weaken its parent, nor what its parent was compared with |
| Serialization, `sdjwt/serialization.go`, `validation.go` | none; a value or a text on its way | `Serialize`, `Parse*`, `To*JSON`, `From*JSON`, `SelectDisclosures` | everyone | every form reads back; all readers agree; nothing is added; a key binding stays good |
| Frames, `sdjwt/frame.go` | none | builders, merging, conversion | issuer and holder take them | |
| Signer and JWKs, `signer/signer.go`, `verifier/jwk.go` | keys | `Sign`, key parsing | JWT library | external cryptography |

`PROJECT.json` lists the components with what is left out of each, and the
hazards with the line where each one bites.

## Modules

| Module | Models | Key correspondences |
|---|---|---|
| `Payload` | JSON documents and disclosures | `kind`, `props`, `items`, `sd`, `hides` are what `processObject` and `processArray` ask of a value; the order-free specification of a correct document and its result |
| `Lists` | the loop of `SelectDisclosures` | a filter as a recursive function, for the modules that are proved about |
| `ProcessPayload` | `ProcessSDJWTPayload` | one frame of the variable `stack` per active `processObject` or `processArray`, one action per branch of their loops; `VisitKey` and `AtDigest` choose the next key freely, as Go's map iteration does |
| `SelectiveDisclosure` | the promise of an SD-JWT | a tree, its secrets, what was asked for, and the cut tree that the verifier sees |
| `Presentation` | issue, hold, select, verify | `Pack` is `packClaims`; `agenda` and `keyToDigest` are the walk of `walkPayloadForKeys`; a frame is the keys that lead to what it includes, which `flattenPresentationFrame` joins to paths; `Parsed` and `AsTyped` are the difference between a value from text and the issuer's value in memory; implements `SelectiveDisclosure` |
| `HolderConsent` | the promise of key binding | agreements of holders, and acceptances that rest on them |
| `KeyBinding` | holders, KB-JWTs, verification with time | `wallet` are the `Holder` values with the settings that they were checked with, `kbs` the KB-JWTs made, `verdict` the last result; one action per API call and `Tick`; implements `HolderConsent` |
| `StatusRegistry` | the promise of a status list | a table and its published copies |
| `StatusList` | packed status lists, tokens, `CheckStatus` | bytes are sets of bits, so masks and shifts are set operations; implements `StatusRegistry` |
| `VerifiableCredential` | `VCIssuer.Issue`, `VerifySDJWTVC`, `VerifySDJWTVCWithKeyBinding`, `ValidateVCWithOptions`, plain issuance by the same signer | `frames` are the callers' frames, which `Issue` changes; `issued` is what was signed; verification is that of `KeyBinding` followed by the typ header, the claims and the status; the status list is the issuer's, with the variables and the actions of `StatusList` |
| `EAA` | `NewEAAIssuer`, `EAAIssuer.Issue`, `ValidateEAA` | `issuers` are the `EAAIssuer` values that the constructor accepted, `frames` and `issued` as in `VerifiableCredential`; claims, options and issuer are merged in the order of the code (the caller's attributes first, what the category adds last); `Headers` is `buildX509Headers`; certificates are names; a member of `cnf`, `status` or `subAttrs` that a validator looks at is a name of its own (`Member`), which a nested frame can make disclosable (`Disclosable`, `Shown`, `Connected`) |
| `Conveyance` | the promise of serialization | `content`, what an SD-JWT carries, and `agreed`, what each KB-JWT was made for; four ways in which content may change, none of which adds |
| `Serialization` | compact form, flattened and general JSON | `artifact` is the one SD-JWT on its way, a value in memory or a text; `signed` has what each KB-JWT hashes; strings are sequences of their parts between dots, so that a header with a dot in it is a case of its own; implements `Conveyance` |
| `VCTMetadata` | `ValidateVCTMetadata` and `ValidateVCTMetadataWithParent` | `published` are the documents by type; `ancestors` is a history variable that no code has; `PathString` is `ClaimPath.String`, whose text takes `["a.b"]` and `["a","b"]` for the same |
| `MC*` | constants for TLC | |
| `*Proofs` | theorems and proofs | |

How they fit: `ProcessPayload` implements the operators of `Payload`, which
`Presentation` uses in place of the recursion. `KeyBinding` in turn abstracts
`Presentation`: its credentials are flat, so a disclosure is a claim's name.
`VerifiableCredential` composes the operators of `KeyBinding` with the state
machine of `StatusList`: an issuer goes on revoking while verifiers check.
`EAA` verifies by the operators of `KeyBinding` as well, and reads what it
issued as a VC (`AsVC`) to apply the validator of `VerifiableCredential` to it.
`Serialization` is where the strings come from that the other modules recombine:
its theorems justify that they treat an SD-JWT as a value, apart from the typed
placeholders of `Presentation`. `VCTMetadata` stands alone, as the code does.
The composition is by these specifications and not by one large module; a
module with all of it would have no checkable instance.

Abstractions that all of them share: hash functions and signatures are
symbolic (a digest *is* the value it commits to, a JWT says who signed it),
salts are fresh, base64url and JSON encodings lose nothing except where the
code behaves differently after them. An operator marked "Bug:" is a plausible
wrong form of the definition after it; it is used to show that a property can
fail.

## Runs

| Run | Question | Bounds, and why they are enough |
|---|---|---|
| `process_payload` | Is the recursion, in every order, the order-free specification? | Documents of a few nodes and lists of up to two disclosures, which is enough for each conflict: a repeated digest, two disclosures for one name, a name also signed in clear, one nested in the other, a disclosed value that embeds its own digest, and two that embed each other's. `VisitsOnce` says that no value is entered twice |
| `presentation` | Does the verifier see the issuer's tree cut at the secrets not asked for? | One tree with an object in the root, an array in the object and a claim whose name has a dot (`d.e`), every disclosure frame on it, two opposite orders of hashes, with and without decoys, two algorithms and one that is not supported, every request of up to two paths. Three levels and two elements reach every combination of parent, element and decoy |
| `key_binding` | Can anything be accepted without the holder's agreement, or refused with it? | Two holders, four credentials of two issuers, three requests (one invalid), times 0 to 2, MaxAge 1, a clock one second ahead, one KB-JWT per behaviour. A verdict depends on one KB-JWT, and the SD-JWT it arrives with is any of the four with any selection, so one suffices for every recombination; the theorems hold for any number |
| `status_list` | Do packed bytes behave like a table? Are lookups exact? | Sizes that end inside a byte, at its end and after it, all widths, indexes on both sides of a byte's border and out of range, sizes that verifiers may wrongly believe |
| `verifiable_credential` | Do the VC issuer and the VC verifier agree? Is a revoked VC refused? Does withholding help? | Two issuer configurations (one that cannot sign), two sets of claims (one malformed), eight sets of options, of which four are refused, five frames (allowed, reserved in `SD` and in `Nested`, decoys only), five requests that differ in clock, skew, size of the list and required claims; times 0 to 2 around exp and nbf 1; a list of two with one token. The properties are about one credential and one token at a time; what two calls share is the frame, and a call whose signing fails also changes it |
| `eaa` | Are EAAs what their category, their holder and the VC verifier need? Do `Issue` and `ValidateEAA` agree? | Six configurations (own certificate and chain, the signer's certificate without a chain, an inherited chain of another certificate, incomplete, regular, no category and an algorithm that is not supported); six sets of attributes (reserved names, a foreign `category`, a `status` of both forms, half an administrative period, each form of `cnf` with members of the right and of the wrong type, a name that cannot be signed); eight sets of options (with and without key, certificate, both, a key that is `null` or unreadable; two that no issuer accepts); five frames (none, allowed, reserved names, the parts of a key, members of `cnf`, `status` and `subAttrs`); five requests; twelve selections; times 0 to 1, where dates are 0 or 1. One issuer and one EAA per behaviour: every property is about one EAA |
| `serialization` | Is an SD-JWT read as it was written, in any chain of forms? | Values with two disclosures and with none, fifteen texts of other programs, most of them with one defect (no separator, no signature, a header behind the first signature, a dot in a JSON field, a payload that is no JSON, an algorithm that is not supported, a disclosure at the end); up to three signatures and two KB-JWTs. Order and loss need two disclosures, a header in the wrong signature needs two signatures, and the third is the one that is added before or behind them |
| `vct_metadata` | Is the comparison with the parent exact? Do the rules of ancestors hold further down? | Lines of up to three types, where the third is the first whose grandparent matters; each with every `sd` and `mandatory` for one claim, or with claims that are written the same, repeated or absent; eighteen documents with one mistake each |
| `holder_in_memory`, `algorithm_stated`, `clock_skew`, `eaa_reserved` | Four statements of documents and comments | One input for `holder_in_memory`, the instances above for the others (`eaa_reserved` without time) |

Deadlock: `presentation` ends, as a call does, and `vct_metadata` ends when all
types are published; their configurations say so. In `process_payload` a call
that has returned stays so by a step of its own (`Returned`), and deadlock is
checked: a call that has not returned always has a next step. The others never
stop.

Fairness: none is assumed. Nothing in the library promises that a holder answers
or that a presentation arrives, so no liveness is claimed. That the recursion of
`ProcessSDJWTPayload` returns is stated as safety: it is never stuck, and it
never enters a value that it is in or has left (`VisitsOnce`), of which there
are finitely many. The check of `usedDigests` is what this rests on when
digests make a cycle.

### What the violation runs show

- `holder_in_memory`: `NewHolder` on the issuer's value cannot process an array
  with disclosable elements inside a disclosable object, because placeholders
  are `map[string]string` until the SD-JWT is parsed.
- `algorithm_stated`: with sha-384 or sha-512 and nothing to disclose, the value
  in memory names an algorithm that the SD-JWT does not state, and a key binding
  JWT made from it is refused by every verifier.
- `clock_skew`: a VC within `AllowedClockSkew` of its period is refused, because
  `Verify` compares the dates with the plain clock before
  `ValidateVCWithOptions` does. For the same reason `Now`, `SkipNotBeforeCheck`
  and `SkipExpirationCheck` never accept more.
- `eaa_reserved`: `EAAIssuer.Issue` makes claims disclosable that the file's own
  list says must not be, since only `VCIssuer.Issue` checks the frame. What this
  does to a verifier is in the conclusions of `CategoryIsIssuers` (an EAA whose
  category is withheld passes for regular) and `HolderIsBound` (an EAA of which
  `cnf` or its key is withheld is bound to nobody); `WithholdingIsNoHelp` is
  about EAAs without such claims.

The passing runs leave these inputs out by name (`AsInMemory`, and `PathsApart`
and `RequiredByName` for the next list) or state the property for what remains
(`HolderServed` is about holders that parsed their SD-JWT, `IssuedIsAccepted`
about what the plain verifier accepts).
`IssuedIsAccepted` of `VerifiableCredential` also leaves out the holder key
`null`: `json.Unmarshal` takes it for an object, and the VC is then refused for
its `cnf`.

### Other disagreements met while modelling

Each is a premise or a choice of inputs above, and has no run of its own.

- With claims `a` and `a.b`, asking for `a.b` discloses `a` too
  (`holder/present.go:162`): `PathsApart` leaves such objects out, and the passing
  run has `d.e` and no `d`. For the same reason a verifier that requires `d` is
  content with a disclosed `d.e`: `RequiredByName` leaves out paths that end
  inside a name.
- An array element that is disclosed is reported missing when it is required by
  its index: the frame says `c.0`, the verifier says `c[0]`
  (`verifier/verifier.go:617`). `RequiredByName` leaves out paths with indexes.
- A claim with a dotted name inside an object, signed in clear, is reported
  missing when it is required though the verifier sees it: with `d.e` inside
  `a`, `claimExistsInPayload` looks for `d` in `a` (`verifier/verifier.go:670`),
  and only names of the root are also compared as they are. `RequiredByName`
  leaves out such paths.
- Asking for a plain claim inside a disclosable object discloses nothing and
  reports no error (`holder/present.go:66`).
- The value in memory that `algorithm_stated` is about cannot be processed by its
  own holder either: `NewHolder(sdJwt).GetProcessedPayload()` fails with "hash
  algorithm mismatch" (`sdjwt/validation.go:242`), since the payload states no
  algorithm. `AsInMemory` leaves this out as well.
- `Issue` leaves `DecoyDigests` in the caller's frame (`sdjwtvc/sdjwtvc.go:478`,
  `sdjwtvc/etsi_eaa.go:470`), and the next credential issued with the frame has
  as many decoys. Both models have it; the type invariants say that nothing
  else of a frame changes.
- `FromGeneralJSON` keeps the first signature only, though
  `docs/serialization.md` presents the form as one for several; `Cosign` with
  the new signature in front is a step of the model for this reason. The
  page also names a function `FlattenJSONFromCompact`, which does not exist.
- JSON texts may hold what no compact form can: fields with dots, and a `kb_jwt`
  that is not a JWT (`sdjwt/serialization.go` checks neither). `ReadsBack` is
  about values that have a compact form.
- A rule of a type can be overridden by a grandchild if the type in between says
  nothing of the claim, or nothing of its `sd`
  (`sdjwtvc/metadata_validation.go:78`). `LinesKeepRules` is about lines in
  which every type restates the claim.
- Claims of a type and its parent are matched by the text of their paths
  (`sdjwtvc/metadata_validation.go:75`), which `["a.b"]` and `["a","b"]`, `null`
  and `"*"`, an index and its digits share: one claim may be held to the rules of
  another. `RulesExact` is about types without such paths (`Clear`).
- `EAAIssuer.Issue` looks at `Nested` of a frame as little as at `SD`
  (`sdjwtvc/etsi_eaa.go:473`). With a key and a certificate, a frame for `cnf` can
  make `jwk` disclosable; where it is withheld, `ValidateEAA` accepts the EAA for
  its certificate, and the holder's own key binding is refused for want of a key
  (`verifier/verifier.go:374`). `HolderIsBound` says so: key binding is accepted
  if what is disclosable of `cnf` and the key in it is disclosed.
- `validateEAACNF` asks of `jwk`, `x5c` and `x5u` only that they are there
  (`sdjwtvc/etsi_eaa.go:858-883`), `validateCNFClaim` that they have the right
  type (`sdjwtvc/validation_helpers.go:69-92`): an EAA with a caller's
  `{"cnf":{"jwk":"x"}}`, or with an empty `x5t#S256`, passes the one and not the
  other. A holder key `null` is another of this kind. `EAAsAreVCs` names the
  exception.
- Certificate and chain are inherited from the signer one by one, and nothing
  compares them (`sdjwtvc/etsi_eaa.go:249-256`): a configured certificate may be
  published by its thumbprint beside the chain of the signer's. The last part of
  `QualifiedIsComplete` says that this is the only way to headers of two
  certificates.
- A regular issuer writes no category, and leaves one of the caller's attributes
  in place (`sdjwtvc/etsi_eaa.go:363`): `ValidateEAA` takes such an EAA for one
  of a qualified issuer if it is otherwise complete. `CategoryIsIssuers` names
  the exception.
- The comment of `EAAIssueOptions.JTI` speaks of a generated value if it is
  empty, where `validateIssueOptions` reports an error.
- Qualified EAAs must have a status, in the form of ETSI, and
  `ValidateVCWithOptions` refuses any status without `status_list`: no qualified
  EAA passes `VerifySDJWTVC`. `EAAsAreVCs` is about EAAs without a status, or
  with one of a caller's that has both forms.

## Theorems

TLAPS proves for all values of the constants:

- `ProcessPayloadProofs` (of `ProcessPayload`): `TypeCorrect`,
  `SignedClaimsSafe`, `DisclosedClaimsSafe`, `SuccessUsesAll`, `VerdictIsExact`,
  `ResultIsExact`, `ValuesAreVisitedOnce`. The invariant of the first four
  describes every frame of the stack: what it has built so far is its signed
  claims, as far as visited, and claims of disclosures whose digest is in the
  `_sd` list of the same object, all of them recorded as used. The properties
  alone are not inductive, because a result is attached to its parent only when
  a frame returns. `VerdictIsExact` and `ResultIsExact` compare the recursion
  with the reference, and need to know what has been done so far as a set of
  places (keys, digests and elements already passed): `RunInv` says that the
  used digests, the disclosures put to use, the values with a result and those
  on the stack are what these places make them, and that nothing passed would
  have been refused; `ExactInv` (`ExactInductive`) adds the verdict once it is
  known. `VisitsOnce` is a part of what `RunInv` keeps: a value on the stack has
  no result yet, and a digest passed is used. When the stack is empty the places
  passed are all that the revealed values have, because those are the least set
  that holds the root and the children of its members (`RevealedFixed`). This is
  where documents must be trees of finitely many values (`IsTree`,
  `NodesFinite`): the payload and each disclosure are JSON texts of their own,
  so no value is in two places.
- `PresentationProofs` (of `Presentation`): `TypeCorrect`, `RoundTrip`,
  `KeysExact`, `Implements` (refinement) and `MissingIsExact`, for every tree of
  claims, frame, choice of decoys and order of hashes. There are four steps.

  *Documents.* Value by value, the packed payload has what the claims have, with
  what is disclosable moved to `_sd`, placeholders and disclosures
  (`ValueFacts`). With any set of the disclosures, such a payload is a document
  (`CarriedTree`), and its revealed values are the tree cut off at what is not
  disclosed (`CarriedRevealed`); it is valid if the set is closed under the
  disclosures around its members (`CarriedValid`), and in processing a value
  gets back the claims and elements that the issuer was given, without those cut
  off and with nothing for decoys (`CutExpected`). The set of all disclosures is
  closed and cuts nothing off (`AllExpected`), which is `RoundTrip`; what is
  revealed of the claims and what `Below` means is again a least set. `IInv`
  keeps the packed payload what `Pack` made of an accepted input, and the walk
  inside it.

  *Paths.* `Places` is a recursion over layers of the tree. Every value has one
  path in it (`PlacesFacts`), and a path is a prefix of another exactly if the
  one value is inside the other (`PathsMean`), which is what
  `includeParentDigests` takes for granted. `KeysExact` then needs a memory of
  the walk, since a key known is a value that is no longer in `agenda`:
  `WalkInv` says that every key known, and every entry of the agenda, is at its
  value's path, and that every disclosable value is known or is at or below an
  entry. When the agenda is empty, all are known.

  *Selections.* So the disclosures selected are those of the values asked for
  and of all disclosable values around them (`SelectedOpens`), a closed set;
  the verifier accepts it, and its view is the tree cut off where
  `SelectiveDisclosure` says (`OpenedReached`, `OpenedShows`). The invariant of
  `Implements` (`ShowInv`) adds to `WalkInv` that no step reports an error and
  that what is presented is what the request opens.

  *Required claims.* The verifier has paths of its own: `DisclosedClaims` writes
  an index behind the last word (`c[0]`), and `claimExistsInPayload` goes from
  object to object by names without dots. Whatever entry `DisclosedClaims`
  meets, its value is seen, and its path is the one in `Places` or agrees with
  such a path up to its first word with an index (`SeenEntries`,
  `DisclosedSeen`). So a required path without indexes that is a prefix of it
  names a place around a value that is seen, and what is around is seen too
  (`NamedSeen`, `SeenThere`). The other search finds exactly the places whose
  prefixes, word by word, are places themselves (`ReachSound`,
  `ReachComplete`). Together they find a claim exactly if the verifier sees it
  (`FoundExact`), and with `ShowInv`, `MissingExact` is inductive.

  The results about `Revealed` come from `ProcessPayloadProofs` by INSTANCE.
  Assumed: hash values and placeholders are names of their own
  (`ValuesAreDigests`, `HolesAreNodes`, `MarkersAreFresh`), `cnf` is a claim
  name (`CnfIsName`), `strings.Split` gives at least one word
  (`NamesHaveWords`), keys of frames are not empty paths (`RequestsNamePaths`),
  different indexes are written apart (`IndexesApart`), and required paths have
  words (`RequiredAreWords`: a nil frame requires nothing). Of the input
  (`InputOK`): claims are a tree, a frame is about claims that exist, decoys are
  fresh, the order has every hash once, and no claim `cnf` is given together
  with a holder's key. `RoundTrip` is about `ReadSpec`, the behaviours in which
  a holder that is made from the value in memory meets neither of the two
  differences to the text (`AsInMemory`); `holder_in_memory` shows that without
  this it is false. `KeysExact` and `Implements` are about `PathSpec`, which
  adds `PathsApart`: in no object is a claim's name, followed by a dot and more,
  the name of another claim. All objects whose names have no dots are so, and so
  is one with `d.e` and no `d`; with `a` and `a.b` both theorems would be false,
  as `holder/present.go:162` discloses more than was asked for. `MissingIsExact`
  adds `RequiredByName`: no word of a required path is an index or ends with
  one, and a path that leads into the tree is the name of a claim of the root,
  or has its dots only between the names of claims. "Other disagreements" has an
  input for each of the three ways in which it would be false otherwise.
- `StatusListProofs` (of `StatusList`): `TypeCorrect`, `TableImplemented`
  (refinement), `WritesAreRead`, `ChecksAreExact`. They rest on lemmas about
  slots: two entries never overlap (`SlotsApart`), all slots are inside the
  bytes allocated (`SlotAllocated`), and `SetThenGet`, the law of arrays.
  `ChecksAreExact` also needs that the unused bits behind the last entry stay
  clear (`PaddingStaysClear`): it is why a wrong size cannot yield "revoked".
- `KeyBindingProofs` (of `KeyBinding`): `TypeCorrect`, `ConsentNeeded`
  (refinement), `HoldersAreServed`, `WithholdingFutile`. `HoldersAreServed`
  needs a memory of what was true when the holder checked: the invariant
  `Remembered` says that all of a check but the expiry stays true as time
  passes, and that every KB-JWT hashes the SD-JWT of its holder's wallet with
  the algorithm that the wallet entry has. Assumed: the types of the constants
  and that disclosable claims are claims.
- `VerifiableCredentialProofs` (of `VerifiableCredential`): `TypeCorrect`,
  `IssuedAreAccepted`, `RevokedAreRefused`, `WithholdingFutile`,
  `HoldersAreBound`. The invariant
  `VCInv` says that frames never change but for their decoys, so what was
  checked of a frame is true of the VC, and that a VC has none of the reserved
  claims disclosable and the values that its issuer checked; of plain SD-JWTs it
  says almost nothing, and the typ header is what keeps them out.
  `IssuedAreAccepted` also uses the type correctness of `StatusList`, whose
  behaviours are those of the list here (`ListTyped`). Assumed: the types of the
  constants, and that a frame's reserved claims are among its top-level keys,
  where `validateSDFrameTopLevel` looks (elsewhere the names are other claims).

- `EAAProofs` (of `EAA`): `TypeCorrect`, `QualifiedAreComplete`,
  `CategoriesAreTrue`, `WithholdingFutile`, `HoldersAreBound`,
  `IssuedAreAccepted`, `EAAsPassAsVCs`, with any frame, nested or not. The
  invariant `EAAInv` says of every issuer that it is what the constructor makes
  of a configuration, and of every EAA which issuer, attributes and options it
  was made of, that these were accepted, and what was merged of them; everything
  else follows from the validators. `IssuedAreAccepted` uses
  `QualifiedAreComplete`. The lemmas about members (`AddedTopLevel`,
  `InsideIsWithin`, `TopLevelShown`) say that what Issue writes replaces a claim
  with all that the caller had in it, and that what is in no other claim is
  shown if it is disclosed; `KeyOf` follows the key into `cnf`, and
  `BuiltCNFValid` says that what Issue builds has a form that ValidateEAA
  accepts. `EAAsPassAsVCs` goes through the validator of `VerifiableCredential`
  rule by rule. Assumed (`EAAArgumentsTyped`): types, that a member is there
  only inside a claim that is an object (a value of the wrong type has no
  members), that attributes bring no `aud`, and that verifiers require no member
  of a claim.
- `SerializationProofs` (of `Serialization`): `TypeCorrect`, `Implements`
  (refinement), `KeyBindingStays`, `FormsReadBack`, `AllReadersAgree`. Two facts
  carry them: a value in memory can be carried (its JWT has a payload that can
  be read, its disclosures parse with the algorithm it has), and whatever text a
  KB-JWT travels in, its JWT and its disclosures are those that were hashed
  (`Bound`). Neither is visible in the properties: that a payload can be read
  was true when the value was, and selections and other signatures must keep it.
  The lemmas are about sequences: what `Append`, concatenation and `SubSeq` do
  to the parts of a compact form, and that a selection is a subsequence. Assumed
  (`StringsTyped`, `ValuesAreIssued`): strings have no tilde, a disclosure has no
  dot, issuers state the algorithm that they hash with if there are disclosures
  (`algorithm_stated` is about the other case), and signatures of others bring
  no header. Apart from this, what other programs
  write into texts is arbitrary; a JSON text that has a tilde in a field, which no
  compact form can hold, is left out.
- `VCTMetadataProofs` (of `VCTMetadata`): `TypeCorrect`, `RulesOfAncestors`,
  `ExactComparison`. `RulesOfAncestors` is by induction over publication: the
  documents between a type and an ancestor are those between its parent and the
  ancestor and the type itself, so the line of its parent has the property
  already. Assumed (`DocumentsTyped`): types, and that indexes can be written.

The provers cannot instantiate an induction theorem whose parameter is an
operator. Where the proofs of `ProcessPayloadProofs` and `PresentationProofs`
need induction, over lists or over layers of a tree, they use it as a statement
about sets (`Induction`: a set with 0 and the successors of its members holds
all naturals), and show of each recursive function that it exists before they
use its equation.

Every property of a passing run is proved, `MissingExact`, `HolderSeesAll`,
`PresentableKeysExact` and `PromiseKept` under the premises that are named
above. Model-checked only: that a call of `ProcessSDJWTPayload` is never stuck
(no deadlock in `process_payload`), and the violation runs.

## Not modelled, and why

- Cryptography, base64url, DEFLATE, salts, certificates and JWK coordinates: no
  control of their own. `AllowedAlgorithms` is part of whether a signature
  verifies. Error texts; the examples; readers that change nothing
  (`GetAllKeys`, `HasClaim`, `GetClaim`, `ParseVCPayload`, `ParseEAAPayload`).
- Building, merging and converting frames: straight loops over a value of the
  caller. `MergeDisclosureFrames` shares nested frames with its arguments, and
  `PresentationFrame.ToMap` drops `Include[k]` where `Nested[k]` exists; nothing
  in the library depends on either.
- The token of a status list has an exp and a ttl that no code compares, and
  verifiers keep no nonces: there is nothing to model but that old tokens and
  old presentations arrive, which they do in the models.
- `oneTime` and `shortLived` of an EAA are written and never enforced.
- Type metadata: documents are pinned by integrity metadata and taken not to
  change, and whoever validates a type has the right parent; no code in the
  library fetches documents or evaluates a credential against them.
- Go types that only arise from unusual inputs (typed slices and maps in claims)
  are left to JSON's own types.

## Plan

Done, in this order: `Payload`, `ProcessPayload` and its proofs,
`SelectiveDisclosure` and `Presentation`, `StatusRegistry` and `StatusList` with
proofs, `HolderConsent` and `KeyBinding` with proofs, `VerifiableCredential`
with proofs, `EAA` with proofs, `Conveyance` and `Serialization` with proofs,
`VCTMetadata` with proofs, and the proofs of `VerdictExact`, `ResultExact` and
of all of `Presentation`.

What is left: frames as values (see above); and the composition of
`VCTMetadata` with `VerifiableCredential` once the library evaluates rules of a
type against a credential.
