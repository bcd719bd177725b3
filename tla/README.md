# A formal model of the receipt chain verifier

TLA+ modules that model `src/verifier`, its command line, the reference issuer
and the Go checker of the canonical form, the configurations that model-check
them, and theorems about them that TLAPS checks.  The reference is the code;
`SPEC.md`, comments and tests are read as claims about it.

    tlc -workers 2 -config MCSequence.cfg MCReceiptIntegrity.tla
    tlapm ReceiptIntegrityProofs.tla

## 1. The system

A caller hands `verify()` three parsed JSON values: an array of receipt
envelopes (`body` and `sig`), a key set and perhaps an anchor proof.  It
returns one `VerificationResult`, which gives each of three layers a status
(`PASS`, `FAIL`, `INCONCLUSIVE`, `UNSUPPORTED_VERSION`) and lists errors.  It
is one sequential call without I/O.  Its difficulty lies in the state that
three functions share and pass on while they walk through an array in which
anything may be wrong with any element.

| Component | State | Operations | Correct when |
|---|---|---|---|
| Result (`models.py`) | three statuses, `errors` | `add_error`, and some fourteen direct assignments of a status | a fatal error forces a terminal status, and a terminal status has an error that explains it |
| Layer 1 (`_verify_receipt_integrity`) | `receipt_hashes`, `seen_seqs`, the layer's status | one loop round for each envelope with seven ways out of it, then the sequence checks | PASS means one whole chain of acceptable receipts, in whatever order they came |
| Keys (`crypto.py`) | none | `lookup_key`, `check_key_validity`, `verify_signature` | exactly one key by tenant, kid and alg; window first, then revocation; boundaries half open |
| Canonical form (`canonical.py`) | none | `canonicalize` | injective on bodies, one output for each |
| Merkle tree (`merkle.py`) | index, level size, step index and digest of a walk | `compute_batch_root`, `verify_merkle_proof` | a proof verifies only for the leaf of its index, and every honest proof does |
| Layer 2 (`_verify_anchor_validity`) | the layer's status; reads `receipt_hashes` | a sequence of checks, the first error returns | an accepted proof binds its whole range to the disclosed receipts |
| Layer 3 (`_verify_completeness`) | the layer's status; reads `receipt_hashes` | density, then coverage of the range | never silently inconclusive, FAIL only for a sequence with a gap |
| `verify()` | the result and the dicts between the layers | argument checks, the layers in order | no layer takes back what an earlier one decided |
| Strict JSON (`strict_json.py`) | the decoder's place in the text | `load_strict_json_file` with `_reject_duplicates` | what is loaded says everything the file says |
| Command line (`cli.py`) | what is loaded, the exit status | parse arguments, load three files, call `verify()`, print | the first bad file decides; no fatal error is lost |
| Issuer (`scripts/generate_vectors.py`) | seq and hash of the last receipt | `make_receipt_body`, `sign_body`, `build_chain`, `gen_tv001` to `gen_tv020` | its vectors verify as they say, what it issues verifies after a rotation |
| Go check (`tools/go-canonical-check/main.go`) | `allPass`, the vector it is at | a second canonical form, `checkVector` | equals `canonical.py`; success means that every vector was compared |

How they interact.  The command line loads files with strict JSON, calls
`verify()` and prints.  Layer 1 calls keys and canonical form for each receipt and
enters receipts in `receipt_hashes`; layers 2 and 3 receive that dict.  All
layers write to one result.  Layer 3 reads the status of layer 1, and nothing
reads the status of layer 2.

What is hard.

- The two guards `if result.receipt_integrity == FAIL: continue`
  (verify.py:252, 257) test the status of the *layer*, which earlier receipts
  left.  `UNSUPPORTED_VERSION` overwrites `FAIL` (verify.py:81) and then makes
  `add_error` leave the status alone (models.py:101-106): after one unsupported
  receipt, bodies with errors of their own are hashed, recorded and indexed.
- A receipt is recorded before its key and signature are checked and stays.
- `seq_to_body` and `seq_to_tenant` are rebuilt from the raw array; the last
  envelope with a seq wins, checked or not.
- Values whose type nobody tested are indexed, hashed into sets and converted:
  exceptions leave `verify()`, and the result is lost.
- The numeric edges: bounds of windows and revocations, odd Merkle levels, a
  batch size taken from the claimed range, two texts of one number.
- Around the verifier the operator goes on: keys are rotated and revoked, a log
  is anchored and rolled back, and the key set disclosed is of a later moment
  than the receipts.

There is no concurrency, persistence, network or retry in this system; the
hazards in `PROJECT.json` are of the kinds above.

## 2. The modules

| Module | Models | State |
|---|---|---|
| `Json` | JSON values, as far as the code tells them apart | - |
| `Models` | `models.py`: statuses, codes, `add_error` | - |
| `KeyLifecycle` | `crypto.py` | - |
| `ReceiptChecks` | the two validators, canonicalization errors, the checks of one receipt | - |
| `ReceiptChain` | what a whole chain of acceptable receipts is, with no loop, dict or sorting | - |
| `IntegrityVerdict` | the abstract specification of layer 1: one step decides | `verdict` |
| `ReceiptIntegrity` | layer 1, one action for each way out of a round | `pc, pos, recorded, ri, errors` |
| `MerkleTree` | `merkle.py` as functions, and the honest operator's proof | - |
| `MerkleWalk` | `merkle.py` as the loops it is, both modes | `levels, claim, walk, pc` |
| `AnchorValidity`, `Completeness` | the checks of layers 2 and 3 | - |
| `Verifier` | `verify()`: argument checks and the three layers | also `anchor_validity, completeness` |
| `KeyPolicy` | the key rules of SPEC.md:380-429, as the document states them | - |
| `DocumentedClaims` | sentences the code does not keep | - |
| `Issuer` | the functions of `generate_vectors.py` | - |
| `Vectors` | the twenty vectors and `tests/test_vectors.py`, over `Verifier` | also `vector` |
| `Disclosure` | an operator and a discloser, composed with `Verifier` | also `issued, log, former, key_list, clock, anchored` |
| `StrictJson` | `strict_json.py` | - |
| `Cli` | `cli.py`, composed with `Verifier` | also `command, files, loaded, stage, printed, status` |
| `CanonicalForm` | `canonical.py`, code point by code point | - |
| `GoCanonicalCheck` | `main.go` | `repo, at, reports, allPass, exit` |
| `MC...` | inputs for TLC | - |
| `Recursion` | nothing: that recursive definitions over data mean what they say | - |
| `...Proofs` | theorems | - |

A JSON value is a tuple that begins with its type.  A string also has the kind
of its text (`decimal`, `time`, `sha256`, ...), because the code looks inside
strings; an object is a function from member names.  A check that returns at
its first error is the set of codes it reports, with `??` for "then, if there
was none".  Errors are a set of code, layer and severity: messages, order and
repetitions are left out.

`receipt_hashes` and `seen_seqs` always have the same entries: both are the set
`recorded` of the positions that were entered.  A position determines seq and
hash, and its order is the order of insertion, which matters for the stable
sort of equal numbers (`Before`).  The actions of layer 1 follow the loop:
`RejectEnvelope` (211-248), `RejectBody` (250-253), `RejectFields` (255-258),
`RejectUncanonical` (260-270), `RejectRepeated` (275-291), `RecordReceipt`
(293-323), and `RaiseOnReceipt` wherever an exception leaves; after it
`SkipSequence`, `CheckSequence` and `RaiseOnSequence` (325-385).  `Screened` is
the state of a body that both guards let through, with the errors it then
carries.  An exception ends a behaviour in `pc = "raised"`.

Layer 2 is one action for each kind of outcome, since it returns at its first
error and keeps no state of its own; layer 3 is one action.

`MerkleWalk` has one action for each way through a round: `Promote` (104-107),
`Climb` (109-138), `RejectStep`, and `LegacyClimb`, `LegacyRejectStep` for the
mode without a batch size (143-167).  `BuildLevel` is one round of
`compute_batch_root`; what is submitted comes from outside and may depend on
the tree.

`Vectors`, `Disclosure` and `Cli` extend `Verifier` and give it its inputs in
an action of their own or in their initial states; its steps are then theirs,
with their own variables unchanged.  In `Disclosure` the operator acts first
(`Issue`, `Rotate`, `Revoke`, `Anchor`, `Rollback`), then `Disclose` hands over
the key set of that moment, perhaps the anchor proof, and any sequence of the
receipts ever issued.  The operator's bodies, signatures and proofs are those
of `generate_vectors.py`; that it rotates, revokes and rolls back is taken from
SPEC.md, since no code of the repository does it.

In `StrictJson` a text is a tree of values, arrays, objects with their pairs in
order, and one mark where a syntax error is: enough to tell which error comes
first and what is lost when a member is repeated.  Its functions, and those of
the two canonical forms, are recursive functions on a set that is closed under
taking parts (`Texts` with `Depth`, `Values` with `Nesting`), so that TLC
evaluates them and the prover can reason about them.

## 3. What is abstracted

- SHA-256 over a canonical body, and over the two Merkle domains, is an
  injective term (`HashOf`, `LeafHash`, `NodeHash`); a signature is a term of
  key and body that no other signature equals.  Properties about verdicts are
  relative to that.  That the canonical text itself determines the body is not
  assumed but checked, in the run `canonical`.
- Timestamps count in ticks, `TicksPerMicrosecond` to a microsecond, because
  `_parse_ts` cuts finer digits off.  `Disclosure` has one tick to the
  microsecond: with finer ones an honest receipt of the same microsecond as a
  rotation and before it is cut to a time outside its key's window or not,
  depending on how the rotation was rounded.
- Left out of the values: booleans, which the code treats as other wrong types;
  uppercase hexadecimal digits (refused by `HASH_PATTERN`, accepted by
  `bytes.fromhex`); a hash with a final newline; floats as key ids or as ends
  of a range, where `int()` would round them; an array used as `body` that
  contains the string `"seq"`.
- The members of keys and anchor proofs that the verifier never reads (`kty`,
  `crv`, `use`, `chain`, ...).
- The number of rounds of the loop over the anchor's range (verify.py:511).
- In the canonical forms NaN and infinities, which JSON texts of the standard
  do not contain, and control characters other than the ones in the run's sets.
  `GoLimit` stands for 1e15.
- Six of the error codes are never reported by the code and so by no action:
  `RECEIPT_HASH_MISMATCH`, `KID_MISMATCH`, `ANCHOR_TX_NOT_FOUND`,
  `OVERLAPPING_RANGE_CONFLICT`, `DUPLICATE_RECEIPT_HASH`, `INCOMPLETE_RANGE`.

Not modelled: how the generator writes directories (pure output), `argparse`
and the JSON decoders beyond what they are used for (external), Ed25519 and
base64url, the regression tests (read as statements about the code).

## 4. What is model-checked

The runs of `verify()` check one input in each behaviour, so the sets of
initial states are the tests and the states are the rounds of the loop;
`disclosure` and `merkle_walk` produce their inputs on the way.  Runs may stop:
a call, a walk, a command ends, hence `CHECK_DEADLOCK FALSE`.

| Run | Inputs | States | Shows |
|---|---|---|---|
| `sequence` | all arrays of up to 4 of 8 envelopes | 27 418 | `ImplementsVerdict`, `FatalIffTerminal`, `RecordedIsSound`, `StatusOnlyWorsens`, types |
| `malformed` | all arrays of up to 2 of 36 envelopes, each wrong in one way | 4 811 | the same on every early `continue`, with the exceptions |
| `key_policy` | receipts at 10 times, 60 key sets, arrays of up to 2 | 36 740 | `PassFollowsKeyPolicy`, `LoneReceiptGetsItsCode` |
| `verifier` | arrays of up to 3 of 6 envelopes, 36 anchor proofs | 99 957 | `FatalForcesStatus`, `AnchorBindsRange`, `LaterLayersKeepVerdicts`, types |
| `completeness` | arrays of up to 3 of 10 envelopes, 7 anchor proofs | 82 301 | `CompletenessFailExplained`, `InconclusiveExplained`, `Returns` |
| `merkle_walk` | trees of up to 5 leaves; honest paths changed in one step, all paths of two steps up to 3 leaves, every index, sizes around the right one and 0 | 244 662 | `AcceptedIsAnchored`, `AcceptedIsInPlace`, `HonestIsAccepted`, `FunctionsAgree`, `Terminates` |
| `vectors` | the 20 vectors in every order of their receipts | 345 | `VectorsVerify` |
| `disclosure` | 3 receipts issued, 2 events, up to 3 receipts disclosed | 228 890 | `HonestPasses`, `HonestAnchorStands`, `SignedInForce`, `PassIsAHistory`, `AnchorPreventsRollback` |
| `command_line` | 17 receipts files, 11 key files, 14 anchor files, 4 kinds of arguments | 24 857 | `FirstBadFileDecides`, `ResultTellsFiles`, `PrintedIsVerdict`, `CommandEnds` |
| `canonical` | all pairs of 80 bodies as vectors, and pairs of damaged vectors | 32 304 | `GeneratedPass`, `SuccessMeansCurrent`, `TextIdentifiesBody` |

What the properties say.

- `ImplementsVerdict`: layer 1 implements `IntegrityVerdict`.  Its status on
  leaving is a function of the array as a set of receipts: `PASS` exactly when
  each is acceptable alone and together they form one chain from the genesis
  receipt; an exception only if some receipt is not acceptable.
- `FatalIffTerminal` and `FatalForcesStatus`: the invariant that models.py:97-100
  calls structural, in both directions, although statuses are also assigned
  without `add_error`.
- `StatusOnlyWorsens`: no later receipt takes back a bad verdict.
- `RecordedIsSound`: what layers 2 and 3 index and convert was validated,
  unless the layer is `UNSUPPORTED_VERSION`.
- `PassFollowsKeyPolicy`: what the chain of early returns in `crypto.py` lets
  through, the rules of SPEC.md allow.  `LoneReceiptGetsItsCode`: what it
  refuses, it refuses with the rule that was broken, on every side of every
  bound.  A receipt is in question only if nothing but the key rules can fault
  it (`NoOtherDefect`), and `LoneReceiptPolicy` names the code by what
  SPEC.md says of the key that the receipt selects.
- `AnchorBindsRange`: if layer 2 accepts, each number of the claimed range is
  the seq of a recorded receipt, and a proof for that receipt stands at that
  number's leaf.  No line of the code compares a proof's index with a seq: this
  follows from the root, the size of the tree and the bound directions.
- `LaterLayersKeepVerdicts`, `CompletenessFailExplained`,
  `InconclusiveExplained`: how the three layers depend on each other.
- `Returns`: the call ends, and a fatal error of layer 1 reaches the caller.
- `AcceptedIsAnchored`, `AcceptedIsInPlace`: what the walk accepts is a receipt
  of the batch, and with the right size the one at the claimed index; the first
  also without a size, where a submitter chooses the sides himself.
  `HonestIsAccepted` is the converse.  `FunctionsAgree` ties the loops to the
  functions that layer 2 is modelled with.
- `VectorsVerify`: each published vector gives its `expected.json`, and would
  in every other order of its array.
- `HonestPasses`: the whole log passes after any rotation, revocation from some
  time on, anchor and order of disclosure.  `SignedInForce`: what passes was
  signed by keys in force at the time.  `PassIsAHistory`: what passes is a
  beginning of a log the operator once had, never a mixture of a log and the
  one that replaced it.  `AnchorPreventsRollback`: with an anchor that is not
  refused, every anchored receipt is there.  `HonestAnchorStands` is the
  converse: of receipts that pass, an anchor whose receipts are all among them
  is not refused.  Together, layer 2 refuses the operator's anchor of a passing
  disclosure exactly if a receipt was left out.  A log cut off at its *end* passes,
  and one that was rolled back passes without an anchor: SPEC.md asks for no
  more, and layer 3 says `INCONCLUSIVE` about it.
- `FirstBadFileDecides`, `ResultTellsFiles`, `PrintedIsVerdict`, `CommandEnds`:
  of several bad files the first decides; a result is one of the whole files,
  with no member of any object lost at any depth; the `receipt_integrity` that
  is printed for loaded files is the verdict of `ReceiptChain` on the loaded
  array; a fatal error ends up in a printed failed layer or a traceback.
- `GeneratedPass`: on what layer 1 lets through the two canonical forms agree.
  `TextIdentifiesBody`: two bodies have one text exactly if they have the same
  members, in whatever order.  `SuccessMeansCurrent`: the Go program's exit
  status 0 means that every vector was read and compared, and no recorded
  Python text is out of date.

Why the bounds are enough.  Every check that relates receipts relates two that
are neighbours in the sorted sequence, or two with one seq; the status carries
one of four values from round to round.  With four receipts there are a gap
with neighbours on both sides, a fork and a good chain beside an unsupported
receipt, and each of the 24 orders of a chain with one bad receipt.  Three
leaves give the smallest tree with a promoted node and a path of two steps,
five one with two promotions in a row.  Ten ticks place a receipt before, on,
between and after both bounds of a window and a revocation, at two ticks to the
microsecond.  Two events are a rotation and a revocation, or a rollback before
or after an anchor; `Disclosure` was also checked with three events (2 249 209
states) and with four receipts (1 441 493 states).  The bodies of `canonical`
have the code points at which escapes, the plane and the order of UTF-16 units
change.

`TicksPerMicrosecond`, `MaxReceipts`, `MaxIssued` and `MaxEvents` are the only
bounds of the modules; the others are the input sets of the `MC` modules.

Fairness.  `FairSpec` of `Verifier` and `CliFairSpec` are weak fairness of the
next-state action: one call in one thread, one process, that waits for nothing
but its files; as long as it has a next statement, it executes it.  In
`MerkleWalk` the builder and the verifier are fair, and the submitter is not:
whether somebody submits a proof is not up to the code.  The runs
`completeness`, `command_line` and `merkle_walk` use fairness.

Each property has a mutant in `PROJECT.json`: a plausible slip in one
definition (a guard dropped, `>=` turned into `>`, a status started afresh, a
list of errors overwritten, names compared by code points) that the property
catches under the same configuration.  The mutants stand before the definitions
they change.

## 5. What is proved

For every value of the constants, that is for arrays of any length over any set
of envelopes, any key sets and any anchor proofs, batches of any size, and for
every history of an operator:

| Theorem | Module | Statement |
|---|---|---|
| `Layer1TypeCorrect` | `ReceiptIntegrityProofs` | `Layer1Spec => []Layer1TypeOK` |
| `FatalErrorsDecide` | `ReceiptIntegrityProofs` | `Layer1Spec => []FatalIffTerminal` |
| `StatusNeverImproves` | `ReceiptIntegrityProofs` | `Layer1Spec => StatusOnlyWorsens` |
| `RecordedSound` | `ReceiptIntegrityProofs` | `Layer1Spec => []RecordedIsSound` |
| `Layer1KeepsPromise` | `ReceiptIntegrityProofs` | `Layer1Spec => ImplementsVerdict` |
| `KeyRulesHold` | `ReceiptIntegrityProofs` | `Layer1Spec => []PassFollowsKeyPolicy` |
| `LoneReceiptsGetTheirCode` | `ReceiptIntegrityProofs` | `Layer1Spec => []LoneReceiptGetsItsCode` |
| `VerifierTypeCorrect` | `VerifierProofs` | `Spec => []TypeOK` |
| `FatalErrorsForceStatus` | `VerifierProofs` | `Spec => []FatalForcesStatus` |
| `VerdictsAreKept` | `VerifierProofs` | `Spec => LaterLayersKeepVerdicts` |
| `FailExplained` | `VerifierProofs` | `Spec => []CompletenessFailExplained` |
| `SilenceExplained` | `VerifierProofs` | `Spec => []InconclusiveExplained` |
| `ResultIsVerdict` | `VerifierProofs` | `Spec => []ReturnedVerdict` |
| `RecordedStaysSound` | `VerifierProofs` | `Spec => []RecordedIsSound` |
| `AnchorBinds` | `VerifierProofs` | `Spec => []AnchorBindsRange` |
| `RootBindsBatch` | `MerkleTreeProofs` | batches with one root are one sequence |
| `ProofsBindPlaces` | `MerkleTreeProofs` | accepted proofs for all different receipts of a batch and one size show the size and each receipt's place |
| `AcceptedAnchored` | `MerkleWalkProofs` | `Spec => []AcceptedIsAnchored` |
| `AcceptedInPlace` | `MerkleWalkProofs` | `Spec => []AcceptedIsInPlace` |
| `FunctionsCompute` | `MerkleWalkProofs` | `Spec => []FunctionsAgree` |
| `HonestAccepted` | `MerkleWalkProofs` | `Spec => []HonestIsAccepted` |
| `PassSignedInForce` | `DisclosureProofs` | `DisclosureSpec => []SignedInForce` |
| `PassedIsHistory` | `DisclosureProofs` | `DisclosureSpec => []PassIsAHistory` |
| `HonestLogPasses` | `DisclosureProofs` | `DisclosureSpec => []HonestPasses`, for times in microseconds |
| `AnchorStopsRollback` | `DisclosureProofs` | `DisclosureSpec => []AnchorPreventsRollback` |
| `AnchorOfDisclosedStands` | `DisclosureProofs` | `DisclosureSpec => []HonestAnchorStands` |
| `FirstBadFile` | `CliProofs` | `CliSpec => []FirstBadFileDecides` |
| `ResultsTellFiles` | `CliProofs` | `CliSpec => []ResultTellsFiles` |
| `PrintedVerdict` | `CliProofs` | `CliSpec => []PrintedIsVerdict` |
| `Recursion` | `Recursion` | a function given by its values at what is nested less deep exists |
| `TextsIdentifyBodies` | `CanonicalProofs` | `Spec => []TextIdentifiesBody` |
| `GeneratedVectorsPass` | `CanonicalProofs` | `Spec => []GeneratedPass` |
| `SuccessTellsCurrent` | `CanonicalProofs` | `Spec => []SuccessMeansCurrent` |

Assumptions.  TLC evaluates each of them in the runs of its module.

- `MaxReceipts` is a natural number, `TicksPerMicrosecond` a positive one, and
  the numerals in the envelopes denote integers (`NumeralsAssumption`).
- For the key rules the timestamps of keys, and of envelopes without an error
  in their fields, denote natural numbers (`TimesAssumption`): `_parse_ts`
  accepts years from 1 on, so there is a first time to count from.
- The numerals in anchor proofs denote integers and `receipt_proofs` is an
  array (`AnchorsAssumption`).
- `MerkleWalk` is about any set of batches, sequences of hashes that are not
  empty (`BatchesAssumption`).
- A file is unreadable or has one of `Texts` (`FilesAssumption`); the numerals
  in what is loaded denote integers (`LoadedAssumption`); texts are trees, with
  a `Depth` that is smaller at each part (`NestingAssumption`).
- `Values` are JSON values with the same kind of depth, their strings sequences
  of code points and the names of an object different (`ValuesAssumption`); the
  texts of bodies are the ones the two canonical forms give
  (`TextsAssumption`); a repository is a finite sequence of vectors about
  `Bodies` (`RepositoriesAssumption`).

Nothing is assumed of `MaxIssued` and `MaxEvents`.  `HonestLogPasses` alone
needs `TicksPerMicrosecond = 1`: an operator with finer times may sign in the
microsecond in which the key's window ends, and `_parse_ts` cuts the two times
to one.

### Layer 1

`FatalIffTerminal` is not inductive enough to tell *why* a status is what it
is, and the verdict is about the whole array while the loop has seen a part of
it.  `LoopInv` closes the gap.  During the loop

- the status is `UNSUPPORTED_VERSION` iff a receipt seen so far is unsupported;
- while it is `INCONCLUSIVE`, every receipt seen is acceptable and recorded;
- once it is `FAIL`, the array cannot be a whole chain of acceptable receipts.

The third part is where the order of the array enters: a repetition fails the
layer only at its second receipt, and shows that two positions have one number.
`EnvelopeOutcome` states what a round does to the status in one formula, so the
invariant is proved once and not for each of six actions.

At the end of the loop the checks of the sorted sequence must agree with
`Chained`, which knows no order.  `ChainHasNoErrors` and `NoErrorsMeansChain`
are the two directions.  The second needs that a receipt with a predecessor
below it has a greatest one: `LeastNat`, that a set of natural numbers has a
least element, is what the proof rests on there.  `LinkIsOwn` shows that the
body `seq_to_body` finds is the recorded one whenever the layer has not failed.
`LeavesVerdict` puts these together, and the refinement follows by a case split
over the actions: rounds of the loop are stutters, leaving it is `Decide`, an
exception is `Raise`.

`KeyRulesHold` rests on the same verdict: a PASS has only acceptable receipts
(`PassIsEarned`), an acceptable receipt selects exactly one key
(`AcceptableSelects`), and a key without a validity error is well-formed, open
and not revoked at the receipt's time (`ValidKey`).  `LoneReceiptsGetTheirCode`
goes the other way: for one receipt that passes every other check, the codes of
the key rules among the errors are those of `lookup_key` and
`check_key_validity`, and a case split over the keys selected shows that each
is the one that `LoneReceiptPolicy` names.

The invariants do not say that the input is one of the constants' sets.
`InputOK` and `CallOK` ask only that numerals denote integers, so the same
lemmas serve `Disclosure`, whose operator makes the receipts.

### verify() as a whole

`PhaseInv` adds that a layer that has not run is `INCONCLUSIVE`.  What layer 3
says can be explained only by what the layers before it have checked, and
`Handover` states that: recorded receipts have a seq; unless layer 1 is FAIL
their seqs are numerals, and a gap between them has made it
`UNSUPPORTED_VERSION`; layer 2 has failed an anchor proof whose range cannot be
read.  `GapsAreGaps` then turns neighbours that do not follow each other into a
number that is missing or occurs twice.  `ResultIsVerdict` carries the verdict
of layer 1 through layers 2 and 3 to the caller.

`AnchorBinds` is about proofs that name no seq.  `AnchorChecked` keeps what an
anchor that stands was checked for.  The root of the covered hashes equals the
anchor's, and an accepted proof for each covered hash has the size of the
range.  `Ranks` numbers the covered receipts in the order in which
`OrderedHashes` lists them, and `ProofsBindPlaces` says that each proof's index
is its receipt's rank; that the ranks then are the places in the range, with no
number left over, is `ProofsFillRange`.

### The Merkle tree

What `compute_batch_root` and `verify_merkle_proof` compute for every input is
a fact about recursive functions.  Each is first shown to exist as a function
of its rounds (`LevelsExist`, `WalkExists`, `AscentsExist`); the inductions are
then by a least counterexample (`LeastNat`, `UpTo`), which needs no theorem
that takes a predicate.

- `SpansAre`: every node of every level stands for a run of leaves, and the
  runs of a level follow each other.  `SameNodesSameRuns`: equal nodes, of one
  tree or of two, stand for equal runs, by the injectivity of the hash terms
  and because a leaf is never a node.  At the root this is `RootBindsBatch`.
- One accepted proof may claim a wrong size and index: the last leaf of
  three has the path of the last of two.  All of them together cannot.
  `MeetsAboveItself`, `MeetBelow` and `MeetSamePlaces` compare where the
  ascents in the two trees meet and give `ProofsBindPlaces`.
- `HonestVerifies`: the steps beside a leaf's ancestors lead the walk along
  them to the root (`HonestRound`).

In `MerkleWalk` the loops are state machines.  `LevelsOK` and `TreeOK` say that
each level is built from the one below and every node is a leaf or the hash of
two nodes.  `WalkOK` says of the walk: when the digest it holds is a node of the
tree, the submitted receipt is one of the batch; with the right size, when it is
the node at the walk's place, the receipt is the one at the claimed index.  At
the root this is what acceptance means.  The digest need not be a node at all,
but if a step makes it one, injectivity makes it one before the step too.
Nothing is assumed of the steps a submitter sends.

`AgreeInv` ties the loops to the functions: the levels built are never more
than the batch leaves room for, and the walk is at one of the rounds of the
function `verify_merkle_proof`, with enough rounds left for what is above.
`HonestInv` and `LegacyInv` say that an honest walk is on the honest ascent; in
the legacy mode it does not stop at promoted nodes, so its place there is the
last level with its number of used steps (`Settles`).

### The operator

`OperatorInv` describes what the operator has: one or two keys with names of
their own (`KeyListOK`); each receipt signed at a tick of its own, under a key
that will never pass for it (`Ended`) or will always (`Lasting`), whatever is
done to the key later (`IssuedOK`, `KeysOK`); and each issued receipt in a log
of the present or the past that was hashed into a chain (`HistoriesOK`).  With
`Handed`, that what `verify()` received is made of this, and `VerifierInv`, the
invariant of the call, it makes `DisclosureInv`.

- `PassSignedInForce`: an accepted receipt selects the operator's key, and an
  `Ended` key gives an error (`EndedFails`).
- `PassedIsHistory`: by `ResultIsVerdict` what passes is `Chained`, and a
  chain that ends in a receipt of some log is that log's beginning, from its
  last receipt down (`ChainIsHistory`).
- `HonestLogPasses`: each receipt is acceptable (`StandingAccepted`) and the
  log is `Chained` in any order (`LogIsChained`).
- `AnchorStopsRollback`: the anchor's root was compared with the root of the
  disclosed hashes, and by `RootBindsBatch` these are the anchored ones.
- `AnchorOfDisclosedStands`: a `FAIL` of layer 2 has an error of the anchor
  behind it (`AnchorRefused`), and a PASS records every receipt
  (`PassRecordsAll`).  Receipts that pass are one history, so the anchored ones
  stand in their numbers (`AnchoredInOrder`), their root is the anchored root,
  and the proofs are accepted by `HonestVerifies`: no check of layer 2 reports
  an error (`AnchorHasNoErrors`).

### Recursion over data

The prover has no induction over data and accepts no theorem that takes a
predicate.  `Recursion` goes around both.  It is parameterised by a set, a
depth and a body, and proves that the body's recursive function exists:
functions that solve the equation below a depth agree there (`Unique`), exist
for every depth (`Approximation`), and together are the function.  Each
recursive function of `StrictJson`, `CanonicalForm` and `GoCanonicalCheck` is
shown to have such a body, which gives its equation (`ErrorsEquation`,
`SerializeEquation`, `GoEquation`, ...).  `Induction` is the matching
principle, with a set of values in the place of a predicate.

### The command line

`ErrorsIn` and `ValueOf` have equations by `Recursion`.  That a text without
errors is told by its value is an induction on its depth: no name is repeated,
so the `CHOOSE` among the values of a name has one value to choose from.
`CliInv` says which files have been loaded at each stage and that each of them
had no errors; `FirstBadFile` and `ResultsTellFiles` follow from it.
`PrintedVerdict` carries `ReturnedVerdict` of `VerifierProofs` through the
stages, from `LoadedAssumption` on.

### The canonical form

`TextsIdentifyBodies` is a theorem of unique readability.  `FirstCharacter`
tells the type of a value by the first character of its text.  What is inside is read from the left: two lists of texts that are
joined by commas, or two strings in their escapes, and continue in different
ways but give one text, are the same lists (`UniqueParts`, `OneReading`), and
where one text ends is fixed because no text continues another.  `Reading` is
then an induction on the depth of the value: equal texts say the same.
`Saying` is the converse, and needs that the order of members does not depend
on the order they came in: the comparison of names by UTF-16 units is a strict
total order (`BeforeTransitive`; `UnitsIdentify`, that different names have
different units, is where surrogate pairs enter), and in such an order each
member has one rank (`Ranking`, `PairsSorted`).

`GeneratedVectorsPass` compares the two programs.  Go decodes an object to a map
and sorts the names alone, Python sorts pairs: `NamesSorted` shows that both
come to one sequence.  Go escapes by a table of its own (`SameString`); numbers
agree as far as the profile goes (integers, since layer 1 refuses the rest).
`SameText` is the induction that puts these together.  `Checked` is the
invariant of Go's loop, which `GeneratedVectorsPass` and `SuccessTellsCurrent`
share: `allPass` is `TRUE` exactly while every vector checked so far passed.

### Only model-checked

- Liveness under fairness (`Returns`, `Terminates`, `CommandEnds`), which the
  prover cannot express.
- `VectorsVerify`: it is about twenty given vectors, and the run checks all of
  them in every order.
- The two runs of section 6, which show a violation.

Every other property of a run is proved for all values of the constants.

## 6. Where the code and its documents disagree

Two runs show a sentence of the repository violated by the code; each checks
one definition of `DocumentedClaims`.

- `NeverRaises`: an anchor proof whose `tenant` is an array makes
  verify.py:440 raise `TypeError`, against the purpose of the RCV-007 tests.
- `ForkAlwaysReported`: a receipt that fails earlier in the array hides the
  second branch of a fork (verify.py:252; SPEC.md:451).

Seen while reading and modelled as the code has it, without a run:

- A validator's error after an unsupported receipt does not set FAIL
  (verify.py:257; the comment at verify.py:116-117 says it does).
- `reasons: null` passes (verify.py:143; SPEC.md:597).
- `"1\n"` passes as a seq, because `$` matches before a final newline
  (verify.py:173; the comment at verify.py:172).
- Layer 2 reports `RANGE_NOT_COVERED` as its own (verify.py:523; SPEC.md:691),
  and the command line files the repeated member of an anchor proof under
  `anchor_validity` (cli.py:57; SPEC.md:666).
- An empty `request_digest` or `policy_version` skips the format check
  (verify.py:185; SPEC.md:164).
- A receipt less than a microsecond before `not_before` is inside the window
  (crypto.py:291; SPEC.md:393).
- An anchor proof without `tx` is accepted without `ANCHOR_UNCHECKED`
  (verify.py:663; SPEC.md:519).
- `range_start`, `range_end` and `leaf_index` may be JSON numbers (verify.py:497,
  625; SPEC.md:163).
- The command exits with 0 whatever the verdict (cli.py:59-60).
- `build_chain` begins with the genesis marker whatever `start_seq` is, and from
  the eleventh receipt on its `ts` is no timestamp (generate_vectors.py:164-167).
- `main.go` writes 5.0 as 5 where `canonical.py` refuses it, refuses integers
  from 1e15 on where `canonical.py` writes them, and replaces unpaired
  surrogates where `canonical.py` raises (main.go:4-6 promises the same rules;
  no such body passes layer 1).  A vector without a recorded Python text counts
  as PASS (main.go:106-107).

## 7. Plan

Done: all components named above, their composition, the theorems of section 5.
Left:

1. The rounds of the loop over the anchor's range (verify.py:511), which may be
   many more than there are receipts: a bound on them needs a cost in the model.
2. Layer 2 with several anchored batches over one log, once the code reads more
   than one anchor proof.
