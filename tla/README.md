# Anchor Suite, specified

TLA+ specifications of the Anchor Suite: a Cloudflare Worker (`src/worker.mjs`)
and a handful of static pages (`public/`) that let a user anchor the hash of a
document with timestamp authorities and with a public transparency log, keep
the receipts, verify them later, and have documents signed.

`X.tla` is a specification, `MC_X.tla` instantiates it for TLC, `<run>.cfg` is a
run, `X_proofs.tla` holds theorems checked by the TLA+ proof system.
`PROJECT.json` lists the runs, the theorems, which line of the code each
definition stands for, the hazards, and, for every property, one plausible
mistake in the code (a *slip*) that breaks it. Paths below are relative to the
repository's root.

    tlc -config relay_calls.cfg MC_SigsumRelay.tla
    tlapm SigsumRelay_proofs.tla

## 1. The system

| component | state it keeps | operations |
|---|---|---|
| Sigsum relay (`src/worker.mjs` 60-240, 2119-2265) | per isolate: the promise of the token header, the derived session key, a 24 h window counter | `GET session`, `POST add-leaf`, `GET get-tree-head`, `GET get-inclusion-proof` |
| RFC 3161 relay (`src/worker.mjs`, `handleRelay`) | none; the platform's rate limiter | forwards one timestamp request |
| MCP endpoint (`src/worker.mjs`, `handleMcp`) | none per request; the protocol era follows from headers and body | initialize, list, call |
| Stamping tools (`stampWithAuthorities`, `stampOts`, `upgrade_ots_proof`) | none; partial results of parallel authorities | stamp one hash or a batch, complete an OTS proof |
| Verification and envelope tools | none | verdicts over parsed records |
| Sigsum client (`public/lib/sigsum.mjs`) | `sessionArtifact`, for the life of the page | stamp, look for a proof, upgrade, verify |
| Merkle batches (`public/lib/merkle.mjs`) | none | build a tree, its audit paths, check one |
| Anchor page (`public/js/anchor.js`, `anchor-webmcp.js`) | current file, hash, artifact, batch, results, boxes, one button | load, paste, stamp, stamp a batch, check inclusion, recompute, download; `anchor_hash` for an agent |
| Artifact library (`public/lib/library-bridge.mjs`, `public/js/artifacts.js`) | IndexedDB records, shared by all tabs; a snapshot per tab | save, update, pin, move, delete, re-verify |
| Verify page (`public/js/verify.js`, `verify-runner.mjs`) | one list of cards | verify a dropped file, check a pending binding, save |
| Anchorproof pages (`sign-request.js`, `sign.js`, `sign-verify.js`) | document, envelope, signatures | request, sign, verify, countersign |
| Token and memo verifiers, converters, gates, vendored code | none of interest | pure functions over bytes, and scripts |

How they interact. The pages call the relays and the MCP endpoint with `fetch`;
the relays call timestamp authorities and the log `seasalp` with a timeout.
Pages share nothing with each other but IndexedDB and a broadcast channel that
says that a record changed. Isolates of the Worker share nothing but their
deployment's secret: an artifact sealed by one is opened by another. Stamps
leave *pending* bindings, which later checks from any page complete.

What is hard. Handlers run to their next `await` and interleave there: over the
isolate's caches, over the page's variables, over records read in one
transaction and written in another. Fetches time out although the other side
did its part. Isolates are evicted and redeployed with other secrets; tabs are
closed. The log sequences and publishes on its own cadence, between any two
requests. Counters roll over. Every hazard we found is in `PROJECT.json`, at its
line, with the properties that cover it or why none does.

What makes each component correct:

- *Relay*: the domain's token rides only on a genuine, unexpired session of the
  same caller, and always on one; every accepted submission is forwarded; what
  a 429 says is true; every call is answered.
- *Client*: a leaf is submitted once; its receipt goes from nothing to pending
  to proof and never back; a proof places the leaf in the tree whose root it
  carries; a submitted leaf is not forgotten; nothing blocks the tab.
- *Anchor page*: a receipt is of one hash and one run, and, when nothing
  overlapped it, of the hash and the artifact on the page; a batch receipt's
  entries verify under the root its bindings stamp; the button comes back.
- *Library*: what a record exports is what its badges say; records no two
  operations go by at once behave like a map of whole records; every page ends
  up listing what is stored.
- *Signing*: an envelope names the document whose digest it carries; what a
  signer is given is of one signing, of what the link asked for; and what is
  countersigned was verified, and was signed for the document it names.
- *Merkle*: the paths that are built verify, and nothing else does.
- *Stamping tools*: the bindings returned are exactly those of the authorities
  that answered; OTS goes from pending to completed only with the calendar's
  proof.
- *MCP*: one era per request, and its rules applied throughout.
- *Verification*: one binding gets one verdict, wherever it is looked at, and
  the cards on the page are of the file on the page.

## 2. What is modelled

### SubmissionGate, SigsumRelay: the relay

`SigsumRelay` is `handleSigsumRelay` with `mintSigsumTokenHeader`,
`sigsumSessionKey`, `sealSigsumSession`, `openSigsumSession` and
`recordSigsumSubmission`, on several isolates. A call runs to its next `await`
in one step (`pc` names the await), so calls interleave exactly where the event
loop lets them. `mint`, `key` and `window` are the three module-level variables
`sigsumTokenHeaderPromise`, `sigsumSessionKeyCache` and `sigsumBudgetWindow`;
`secret` is the environment's. The rest is the world: the clock, the log's
bucket for the domain (`bucket`), eviction and redeployment (`Restart`, which
takes the calls in progress with it), and a rate limiter that may refuse anyone.

Abstracted: the token header is a deterministic signature under the secret and
the session key a digest of it, so both are represented by the secret itself;
an artifact opens under the key it was sealed under (HMAC); request bodies,
status texts and CORS are left out. An artifact has the four parts its payload
and MAC amount to: form, key, tag (caller) and expiry.

`SubmissionGate` is the promise to one add-leaf call: refused at the door, or
forwarded before it is answered; with the token exactly when, at one instant
between acceptance and forwarding, its artifact was genuine, unexpired and its
caller's. It knows no cache, counter or await. `ImplementsGate` says the relay
implements it, `Gate` being the refinement mapping.

| run | instance | what it shows |
|---|---|---|
| `relay_calls` | 2 calls of any kind, 2 callers, 1 isolate, a usable and an unusable secret | `TokenRidesOnSession`, and `EveryCallAnswered` under `FairSpec` |
| `relay_isolates` | 1 session and 2 other calls, 2 isolates, 2 secrets, redeployments, budget 1 | `TypeOK`, `ValidSessionHasToken`, `CountIsHonest`, `DeclineTellsTheTruth`, `ImplementsGate` |
| `relay_note` | 2 submissions without a session, budget 1 | finds `TokenlessNeverToldSpent` violated |

Bounds. Two calls are enough for one to reuse what another minted, replay what
it was given, or wait on its promise; three, one of them a session, for a
submission to be counted between another's count and its 429. Two isolates are
enough for an artifact to cross from one to another and for their counters to
differ from the bucket. With the budget at 1 the second submission is past it.
`TTL = 0` and `Window = 0` put every boundary one tick away: an artifact lives
for the instant it was sealed in, a window for the instant it was opened in;
`LastTime` lets the clock pass both. Calls are made at most once each; the
constraint `OneSession` leaves one call that asks for a session. The proofs below
need none of these bounds.

Fairness. `FairSpec` asks that the event loop runs what can run (`Serve`), that
crypto settles (`MintResolves` or `MintRejects`), and that a fetch to the log
ends (`Upstream`), which `AbortSignal.timeout(UPSTREAM_TIMEOUT_MS)` makes sure
of. Nobody is obliged to call, to restart anything, or to let time pass.

Found. `TokenlessNeverToldSpent`: a 429 to a *tokenless* submission carries the
header `X-Sigsum-Budget-Note: ... consistent with the budget being spent` once
the isolate has counted more than its budget, since `budgetNote` looks at the
counter only (`worker.mjs:2236`), against the comment three lines below ("a
tokenless submission never touches ainumbers.co's budget, so reporting ours as
spent would be false"), which the sentence in the body obeys. Two remarks that
are no contradictions: `windowCount` is read up to 25 s before it is quoted,
which `DeclineTellsTheTruth` takes into account by comparing with what had been
counted then; and the `mint-failed` token state the code reports cannot occur
(`TokenDelivery` below), because a session that opened proves the header cached.

### LeafReceipt, SigsumReceipt: the client of the log

`SigsumReceipt` is `stampSigsum`, `sessionHeaders`, `tryFetchInclusion` and
`upgradeSigsumBinding` against a log that takes, sequences and publishes
independently. `pc` is where a stamp is, `look` where a look for a proof is (on
behalf of the stamp or of a check of the pending binding), `binding` what the
user holds. Stamps may overlap: a batch awaits its tree before `runStamp`
disables the button (`anchor.js:417`, 355), so two clicks start two; they share
the cached artifact, and so do the checks that run beside them. Each fetch may end in any way at any
time, and the log may have taken a leaf nobody is told about (`SubmitFails`
leaves the request in `flight`). `LookThrows` is the code's own: a 200 whose body
cannot be read or lacks a field is caught nowhere in `tryFetchInclusion`.
Closing the tab loses all but the bindings handed out.

Abstracted: keys, signatures and hashes (a leaf is its stamp, a tree is its
size, since the log only appends); cosignatures; the pauses between attempts.
A 200 or a 202 is taken to mean that the log has the leaf, which is the log's
promise and not the client's.

`LeafReceipt` is what a user may expect: one submission per stamp, a receipt
that goes from nothing to pending to proof and never back, and a proof that
places the leaf in the tree whose root it carries.

| run | instance | what it shows |
|---|---|---|
| `receipt` | 2 stamps, 2 attempts, TTL 3, mint timeout 1, margin 1, 4 ticks | `TypeOK`, `SessionOutlivesTheTrip`, `ReceiptsHold` (`NoReceiptWithoutLeaf` and `ProofsMatchTheLog`), `ImplementsReceipt`; under `FairSpec`, `EveryCallReturns` and `PendingCompletes` |
| `receipt_orphan` | 2 stamps, 1 attempt | finds `AckedIsNeverOrphaned` violated |

Bounds. Two stamps are enough for the second to use the artifact the first one
cached and for the tree to grow between a tree head and a proof. `TTL = 2 *
MintTimeout + Margin` is the tightest lifetime the assumption allows: a stamp
whose own mint failed takes the artifact another stamp cached meanwhile without
looking at its age, and that one may have been asked for a whole mint timeout
before the failed mint began. The clock outlasts it, so a cached artifact
goes stale. Two attempts make the first and the last differ.

Fairness. `FairSpec`, under which the whole run is checked: fetches end (each has
an `AbortSignal.timeout`). `EveryCallReturns` rests on that alone, with a log
that may never merge or publish; its slip forgets to count an attempt
(`RetryUncounted`), and such a client asks for ever. `PendingCompletes` cannot
rest on it: the log owes nobody anything and a user may stop looking. What it
needs besides is its premise, `Patience`: the holder keeps checking, the log
keeps sequencing and publishing, and a tree head and a proof get through now and
then (strong fairness: the retries between them disable each again and again).
It is a premise of that formula and not of the specification, so nothing else
leans on it.

Found. `AckedIsNeverOrphaned`: after a 200 or 202 the quick look is awaited
unguarded (`sigsum.mjs:233`); what it throws rejects the stamp, the page reports
the authority as failed, and the pending binding, with the only copy of the
leaf's signature and key, is gone, against the comments at 212 ("the stamp
returns immediately with everything needed to upgrade later") and 215.

### MerkleBatch: batches and inclusion proofs

`MerkleBatch` is `merkle.mjs` (`mth`, `auditPath`, `buildMerkleBatch`,
`rootFromInclusion`, `verifyMerkleInclusion`) and the loop of `verifyInclusion`
in `sigsum.mjs`, over free hash terms: two hashes are equal only if they were
built alike. The recursions of `mth` and `auditPath` are functions of a slice of
the leaves, by its length and first leaf; each loop is the function of what it
holds after each round, for as many rounds as it can go round at most. A behaviour builds one batch and verifies
one claim, so the states are the inputs. A claim may be an entry, anything made
of the hashes of the tree (a hash inside it in place of a leaf, a path one too
short or too long, an index or a size beyond the batch), or a bare shape: any
index, size and path length up to a bound, over hashes of no tree.

| run | instance | what it shows |
|---|---|---|
| `merkle_batch` | batches of 2..4 of two digests, repetitions included, with all claims made of them; sizes to 17, paths to 6 | `EveryEntryVerifies`, `OnlyMembersVerify`, `ClimbIsTheDefinition`, `VerifiersAgree`, `SigsumTakesMore` |

Bounds. Trees of 2, 3 and 4 are the shapes a node can have (two halves, one half
without a sibling, two full levels); 17 is one past a power of two, where a last
leaf skips four levels, and six hashes are one more than any path there has.

Found. `SigsumTakesMore`: the comment on `sigsum.mjs`'s verifier names the
algorithm of RFC 9162 section 2.1.3.2 and sigsum-go's `VerifyInclusion`
(`sigsum.mjs:114`), which refuse hashes left over at the end of a path and an
index that is not in the tree, as `merkle.mjs` does. This one refuses neither.
`VerifiersAgree` asks for one root wherever the algorithm named gives one;
`SigsumTakesMore` says exactly what is taken beyond it: of a path, the first
part that leads to a root, whatever follows; of an index past the tree, one that
ends in the bits of the last leaf's (of three leaves, 6 for 2), for the loop
looks at no other bits (`Round`).

A remark. An index and a size other than the batch's own may verify for a member
of the batch (the root does not commit to the size), so `OnlyMembersVerify`
speaks of the place only for the batch's size.

`MerkleBatch_proofs` proves the five for batches of any number of digests and
claims of any size, index and path (section 3); numbers are naturals there,
while the index in `sigsum.mjs` is a JavaScript number, exact below 2^53.

### AnchorPage: stamping from the page

`AnchorPage` is `anchor.js` with the tool of `anchor-webmcp.js`. Its variables
are the page's own (`hash` is `currentHashHex`, `ocg` `currentOcgArtifact`,
`results` `stampResults`, and so on), its actions the handlers from one await to
the next; each wait is a `job`. So a second file may be dropped while the first
is read, a hash pasted while authorities are asked, items removed while their
tree is built, a batch started while one is being built (the button is disabled
only in `runStamp`, after the tree), and an agent may press the button at any of
these times. Stamping in parallel is one action per authority that answers
(`AuthorityStamps`, `AuthorityFails`).

Abstracted: a file is its digest or the execution hash of the artifact in it; a
tree is the sequence of its hashes (`MerkleBatch` is about trees); a binding is
its authority, what it stamps, whether it is pending, and the number of the
click it came from. The lines of the authorities, the button and the boxes are
kept because code reads them; the rest of the drawing is not. Two history
variables say when the page's owner has overlapped things (`crossed`,
`muddled`): the code lets him, receipts then mix, and the properties about one
receipt say what holds as long as he does not. `OneHashPerReceipt` holds always.

| run | instance | what it shows |
|---|---|---|
| `anchor_page` | 2 digests, Sigsum and a timestamp authority, batches of at most 2, 2 waits at once, 4 acts | `TypeOK`, `OneHashPerReceipt`, `ReceiptsMatchThePage` (`SingleReceiptMatchesPage` and `BatchReceiptMatchesItems`), `StampedIsOnThePage`; `PageComesBack` under `FairSpec` |

Bounds. Two waits are what an overlap needs: every hazard here is one handler
going on with what another has changed. Four acts are enough to load, stamp,
change what was loaded, and click again; a pasted batch of two may be there at
the start so that the four are spent on it. A root of two hashes is told from
its items' permutation. Fairness: `WF` of each wait, for every authority is
asked with a timeout, the tool's poll has a deadline of 45 s, and a file read
ends; for OpenTimestamps, whose client is vendored, this is trusted.

### Library: records in several tabs

`Library` is `library-bridge.mjs`, the handlers of `artifacts.js` that read or
write a record, and the saves of the other pages. `store` is the object store,
`list`, `selected` and `verdict` are `allRecords`, `selectedKey` and
`detailVerifyResults` of each page, and an `op` is what a handler has still to
do: the read, the write that follows it whatever happened between, a second
write (`doMove`), the log, the verifiers. `stale` holds the pages with a
`refresh()` under way; a refresh may overtake or follow any step of any
operation. The database may refuse one thing in a trace; a read that is
refused is taken for no record, as the code takes it.

Abstracted: a record's artifact is one Sigsum binding, its leaf and whether its
proof has been collected, beside the record's text, pin and place. Which pinned
records a filter shows as neighbours is left open, so any two may change places.

`ideal` is the abstraction of the bridge, kept beside it: the store there would
be if every save, update and deletion were one step on a map of whole records.
`raced` holds the keys that two operations have gone by at once; with two tabs
this happens, and then a pin, a collected proof or a deletion may indeed be
undone: nothing in the code holds a record. `ActsLikeAMap` says that this is
the only way: every other record is what the map would hold.

| run | instance | what it shows |
|---|---|---|
| `library` | 2 pages, 2 records (one pinned), 2 stamps, 2 operations at once, 2 acts | `TypeOK`, `RawTextIsParsed`, `ActsLikeAMap`, `BadgesAreOfTheSelected`, `PinOrder`; `ListsBecomeCurrent` under `FairSpec` |

Bounds. Two records are needed to change places and to turn from one to the
other, two pages for a page that lists less than is stored. Two acts, each of
up to two reads, writes and a look at the log, are the pairs of operations; the
theorems below are for any number. Fairness: an IndexedDB request and a fetch
end, and a broadcast reaches every open page.

### SignatureOrder, SignCeremony: request, sign, verify, countersign

`SignCeremony` is `sign-request.js`, `sign.js` and `sign-verify.js` with what
they use of `anchorproof.mjs` and `jades.mjs`. Each page is a record of its
variables (and of which sections it shows, since nothing else guards a
handler); the link passes from the first to the second, the artifact from the
second to the third. A signing goes from prompt to prompt as a `job`; it may
fail at each. Loading is two actions, the drop and the end of the read, so that
a document may come in between any two steps of anything.

Abstracted: a document is its digest and name at once; an assertion is its key
and the message it is over, so verifying one is comparing both; of an anchored
event what it says is kept, its timestamps are `Verdicts`'. `swapped` and
`exchanged` are history: another file came in, or another request was made,
while one was under way.

`SignatureOrder` is what the parties may expect of the three pages together: a
link that is followed was sent or is shown; under it one signature is given, of
the document and the envelope it asks for; a second signature is given once,
under a first that has passed the verify page's checks with the document at
hand, and its event names both. It knows no file, prompt, button or failure. Under the mapping `Order` a
verification counts until a file comes in (`exchanged`); then nothing is
promised of what the verify page makes, and the specification says so by losing
`verified` and `counter` for good.

| run | instance | what it shows |
|---|---|---|
| `sign_ceremony` | 2 documents, two links that lack a part and two received files (one damaged, one signed for another document than it says) to begin with, 6 acts | `TypeOK`, `RequestIsOfOneDocument`, `SignedWhatWasAsked`, `CountersignedPassedTheChecks`, `ImplementsOrder` |
| `sign_foreign` | the same, 5 acts | finds `CountersignedWhatWasSigned` violated |

Bounds. Six acts are those of the longest single page: two files, a
verification, another file, a countersignature, and one more click anywhere.
Beginning with files that an earlier ceremony made spares the acts of the pages
before. Whole links are made on the way; of a link only the hash, or only the
envelope, may have arrived (`sign.js` 29-38): under the latter any document can
be signed, under the former one that has no envelope of the sender's, and
`SignedWhatWasAsked` holds the signer to the part there is. The theorems below are for any number.

Found. `CountersignedWhatWasSigned`: that a first signature which is
countersigned verifies, and is of the document the bundle names. It fails in two
ways. The page compares the document at hand with the artifact's `doc_digest`
(`sign-verify.js:102`), which nothing signs, and verifies the assertion over the
artifact's `signing_message` (120), which has a `doc_digest` of its own; the two
are never compared, although `sign/verify.html:42` says the service proves "that
a specific document hash was signed", and although the Worker's
`verify_signature_envelope` compares them (`worker.mjs:1352`). This is the trace
of `sign_foreign`. And after another file is loaded the countersign section
stays (`MayCountersign` opens it, nothing closes it), so that a countersignature
may be of an artifact nobody has verified under the words "You have verified the
signer's artifact" (`sign/verify.html:81`); with a file that is sound in place
of the foreign one the same property finds that.

What does hold is `CountersignedPassedTheChecks`: whatever is loaded meanwhile,
a second artifact, its event and its receipt are of one signing; and while no
file has come in since, the first has passed the two checks the page makes.
`exchanged` marks the second way to fail, and the first is not a matter of time.

### Verdicts, McpServer, VerifyPage, Surfaces: the Worker's tools and verdicts

`Verdicts` is what the three places that verify a binding say of it: the tool
`verify_anchor_binding`, the cards of the verify page, the badges of the
library, and the verifiers they share. A binding is its type and what is wrong
with it. `SigsumTruth` and `MayPass` say what a verdict should be without the
code: by the set of witnesses, not by a loop over lines.

`McpServer` is the Worker but for its Sigsum relay: `handleMcp` with its eight
tools, and `handleRelay`. A call is checked in one step, asks the limiter, and
hears one answer from outside after another, since every tool asks one
authority, calendar or endpoint at a time. The guards of `handleMcp` and of
`handleRelay` are lists in the order of the code (`Refusals`,
`RelayRefusals`): `Grounds` are the places of those that hold, and the `Verdict`
is the reply at the first of them. `VerifyPage` is `verify.js`:
runs over dropped files, which share one list of cards. `Surfaces` puts them
side by side, so that what they say can be compared.

Abstracted: a header or a field is what it says of the other; hashes, texts and
encodings are left out; a calendar on another host of a pinned operator stands
for the pinned one.

| run | instance | what it shows |
|---|---|---|
| `surfaces` | 2 calls, 2 files, or one of each, out of 52 requests and 27 files; one request a minute passes the limiter; every form of an MCP request and of a closure alone | `TypeOK`, `ServedUnderItsEra`, `ToolsAnswerWhatTheyHeard`, `SurfacesAgree`, `SurfacesTellLess`, `CardsTellOneFile` |
| `verify_ocg` | the same, one act | finds `ExecutionHashIsShown` violated |

Bounds. Calls share nothing but the limiter, so two that compete for its last
token are all there is between them; the same holds of two runs over the cards.
The bindings are of each kind, sound and with a flaw of each group the code
tells apart (`Various`); the quorum is met with two distinct witnesses and
missed with one that signs twice. Requests that differ in form only (every
version in header, `_meta` and offer, every relation of the routing headers to
the body, every method) are served alone, because nothing about their form
survives the step that checks it.

Found. `ExecutionHashIsShown`: verifying an artifact ends with verifying its
bindings, and that begins with clearing the results (`verify.js:102`, called at
358), so the cards of its execution hash, signature and seal are gone when
there are bindings, also when the hash does not match, against
`public/llms.txt:109` and `public/docs/index.html:179`.

Found. `SurfacesTellLess`, two disagreements with what the tool says of itself.
`verify_anchor_binding` "reconstructs the Merkle root from the leaf and path and
confirms it equals the anchored_hash" of a binding that carries a
`merkle_inclusion` (`worker.mjs:1674`), but does so for timestamps and memos
only: a Sigsum binding (900) whose inclusion fails is called valid, although the
anchor page attaches one to each binding of a batch (`anchor.js:543`). And it
answers every OpenTimestamps binding with "pending" (879) without reading the
proof, against "until Bitcoin confirms" (`public/llms.txt:149`), also one
`upgrade_ots_proof` has completed. `SurfacesAgree` prescribes neither: a Sigsum
binding that its batch does not hold may be refused there, and nothing is said
of when an OpenTimestamps binding is pending. `SurfacesTellLess` states what
each surface does pass over, the page and the library included (the library's
badge of a timestamp does not look at its inclusion proof either,
`verify-runner.mjs:12`), so that a change there is seen.

A remark. A dropped `.ots` file is verified against a hash of 64 zeros
(`verify.js:421`), so it fails whatever it is, although `verify.html:39` accepts
it.

## 3. What is proved

For every value of the constants that satisfies the named assumptions
(`RelayAssumption`: the budget, the lifetimes and the clock's bound are natural
numbers, finitely many calls, `None` is no value of the other sets;
`ReceiptAssumption`: the lifetime of a session covers two mint timeouts and the
margin; `LibraryAssumption`: finitely many records, a stamp is of one;
`VisitsAssumption`: the library begins with whole records, the pinned ones in
places of their own; `CeremonyAssumption`: the files there were are signature
artifacts; `PageAssumption` of `AnchorPage`: the pasted batches are sequences of
digests, no sequence of digests is a digest; `WitnessAssumption`: the quorum is
made of witnesses; `ServerAssumption` and `SurfacesAssumption`: the limiter lets
somebody through, and what is requested is of the form of requests;
`PageAssumption` of `VerifyPage`: what is dropped is of the form of files, the
hash of zeros is no file's, and what the log makes of a pending binding is a
proof; `MerkleAssumption`: the bounds of the batches are natural numbers; the
`NoneAssumption`s: `None` is no value of the other sets):

| theorem | says |
|---|---|
| `RelayInvariant` | `RelayInv` is an invariant of the relay |
| `TypeCorrect`, `TokenSafety`, `TokenDelivery` | `TypeOK`, `TokenRidesOnSession`, `ValidSessionHasToken` |
| `CountSafety`, `DeclineSafety` | `CountIsHonest`, `DeclineTellsTheTruth` |
| `Refinement` | the relay implements `SubmissionGate` |
| `ReceiptInvariant` | `ReceiptInv` is an invariant of the client |
| `ReceiptTypeCorrect`, `SessionSafety`, `ReceiptSafety` | `TypeOK`, `SessionOutlivesTheTrip`, `ReceiptsHold` |
| `ReceiptRefinement` | the client implements `LeafReceipt` |
| `LibraryInvariant` | `LibInv` is an invariant of the library |
| `LibraryTypes`, `ExportsAreWhole` | `TypeOK`, `RawTextIsParsed` |
| `UnracedKeysActLikeAMap`, `BadgesMatchTheRecord` | `ActsLikeAMap`, `BadgesAreOfTheSelected` |
| `PinnedInOrder` | `PinOrder` |
| `CeremonyInvariant` | `CeremonyInv` is an invariant of the ceremony |
| `CeremonyTypes`, `RequestSafety` | `TypeOK`, `RequestIsOfOneDocument` |
| `SigningSafety`, `CountersigningSafety` | `SignedWhatWasAsked`, `CountersignedPassedTheChecks` |
| `OrderRefinement` | the three pages implement `SignatureOrder` |
| `PageInvariant` | `PageInv` is an invariant of the anchor page |
| `PageTypes`, `OneHashAlways` | `TypeOK`, `OneHashPerReceipt` |
| `ReceiptSafety` (from `SingleReceiptSafety`, `BatchReceiptSafety`) | `ReceiptsMatchThePage` |
| `StampedSafety` | `StampedIsOnThePage` |
| `SurfacesAreSound` | `SurfacesSound` is an invariant of the Worker's tools and the verify page |
| `TypeCorrect` | `TypeOK` |
| `EndpointServesTheEra`, `ToolsTellWhatTheyHeard` | `ServedUnderItsEra`, `ToolsAnswerWhatTheyHeard` |
| `VerdictsAgree`, `OverlookedAlways` | `SurfacesAgree`, `SurfacesTellLess` |
| `ResultsTellOneFile` | `CardsTellOneFile` |
| `ClimbFindsTheRoot`, `SigsumFindsTheSameRoot` | `merkle.mjs` computes the root RFC 6962 defines, and `sigsum.mjs` that of the first part of the path that leads to one, for any leaf, index in the tree, size and path |
| `BuiltEntriesVerify`, `OnlyBuiltEntriesVerify` | an entry is accepted under its batch's root, and nothing else is, for any batch and any claim |
| `EveryEntry`, `OnlyMembers` | `EveryEntryVerifies`, `OnlyMembersVerify` |
| `ClimbIsDefined` | `ClimbIsTheDefinition` |
| `VerifiersAgreeAlways`, `SigsumTakesMoreAlways` | `VerifiersAgree`, `SigsumTakesMore` |

The relay. That the token rides on a session is not inductive: nothing in it says
why a call holding a token was entitled to it, or why a call awaiting the header
will get one. `RelayInv` adds that the two caches agree with each other and with
the secret (`CachesAgree`), that a call awaits only what is coming
(`AwaitsGrounded`), that artifacts come from the relay (`ArtifactsGenuine`), and
what a check that said ok leaves behind (`OpenedMeans`). The heart is one step:
a mint may be rejected only while it is pending, and no call whose session opened
can be waiting then, because the key it was opened under was derived from a
header already minted. `BudgetInv`, inductive relative to `RelayInv`, relates the
counter to the set of calls it counted and the bucket to finished calls; a 429
that blames others then follows by cardinalities: the bucket is full, this
isolate has counted at most the budget including the call at hand, which is not
in the bucket, so somebody else is.

The client. `ReceiptInv` adds to the properties that the page never believes an
artifact to live longer than the relay does (`SessionsSound`, where the lifetime
counted from before the mint pays off), that a leaf is in one place at a time
(`LeafOnce`), and that every look is on behalf of a stamp or a pending binding,
for a tree that was (`LooksGrounded`). That the log only appends gives the rest.

The library. `ActsLikeAMap` is not inductive: a write makes of the record what
the operation has read, some steps earlier. `LibInv` adds that a key nobody has
raced for is held by at most one operation, whose reading is the record as it
is stored (`HeldAlone`, with `Attached` for a re-verification, which goes by the
record listed on a page), that what has been read is whole (`ReadsSound`), and
that a re-verification on a page that has not turned away is of the record the
page is on (`VerifiesTheSelected`). Most steps are *tame*: no operation comes to
hold a record by them; one lemma serves them all, and a read, a refused read, a
write, a deletion and a re-verification are treated one by one. `PinOrder` needs
more, `InOrder`, which speaks of traces without haste or refusal only: one
operation is at work at most, and what it still has to write leaves the pinned
records in places of their own. That is said of the store as it will be once
all of its writes are done, since between the two writes of a move the two
records do share a place; and what Pin and Move take from a page's list fits
the store because pages that are not about to refresh show its pins.

The ceremony. Each page has an invariant of its own about what is under way:
`RequestSound` (what is being created is of the document on the page unless
something was swapped), `SignSound` (the section is open, and a signing under
way, only for what the link asked), `CheckReady` and `CheckSound` (what is being
verified, and what a second signing names, is the artifact loaded, unless it
was exchanged), and `SecondSound` (what a second signing is made of, whatever
was exchanged). The pages share no variable, so a step of one leaves the parts
about the other two alone. The refinement takes two facts more (`SignedOnce`,
`CountersignedOnce`): a button stays away from the click on unless the signing
fails, so that nothing is signed twice, and an event that was anchored is worded
for this signing. Then each step of a page is one of `SignatureOrder` or out of
its sight (`OutOfSight`): creating a request is `Ask`, opening the sign page
`Follow`, finishing a signature `Sign`, a file on the verify page `Load`
(`LoadRefines`, where a countersignature without a verification is excluded),
the section opening `Verify`, finishing the second signature `Countersign`.

The anchor page. A receipt matches the page only because of what the waits under
way will bring, so `PageInv` says that of each. Unless inputs have crossed, a
stamp of one hash is of the hash on the page; unless the items changed under
it, a stamp of a batch is of the root on the page. A read, a build or a call of
an agent carries a flag, `alone`, which it loses to whatever comes in beside it
(`Joined`); while it has it, it has its side of the page to itself
(`SingleSound`, `BatchSound`, `CallSound`), and so what the handler goes on with
is what it began with. An answer is of what its run stamps (`StampsSound`).
Every proof of a step first finds the waits it moves (`Moves`); a lemma for each
part of the invariant says that the others keep it (`Unmoved`, `ButtonKept`,
`StampsKept`, `SingleKept`, `BatchKept`, `CallKept`), and `QuietStep` and
`EditStep` serve the actions that neither begin nor end a stamp.

The Worker's tools and the verify page. `SurfacesSound` is `CallsSound` and
`PageSound`, which share no variable. A call at the limiter has done nothing
yet; one that is out has heard what its log says, has bindings and failures for
exactly the places before the one it asks (`Settled`), and has paid its token
unless it asks nobody outside; a call that is done has answered under the era of
its request with what it heard. That the first ground for refusal is the one the
answer gives comes from `Min` of a set of naturals. On the page, as long as
nothing overlapped there is one run (`Alone`), whose cards are of its pieces in
their order up to where it is (`InStep`), and, once it is over, of each binding
one card, or a check that is about to bring it (`Once`); an inclusion check
takes its pending card away and puts one at the end, which is where positions
have to be counted. That verdicts agree is about no state: `Count` goes through
the cosignatures one by one, by a recursive function, and is shown to count the
members of a set, by induction on the number of lines. `Induction` has the
principle, as a statement about sets: the least element of a set of naturals
comes from the well-foundedness of inclusion among finite sets.

The Merkle trees. Little of this is about states: the invariant (`IInv`) says
that what is kept was built for the digests, that a claim is one, and that what
was said of it is the verifier's answer; the rest is about the functions. RFC
6962 defines a tree from the root, split at the largest power of two below its
size; the verifiers climb from the leaf by the bits of the index. `RebuildOneUp`
connects the two: the root defined for a leaf, its place, a size and a path is
the one defined for what the leaf becomes one level up, at half the place and
half the size rounded up, with one hash less or, for a last node without a
sibling, with the same path. It is proved by induction on the size, splitting
both trees. `ClimbKeepsTheRoot` and `SigsumKeepsTheRoots` then say that the root
defined for what is left stays the same through the loops, of which
`AscendSkips` takes the levels where a last node has no sibling; at the end one
node is left, and the root defined is that node or none. That an entry verifies
(`PathsLeadToTheRoot`) and that only a leaf of the tree leads to its root
(`OnlyLeavesLeadToARoot`) are inductions on the definition read from the root,
the second from hashes being equal only if they are built alike, and leaves
hashed apart from nodes.
An index past the tree (`LastLeafAgain`) stays ahead of the last leaf's by a
multiple of `Round` from level to level, so both loops hash the same.

TLC has checked the inductive invariants of the relay, the client and the anchor
page, `InOrder`, and every property, before they were proved. Only model-checked
are liveness (`EveryCallAnswered`, `EveryCallReturns`, `PendingCompletes`,
`PageComesBack`, `ListsBecomeCurrent`), since the proof system does not reason
about fairness or ENABLED.

## 4. What is not modelled, and why

- ASN.1, CMS, X.509, CBOR, COSE, JCS, Solana and OpenTimestamps parsing and every
  signature check: pure functions over bytes, out of TLC's reach. Cryptography
  is assumed ideal; `Verdicts` starts from which checks fail.
- `parseOtsPending` and its varint, which is assembled with 32-bit shifts and so
  is right for lengths below 2^31, that is, all there are.
- The rate limiters' own arithmetic: the relay's may refuse anyone at any time,
  the tools' lets `Limit` through a minute.
- Pages' layout, wording, downloads, storage estimates; the document converters
  with their vendored libraries; continuous integration gates, smoke tests and
  generators; vendored code.
- The pauses (15 s before a second Sectigo stamp, 250 ms between polls): order
  is kept, durations are not.

## 5. Plan

What is left is the library composed with `SigsumReceipt`'s bindings: a pending
binding saved on one page and collected on another.

Runs are kept to one for each question.
