----------------------------- MODULE SignCeremony -----------------------------
(***************************************************************************)
(* Anchorproof: the page that creates a signing request (public/js/        *)
(* sign-request.js), the one its link opens, where a document is signed    *)
(* with a passkey (sign.js), and the one that verifies and countersigns    *)
(* (sign-verify.js), over lib/anchorproof.mjs and lib/jades.mjs.           *)
(*                                                                         *)
(* Each page keeps its state in variables its handlers read again after    *)
(* they have waited for a file, a browser prompt or the Worker. A link and *)
(* a file are all that passes from one page to the next. A document is its *)
(* digest and its name at once. A signing, its key and its time are told   *)
(* apart by a number, that of the click; an assertion is the key and the   *)
(* message it is over. Of an anchored event only what it says is kept.     *)
(***************************************************************************)
EXTENDS Naturals

CONSTANTS
    Doc,            \* documents
    None,           \* null
    Files,          \* signature artifacts that were there before
    Linked,         \* links that were there before
    Patience        \* bound on what the parties do in a trace

VARIABLES
    request,        \* the page that asks
    sign,           \* the page that signs
    check,          \* the page that verifies and countersigns
    made,           \* the artifacts that were saved to a file
    acts            \* what the parties have done

vars == <<request, sign, check, made, acts>>

-----------------------------------------------------------------------------
Envelope == [id : Nat, doc : Doc]
Message == [env : Envelope, n : Nat]
Assertion == [key : Nat, over : Message]

\* A fragment may lack its hash, its envelope or both.
Link == [h : Doc \cup {None}, e : Nat \cup {None}]
NoLink == [h |-> None, e |-> None]

\* request_created, signed by a key, completed by a second one.
Event == [type : {"request_created"}, env : Envelope]
    \cup [type : {"signed"}, env : Envelope, key : Nat]
    \cup [type : {"completed"}, env : Envelope, signer : Nat, key : Nat]

Jades == [payload : Message, doc : Doc, key : Nat, assertion : Assertion,
          anchor : Event \cup {None}]
Artifact == [env : Envelope, key : Nat, assertion : Assertion,
             message : Message, anchor : Event \cup {None}]

ASSUME CeremonyAssumption ==
    /\ None \notin Doc \cup Nat
    /\ Files \subseteq Artifact
    /\ Linked \subseteq Link
    /\ Patience \in Nat

Job == [at : {"key", "get", "anchor", "jades"}, env : Envelope, n : Nat,
        anchor : Event \cup {None}]
Bundle == [env : Envelope, anchor : Event, file : Doc, link : Link,
           alone : BOOLEAN]
Card == [of : Artifact, match : BOOLEAN, ok : BOOLEAN,
         anchor : Event \cup {None}]
Verification == [at : {"assertion", "tokens"}, card : Card]

Requesting == [file : Doc \cup {None}, docDigest : Doc \cup {None},
               reading : SUBSET Doc, checked : BOOLEAN, off : BOOLEAN,
               creating : SUBSET Envelope, bundle : Bundle \cup {None},
               swapped : BOOLEAN]
Signing == [link : Link, computedDigest : Doc \cup {None},
            reading : SUBSET Doc, open : BOOLEAN, busy : BOOLEAN,
            job : Job \cup {None}, signatureArtifact : Artifact \cup {None},
            jadesReceipt : Jades \cup {None}]
Checking == [docDigest : Doc \cup {None}, sigArtifact : Artifact \cup {None},
             reading : SUBSET (Doc \cup Artifact), off : BOOLEAN,
             verifying : SUBSET Verification, cards : SUBSET Card,
             open : BOOLEAN, busy : BOOLEAN, job : Job \cup {None},
             counterArtifact : Artifact \cup {None},
             counterJades : Jades \cup {None}, exchanged : BOOLEAN]

\* An artifact as the parties see it: it is good when its assertion is.
Signature == [env : Envelope, key : Nat, anchor : Event \cup {None},
              good : BOOLEAN]

ASSUME NoneAssumption ==
    None \notin Link \cup Event \cup Bundle \cup Job \cup Artifact \cup Jades
              \cup Signature

TypeOK ==
    /\ request \in Requesting
    /\ sign \in Signing
    /\ check \in Checking
    /\ made \subseteq Artifact
    /\ acts \in Nat

\* A sign page as its link opens it.
Opened(l) ==
    [link |-> l, computedDigest |-> None, reading |-> {}, open |-> FALSE,
     busy |-> FALSE, job |-> None, signatureArtifact |-> None,
     jadesReceipt |-> None]

Init ==
    /\ request = [file |-> None, docDigest |-> None, reading |-> {},
                  checked |-> TRUE, off |-> TRUE, creating |-> {}, bundle |-> None,
                  swapped |-> FALSE]
    /\ sign \in {Opened(l) : l \in Linked \cup {NoLink}}
    /\ check = [docDigest |-> None, sigArtifact |-> None, reading |-> {},
                off |-> TRUE, verifying |-> {}, cards |-> {}, open |-> FALSE,
                busy |-> FALSE, job |-> None, counterArtifact |-> None,
                counterJades |-> None, exchanged |-> FALSE]
    /\ made = Files
    /\ acts = 0

Act == acts < Patience /\ acts' = acts + 1

-----------------------------------------------------------------------------
\* A slip is a plausible mistake in the definition that follows it; no action
\* uses one. Each is there to be put in that definition's place, and a property
\* must then fail.

(* sign-request.js                                                         *)

\* setFile: the name at once, the digest when it has been read and hashed.
setFile(d) ==
    /\ Act
    /\ request' = [request EXCEPT !.file = d, !.reading = @ \cup {d},
           !.swapped = request.reading # {} \/ request.creating # {}]
    /\ UNCHANGED <<sign, check, made>>

FileHashed(d) ==
    /\ d \in request.reading
    /\ request' = [request EXCEPT !.docDigest = d, !.reading = @ \ {d},
                                  !.off = ~request.checked]
    /\ UNCHANGED <<sign, check, made, acts>>

\* A reader that fails has no handler.
FileUnread(d) ==
    /\ d \in request.reading
    /\ request' = [request EXCEPT !.reading = @ \ {d}, !.swapped = TRUE]
    /\ UNCHANGED <<sign, check, made, acts>>

\* Slip: the button asks for a box only.
ChooseAuthoritiesOnly ==
    /\ Act
    /\ \E some \in BOOLEAN :
           request' = [request EXCEPT !.checked = some, !.off = ~some]
    /\ UNCHANGED <<sign, check, made>>

\* updateCreateBtn: with a digest, the button is there when some box is
\* checked; a box brings it back mid-request too.
ChooseAuthorities ==
    /\ Act
    /\ \E some \in BOOLEAN :
           request' = [request EXCEPT !.checked = some,
                                      !.off = request.docDigest = None \/ ~some]
    /\ UNCHANGED <<sign, check, made>>

\* createEnvelope; the request event is being anchored.
Create ==
    /\ Act
    /\ ~request.off
    /\ request' = [request EXCEPT !.off = TRUE,
           !.creating = @ \cup {[id |-> acts', doc |-> request.docDigest]},
           !.swapped = @ \/ request.reading # {} \/ request.creating # {}]
    /\ UNCHANGED <<sign, check, made>>

\* Slip: the envelope is taken to be of the document the page is on by now.
AnchoredLate(env) ==
    [env |-> [env EXCEPT !.doc = request.docDigest],
     anchor |-> [type |-> "request_created", env |-> env],
     file |-> request.file,
     link |-> [h |-> request.docDigest, e |-> env.id],
     alone |-> ~request.swapped]

\* What the page keeps and shows of an envelope once its event is anchored: the
\* name and the link are those of the document it is on by now.
Anchored(env) ==
    [env |-> env,
     anchor |-> [type |-> "request_created", env |-> env],
     file |-> request.file,
     link |-> [h |-> request.docDigest, e |-> env.id],
     alone |-> ~request.swapped]

Created(env) ==
    /\ env \in request.creating
    /\ request' = [request EXCEPT !.creating = @ \ {env},
                                  !.bundle = Anchored(env)]
    /\ UNCHANGED <<sign, check, made, acts>>

\* The button is back, whether or not a box is checked by now.
CreateFails(env) ==
    /\ env \in request.creating
    /\ request' = [request EXCEPT !.creating = @ \ {env}, !.off = FALSE]
    /\ UNCHANGED <<sign, check, made, acts>>

-----------------------------------------------------------------------------
(* anchorproof.mjs, jades.mjs                                              *)

\* buildSigningMessage, the passkey's answer to it, and its verification:
\* the assertion must be over the message expected, by the key expected.
MessageOf(j) == [env |-> j.env, n |-> j.n]
AssertionOf(j) == [key |-> j.n, over |-> MessageOf(j)]
verifyAssertion(a, key, message) == a.over = message /\ a.key = key

buildJadesBT(j) ==
    [payload |-> MessageOf(j), doc |-> j.env.doc, key |-> j.n,
     assertion |-> AssertionOf(j), anchor |-> j.anchor]
verifyJadesBT(r) == verifyAssertion(r.assertion, r.key, r.payload)

ArtifactOf(j) ==
    [env |-> j.env, key |-> j.n, assertion |-> AssertionOf(j),
     message |-> MessageOf(j), anchor |-> j.anchor]

\* A signing that goes from prompt to prompt. Its event is worded when the
\* second has been answered, and anchored unless no box is checked.
Started(env, n) == [at |-> "key", env |-> env, n |-> n, anchor |-> None]
Onward(j, event) ==
    IF j.at = "key" THEN {[j EXCEPT !.at = "get"]}
    ELSE IF j.at = "get" THEN {[j EXCEPT !.at = "anchor", !.anchor = event],
                               [j EXCEPT !.at = "jades"]}
    ELSE IF j.at = "anchor" THEN {[j EXCEPT !.at = "jades"]}
    ELSE {}

-----------------------------------------------------------------------------
(* sign.js                                                                 *)

\* A link is followed, whole or not, or the page opened without one.
Open(l) ==
    /\ Act
    /\ sign' = Opened(l)
    /\ UNCHANGED <<request, check, made>>

loadFile(d) ==
    /\ Act
    /\ sign' = [sign EXCEPT !.reading = @ \cup {d}]
    /\ UNCHANGED <<request, check, made>>

\* Slip: the section stays open for a document that does not match.
LoadedHashedOpen(d) ==
    /\ d \in sign.reading
    /\ sign' = [sign EXCEPT !.computedDigest = d, !.reading = @ \ {d},
                            !.open = @ \/ sign.link.h \in {None, d}]
    /\ UNCHANGED <<request, check, made, acts>>

\* showHashStatus: the sign section shows for the document asked for, and for
\* any when the link names none.
LoadedHashed(d) ==
    /\ d \in sign.reading
    /\ sign' = [sign EXCEPT !.computedDigest = d, !.reading = @ \ {d},
                            !.open = sign.link.h \in {None, d}]
    /\ UNCHANGED <<request, check, made, acts>>

SignClick ==
    /\ Act
    /\ sign.open /\ ~sign.busy
    /\ LET env == [id |-> IF sign.link.e = None THEN acts' ELSE sign.link.e,
                   doc |-> sign.computedDigest]
       IN sign' = [sign EXCEPT !.busy = TRUE, !.job = Started(env, acts')]
    /\ UNCHANGED <<request, check, made>>

SignGoesOn ==
    /\ sign.job # None
    /\ \E next \in Onward(sign.job, [type |-> "signed", env |-> sign.job.env,
                                     key |-> sign.job.n]) :
           sign' = [sign EXCEPT !.job = next]
    /\ UNCHANGED <<request, check, made, acts>>

\* The artifact, which can be downloaded from now on, with its receipt.
Signed(j) == ArtifactOf(j)

\* Slip: the button is back although the signature is there.
SignDoneAgain ==
    /\ sign.job # None /\ sign.job.at = "jades"
    /\ sign' = [sign EXCEPT !.job = None, !.busy = FALSE,
                            !.signatureArtifact = Signed(sign.job),
                            !.jadesReceipt = buildJadesBT(sign.job)]
    /\ made' = made \cup {Signed(sign.job)}
    /\ UNCHANGED <<request, check, acts>>

SignDone ==
    /\ sign.job # None /\ sign.job.at = "jades"
    /\ sign' = [sign EXCEPT !.job = None,
                            !.signatureArtifact = Signed(sign.job),
                            !.jadesReceipt = buildJadesBT(sign.job)]
    /\ made' = made \cup {Signed(sign.job)}
    /\ UNCHANGED <<request, check, acts>>

\* A prompt is dismissed, or the event cannot be anchored: a signature already
\* given is lost, and the button is back.
SignFails ==
    /\ sign.job # None
    /\ sign' = [sign EXCEPT !.job = None, !.busy = FALSE]
    /\ UNCHANGED <<request, check, made, acts>>

-----------------------------------------------------------------------------
(* sign-verify.js                                                          *)

LoadCheck(file) ==
    /\ Act
    /\ check' = [check EXCEPT !.reading = @ \cup {file}]
    /\ UNCHANGED <<request, sign, made>>

\* A file has come in, under a verification or one that has succeeded.
Exchanged == check.exchanged \/ check.verifying # {} \/ check.open

DocHashed(d) ==
    /\ d \in check.reading
    /\ check' = [check EXCEPT !.docDigest = d, !.reading = @ \ {d},
                              !.off = check.sigArtifact = None,
                              !.exchanged = Exchanged]
    /\ UNCHANGED <<request, sign, made, acts>>

SigRead(a) ==
    /\ a \in check.reading
    /\ check' = [check EXCEPT !.sigArtifact = a, !.reading = @ \ {a},
                              !.off = check.docDigest = None,
                              !.exchanged = Exchanged]
    /\ UNCHANGED <<request, sign, made, acts>>

\* Not a file that can be read, or not JSON.
CheckUnread(file) ==
    /\ file \in check.reading
    /\ check' = [check EXCEPT !.reading = @ \ {file}]
    /\ UNCHANGED <<request, sign, made, acts>>

\* The hash and the assertion are those of the artifact loaded at the click.
VerifyClick ==
    /\ Act
    /\ ~check.off
    /\ LET a == check.sigArtifact
           card == [of |-> a, match |-> check.docDigest = a.env.doc,
                    ok |-> verifyAssertion(a.assertion, a.key, a.message),
                    anchor |-> None]
       IN check' = [check EXCEPT !.off = TRUE, !.cards = {},
              !.verifying = @ \cup {[at |-> "assertion", card |-> card]}]
    /\ UNCHANGED <<request, sign, made>>

\* The timestamps are those of the artifact loaded once it is verified.
AssertionVerified(v) ==
    /\ v \in check.verifying /\ v.at = "assertion"
    /\ check' = [check EXCEPT !.verifying = (@ \ {v}) \cup
           {[at |-> "tokens",
             card |-> [v.card EXCEPT !.anchor = check.sigArtifact.anchor]]}]
    /\ UNCHANGED <<request, sign, made, acts>>

\* Slip: a good signature is enough.
MayCountersignAny(card) == card.ok

\* "if hash matched and signature verified"; nothing hides the section again.
MayCountersign(card) == card.match /\ card.ok

TokensVerified(v) ==
    /\ v \in check.verifying /\ v.at = "tokens"
    /\ check' = [check EXCEPT !.verifying = @ \ {v}, !.cards = @ \cup {v.card},
                              !.open = @ \/ MayCountersign(v.card)]
    /\ UNCHANGED <<request, sign, made, acts>>

CountersignClick ==
    /\ Act
    /\ check.open /\ ~check.busy
    /\ check' = [check EXCEPT !.busy = TRUE,
                              !.job = Started(check.sigArtifact.env, acts')]
    /\ UNCHANGED <<request, sign, made>>

\* The first signer's key is that of the artifact loaded by now.
CountersignGoesOn ==
    /\ check.job # None
    /\ \E next \in Onward(check.job,
                  [type |-> "completed", env |-> check.job.env,
                   signer |-> check.sigArtifact.key, key |-> check.job.n]) :
           check' = [check EXCEPT !.job = next]
    /\ UNCHANGED <<request, sign, made, acts>>

CountersignDone ==
    /\ check.job # None /\ check.job.at = "jades"
    /\ check' = [check EXCEPT !.job = None,
                              !.counterArtifact = ArtifactOf(check.job),
                              !.counterJades = buildJadesBT(check.job)]
    /\ UNCHANGED <<request, sign, made, acts>>

CountersignFails ==
    /\ check.job # None
    /\ check' = [check EXCEPT !.job = None, !.busy = FALSE]
    /\ UNCHANGED <<request, sign, made, acts>>

\* The file with both signatures.
CompleteBundle ==
    [env |-> check.sigArtifact.env,
     signatures |-> <<check.sigArtifact, check.counterArtifact>>]

-----------------------------------------------------------------------------
Links == Linked \cup {NoLink}
    \cup (IF request.bundle = None THEN {} ELSE {request.bundle.link})

RequestStep ==
    \/ \E d \in Doc : setFile(d) \/ FileHashed(d) \/ FileUnread(d)
    \/ ChooseAuthorities \/ Create
    \/ \E env \in request.creating : Created(env) \/ CreateFails(env)

SignStep ==
    \/ \E l \in Links : Open(l)
    \/ \E d \in Doc : loadFile(d) \/ LoadedHashed(d)
    \/ SignClick \/ SignGoesOn \/ SignDone \/ SignFails

CheckStep ==
    \/ \E file \in Doc \cup made : LoadCheck(file) \/ CheckUnread(file)
    \/ \E d \in Doc : DocHashed(d)
    \/ \E a \in made : SigRead(a)
    \/ VerifyClick
    \/ \E v \in check.verifying : AssertionVerified(v) \/ TokensVerified(v)
    \/ CountersignClick \/ CountersignGoesOn \/ CountersignDone
    \/ CountersignFails

Next == RequestStep \/ SignStep \/ CheckStep

Spec == Init /\ [][Next]_vars

-----------------------------------------------------------------------------
\* A request names one document in its envelope and in the event anchored for
\* it, and also in its link and by its file name unless another file came in,
\* or another request was made, while it was (sign-request.js 46-58, 85-123).
RequestIsOfOneDocument ==
    LET b == request.bundle IN
    b # None =>
        /\ b.anchor.env = b.env /\ b.link.e = b.env.id
        /\ b.alone => b.link.h = b.env.doc /\ b.file = b.env.doc

\* Artifact and receipt are of one signing: the assertion is over the message,
\* this and the event are of the envelope, and the receipt says the same.
OneSigning(a, r) ==
    /\ verifyAssertion(a.assertion, a.key, a.message)
    /\ a.message.env = a.env
    /\ a.anchor # None => a.anchor.env = a.env /\ a.anchor.key = a.key
    /\ verifyJadesBT(r) /\ r.payload = a.message /\ r.doc = a.env.doc
    /\ r.anchor = a.anchor

\* Whatever is loaded while a signer answers the prompts, all they are given
\* in the end, artifact, assertion, anchored event and receipt, is of one
\* signing, of the document and of the envelope that the link names, as far as
\* it names any (sign.js 93-219, jades.mjs 34-115).
SignedWhatWasAsked ==
    LET a == sign.signatureArtifact IN
    a # None =>
        /\ OneSigning(a, sign.jadesReceipt)
        /\ sign.link.h # None => a.env.doc = sign.link.h
        /\ sign.link.e # None => a.env.id = sign.link.e

\* Whatever is loaded meanwhile, the second artifact is of one signing. Unless a
\* file came in after the verification began, it is put under a first that
\* passed the page's checks and shares its envelope, and its event and the cards
\* name that one: the artifact names the document at hand and its assertion is
\* good over the message it carries. That the message is of this document is no
\* check of the page, see CountersignedWhatWasSigned
\* (sign-verify.js 93-187, 190-276, 309-317).
CountersignedPassedTheChecks ==
    check.counterArtifact # None =>
        LET a == CompleteBundle.signatures[1]
            b == CompleteBundle.signatures[2]
        IN /\ OneSigning(b, check.counterJades)
           /\ ~check.exchanged =>
                  /\ a.env.doc = check.docDigest /\ a.env = b.env
                  /\ verifyAssertion(a.assertion, a.key, a.message)
                  /\ b.anchor # None => b.anchor.signer = a.key
                  /\ \A card \in check.cards : card.anchor = card.of.anchor

\* Not so: "The service proves that a specific document hash was signed by the
\* holder of a specific key" (sign/verify.html 42-43), and who countersigns is
\* told "You have verified the signer's artifact" (81). So in a complete bundle
\* the first signer should have signed the document that the bundle names. The
\* page compares the document at hand with the artifact's doc_digest, which is
\* not signed, and checks the assertion over a message that may be of another;
\* and what it says stays on it for an artifact loaded later (sign-verify.js
\* 102-103, 120-125, 184-186).
CountersignedWhatWasSigned ==
    check.counterArtifact # None =>
        LET a == CompleteBundle.signatures[1] IN
        /\ verifyAssertion(a.assertion, a.key, a.message)
        /\ a.message.env.doc = CompleteBundle.env.doc

\* What the parties see, with a verification that counts until a file comes in.
Shown(a) ==
    IF a = None THEN None
    ELSE [env |-> a.env, key |-> a.key, anchor |-> a.anchor,
          good |-> verifyAssertion(a.assertion, a.key, a.message)]
Asked == IF request.bundle = None THEN None ELSE request.bundle.link
Verified == IF check.open /\ ~check.exchanged
            THEN Shown(check.sigArtifact) ELSE None
Counter == IF check.exchanged THEN None ELSE Shown(check.counterArtifact)

Order == INSTANCE SignatureOrder WITH
    Sent      <- Linked,
    Received  <- {Shown(a) : a \in Files},
    asked     <- Asked,
    link      <- sign.link,
    signature <- Shown(sign.signatureArtifact),
    given     <- {Shown(a) : a \in made},
    doc       <- check.docDigest,
    verified  <- Verified,
    counter   <- Counter

\* To the parties the three pages are SignatureOrder: whatever is dropped,
\* clicked or dismissed in between, a link is signed once and for what it asks,
\* and a countersignature is given once, under a signature that passed the
\* checks with the document at hand. A verification, and what was put under it,
\* counts only until a file comes in: the page goes on after that, unseen by
\* SignatureOrder (sign.js 93-219, sign-verify.js 93-300).
ImplementsOrder == Order!Spec
=============================================================================
