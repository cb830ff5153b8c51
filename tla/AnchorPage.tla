------------------------------ MODULE AnchorPage ------------------------------
(***************************************************************************)
(* The anchor page (public/js/anchor.js) and the tool it offers to agents  *)
(* (public/js/anchor-webmcp.js).                                           *)
(*                                                                         *)
(* The page is one thread over module-level variables: a handler runs to   *)
(* its next await without interruption, and whatever the user does while   *)
(* it waits changes the variables it goes on with. Every wait is a job;    *)
(* an action is a handler from one wait to the next.                       *)
(*                                                                         *)
(* A file is its digest, or the execution hash of the artifact it holds.   *)
(* Hashing a tree is free (MerkleBatch), so the root of a batch is the     *)
(* sequence of its hashes, and the entries of a tree are that sequence     *)
(* too: entry i proves hash i under it. What is drawn is left out, except  *)
(* whether the output of a single stamp or of a batch is on show.          *)
(***************************************************************************)
EXTENDS Naturals, Sequences, FiniteSets

CONSTANTS
    Hash,           \* digests
    Auth,           \* the ids of PROVIDERS
    Sigsum,         \* the one whose binding may come back pending
    DefaultOn,      \* the boxes checked when the page opens
    None,           \* null
    Jobs,           \* bound on the waits in progress at once
    BatchMax,       \* BATCH_MAX
    Prepared,       \* batches pasted before the trace begins
    Patience        \* bound on what the user and the agent do in a trace

ASSUME PageAssumption ==
    /\ Sigsum \in Auth
    /\ DefaultOn \subseteq Auth
    /\ Jobs \in Nat
    /\ BatchMax \in Nat
    /\ Prepared \subseteq Seq(Hash)
    /\ Patience \in Nat
    /\ None \notin Hash
    /\ None \notin Seq(Hash)
    /\ Hash \cap Seq(Hash) = {}

VARIABLES
    mode,           \* "single" or "batch"
    hash,           \* currentHashHex
    ocg,            \* currentOcgArtifact, by its execution hash
    results,        \* stampResults
    items,          \* batchItems
    root, entries,  \* batchRootHex, batchEntries
    batchResults,   \* batchStampResults
    busy,           \* the stamp button is disabled
    shown,          \* whose output is on the page
    checked,        \* the boxes of the authorities
    status,         \* what the page says of each authority
    recheck,        \* the artifact the recompute line speaks of
    job,            \* the waits
    acts,           \* what they have done so far; a stamp carries its number
    crossed,        \* history: single-hash inputs have overlapped
    muddled         \* history: the items have changed under a batch stamp

single == <<hash, ocg, results>>
batch == <<items, root, entries, batchResults>>
page == <<mode, single, batch, busy, shown, checked, status, recheck>>
vars == <<page, job, acts, crossed, muddled>>

-----------------------------------------------------------------------------
Job == 1..Jobs

Binding ==
    [auth : Auth, of : Hash \cup Seq(Hash), pending : BOOLEAN, run : Nat]

Idle == [kind |-> "idle"]
Wait == {Idle}
    \cup [kind : {"read"}, file : Hash, json : BOOLEAN, alone : BOOLEAN]
    \cup [kind : {"add"}, files : Seq(Hash) \ {<<>>}]
    \cup [kind : {"build"}, of : Seq(Hash), run : Nat, alone : BOOLEAN]
    \cup [kind : {"stamp"}, of : Hash \cup Seq(Hash), left : SUBSET Auth,
          got : Seq(Binding), run : Nat]
    \cup [kind : {"check"}, binding : Binding]
    \cup [kind : {"import", "recompute"}, of : Hash \cup {None}]
    \cup [kind : {"call"}, hash : Hash, auth : Auth, snapshot : SUBSET Auth,
          alone : BOOLEAN]

TypeOK ==
    /\ mode \in {"single", "batch"}
    /\ hash \in Hash \cup {None}
    /\ ocg \in Hash \cup {None}
    /\ results \in Seq(Binding)
    /\ items \in Seq(Hash)
    /\ root \in Seq(Hash) \cup {None}
    /\ entries \in Seq(Hash) \cup {None}
    /\ batchResults \in Seq(Binding)
    /\ busy \in BOOLEAN
    /\ shown \in {"none", "single", "batch"}
    /\ checked \subseteq Auth
    /\ status \in [Auth -> {"none", "waiting", "ok", "err"}]
    /\ recheck \in Hash \cup {None}
    /\ job \in [Job -> Wait]
    /\ acts \in Nat
    /\ crossed \in BOOLEAN
    /\ muddled \in BOOLEAN

\* A page just opened, or one whose user has only pasted a batch so far.
Init ==
    /\ \/ /\ mode = "single"
          /\ hash \in Hash \cup {None}     \* from the link it was opened with
          /\ items = <<>>
       \/ /\ mode = "batch"
          /\ hash = None
          /\ items \in Prepared
    /\ ocg = None /\ results = <<>>
    /\ root = None /\ entries = None /\ batchResults = <<>>
    /\ busy = FALSE /\ shown = "none"
    /\ checked = DefaultOn
    /\ status = [a \in Auth |-> "none"]
    /\ recheck = None
    /\ job = [j \in Job |-> Idle]
    /\ acts = 0
    /\ crossed = FALSE /\ muddled = FALSE

\* The waits of one side of the page.
Stamping(j) == job[j].kind = "stamp"
SingleBusy == \E j \in Job :
    job[j].kind = "read" \/ (Stamping(j) /\ job[j].of \in Hash)
BatchBusy == \E j \in Job :
    job[j].kind = "build" \/ (Stamping(j) /\ job[j].of \in Seq(Hash))

\* The jobs, those of some kinds marked as no longer alone.
Joined(kinds) == [j \in Job |->
    IF job[j].kind \in kinds THEN [job[j] EXCEPT !.alone = FALSE] ELSE job[j]]

\* The next wait takes the first place that is free.
Free(j) == j \in Job /\ job[j] = Idle /\ \A k \in 1..(j - 1) : job[k] # Idle

\* A wait begins, beside others it takes the solitude of.
Start(j, w, kinds) == job' = [Joined(kinds) EXCEPT ![j] = w]
Finish(j) == job' = [job EXCEPT ![j] = Idle]

-----------------------------------------------------------------------------
\* A slip is a plausible mistake in the definition that follows it; no action
\* uses one. Each is there to be put in that definition's place, and a property
\* must then fail.

(* One hash: a file, a pasted hash, a link.                                *)

\* displayHash: stamps of an earlier hash leave the page.
displayHash(h) ==
    /\ hash' = h
    /\ results' = <<>>
    /\ shown' = "none"

\* processFile, up to the bytes and their digest.
ProcessFile(j, h, json) ==
    /\ Free(j)
    /\ ocg' = None
    /\ Start(j, [kind |-> "read", file |-> h, json |-> json,
                 alone |-> ~SingleBusy], {"read", "call"})
    /\ crossed' = (crossed \/ SingleBusy)
    /\ UNCHANGED <<mode, hash, results, batch, busy, shown, checked,
                   status, recheck, muddled>>

\* The file is an artifact, which is anchored by its execution hash, or any
\* other, by its digest.
FileRead(j) ==
    /\ job[j].kind = "read"
    /\ displayHash(job[j].file)
    /\ ocg' = IF job[j].json THEN job[j].file ELSE ocg
    /\ Start(j, Idle, {"read", "call"})
    /\ crossed' = ~job[j].alone
    /\ UNCHANGED <<mode, batch, busy, checked, status, recheck, muddled>>

\* The browser cannot read the file; the handler ends with the exception.
FileUnreadable(j) ==
    /\ job[j].kind = "read"
    /\ Finish(j)
    /\ UNCHANGED <<page, crossed, muddled>>

\* A hash typed or pasted. A loaded artifact stays.
HashInput(h) ==
    /\ displayHash(h)
    /\ job' = Joined({"read", "call"})
    /\ crossed' = (SingleBusy \/ ocg # None)
    /\ UNCHANGED <<mode, ocg, batch, busy, checked, status, recheck,
                   muddled>>

\* handleRecompute: the verifier is loaded, then given the artifact that is
\* loaded by then; its line on the page stays until the next recompute.
RecomputeClick(j) ==
    /\ Free(j)
    /\ ocg # None
    /\ \A k \in Job : job[k].kind \notin {"import", "recompute"}
    /\ job' = [job EXCEPT ![j] = [kind |-> "import", of |-> None]]
    /\ UNCHANGED <<page, crossed, muddled>>

VerifierLoaded(j) ==
    /\ job[j].kind = "import"
    /\ job' = [job EXCEPT ![j] = [kind |-> "recompute", of |-> ocg]]
    /\ UNCHANGED <<page, crossed, muddled>>

Recomputed(j) ==
    /\ job[j].kind = "recompute"
    /\ recheck' = job[j].of
    /\ Finish(j)
    /\ UNCHANGED <<mode, single, batch, busy, shown, checked, status,
                   crossed, muddled>>

-----------------------------------------------------------------------------
(* The items of a batch.                                                   *)

\* resetBatchStamp: the tree and the stamps of the items as they were go.
resetBatchStamp ==
    /\ root' = None
    /\ entries' = None
    /\ batchResults' = <<>>
    /\ shown' = "none"

\* Slip: new items leave the tree and the stamps of the old ones alone.
EditItemsOnly(s) ==
    /\ items' = s
    /\ muddled' = BatchBusy
    /\ UNCHANGED <<mode, single, busy, checked, status, recheck,
                   crossed, root, entries, batchResults, shown>>

\* Whatever changes the items forgets the tree.
EditItems(s) ==
    /\ items' = s
    /\ resetBatchStamp
    /\ muddled' = BatchBusy
    /\ UNCHANGED <<mode, single, busy, checked, status, recheck, crossed>>

\* addBatchFile, for each of the files dropped, one after another.
AddFiles(j, fs) ==
    /\ Free(j)
    /\ job' = [job EXCEPT ![j] = [kind |-> "add", files |-> fs]]
    /\ UNCHANGED <<page, crossed, muddled>>

\* Past the cap an alert says so and nothing changes.
BatchFileRead(j) ==
    /\ job[j].kind = "add"
    /\ LET rest == Tail(job[j].files) IN
       Start(j, IF rest = <<>> THEN Idle ELSE [job[j] EXCEPT !.files = rest],
             IF Len(items) < BatchMax THEN {"build"} ELSE {})
    /\ IF Len(items) < BatchMax
       THEN EditItems(Append(items, Head(job[j].files)))
       ELSE UNCHANGED <<page, crossed, muddled>>

\* One file that cannot be read ends the loop over all of them.
BatchFileUnreadable(j) ==
    /\ job[j].kind = "add"
    /\ Finish(j)
    /\ UNCHANGED <<page, crossed, muddled>>

\* Slip: a line is added whether or not it holds a digest.
AddPastedAny(hs) ==
    /\ Len(items) + Len(hs) <= BatchMax
    /\ EditItems(Append(items, None))
    /\ job' = Joined({"build"})

\* addPastedBatchHashes, for the lines that hold a digest and still fit.
AddPasted(hs) ==
    /\ Len(items) + Len(hs) <= BatchMax
    /\ EditItems(items \o hs)
    /\ job' = Joined({"build"})

\* The Remove button of an item, and Clear.
RemoveItem(i) ==
    /\ i \in 1..Len(items)
    /\ EditItems(SubSeq(items, 1, i - 1) \o SubSeq(items, i + 1, Len(items)))
    /\ job' = Joined({"build"})

ClearItems ==
    /\ items # <<>>
    /\ EditItems(<<>>)
    /\ job' = Joined({"build"})

-----------------------------------------------------------------------------
(* Stamping: one hash, with the authorities whose boxes are checked.       *)

setMode(m) ==
    /\ mode # m
    /\ mode' = m
    /\ shown' = "none"
    /\ UNCHANGED <<single, batch, busy, checked, status, recheck, job,
                   crossed, muddled>>

\* The box of an authority is clicked.
Toggle(a) ==
    /\ checked' = (checked \ {a}) \cup ({a} \ checked)
    /\ UNCHANGED <<mode, single, batch, busy, shown, status, recheck,
                   job, crossed, muddled>>

StampJob(of, boxes, run) ==
    [kind |-> "stamp", of |-> of, left |-> boxes, got |-> <<>>, run |-> run]

\* Slip: the lines keep what they said before.
WaitingQuiet(boxes) == status

\* The lines of the chosen authorities once a run has begun.
Waiting(boxes) == [a \in Auth |-> IF a \in boxes THEN "waiting" ELSE status[a]]

\* runStamp, up to its answers: with no box checked an alert, and nothing.
runStamp(j, of, boxes, run) ==
    /\ busy' = (busy \/ boxes # {})
    /\ shown' = IF boxes = {} THEN shown ELSE "none"
    /\ status' = Waiting(boxes)
    /\ Start(j, IF boxes = {} THEN Idle ELSE StampJob(of, boxes, run),
             {"read", "build", "call"})

\* doStamp, on a click in single mode.
StampClick(j) ==
    /\ Free(j)
    /\ ~busy /\ mode = "single" /\ hash # None
    /\ runStamp(j, hash, checked, acts')
    /\ crossed' = (crossed \/ SingleBusy)
    /\ UNCHANGED <<mode, single, batch, checked, recheck, muddled>>

\* doStampBatch, on a click in batch mode: the tree is built first, with the
\* button still enabled.
BatchClick(j) ==
    /\ Free(j)
    /\ ~busy /\ mode = "batch" /\ Len(items) >= 2
    /\ Start(j, [kind |-> "build", of |-> items, run |-> acts',
                 alone |-> ~BatchBusy], {"build"})
    /\ muddled' = (muddled \/ BatchBusy)
    /\ UNCHANGED <<page, crossed>>

\* buildMerkleBatch is done; the root is stamped.
TreeBuilt(j) ==
    /\ job[j].kind = "build"
    /\ root' = job[j].of
    /\ entries' = job[j].of
    /\ runStamp(j, job[j].of, checked, job[j].run)
    /\ muddled' = (~job[j].alone \/ (checked = {} /\ muddled))
    /\ UNCHANGED <<mode, single, items, batchResults, checked, recheck,
                   crossed>>

\* It cannot be built; an alert says so.
TreeFails(j) ==
    /\ job[j].kind = "build"
    /\ Finish(j)
    /\ UNCHANGED <<page, crossed, muddled>>

\* Slip: the results are collected in the page's own list.
SettleShared(of, got, run) ==
    IF of \in Hash
    THEN /\ results' = results \o got
         /\ shown' = IF got = <<>> THEN shown ELSE "single"
         /\ UNCHANGED batchResults
    ELSE /\ batchResults' = got
         /\ shown' = IF got = <<>> THEN shown ELSE "batch"
         /\ UNCHANGED results

\* What doStamp and doStampBatch do with the answers: the page's results are
\* replaced, and shown and saved when there are any.
Settle(of, got, run) ==
    IF of \in Hash
    THEN /\ results' = got
         /\ shown' = IF got = <<>> THEN shown ELSE "single"
         /\ UNCHANGED batchResults
    ELSE /\ batchResults' = got
         /\ shown' = IF got = <<>> THEN shown ELSE "batch"
         /\ UNCHANGED results

\* An authority has answered, with a binding or not at all; the last one
\* enables the button, whatever other run is still waiting.
Answered(j, a, new) ==
    /\ Stamping(j)
    /\ a \in job[j].left
    /\ status' = [status EXCEPT ![a] = IF new = <<>> THEN "err" ELSE "ok"]
    /\ LET left == job[j].left \ {a}
           got == job[j].got \o new IN
       /\ job' = [job EXCEPT ![j] =
                    IF left = {} THEN Idle
                    ELSE [@ EXCEPT !.left = left, !.got = got]]
       /\ busy' = (busy /\ left # {})
       /\ IF left = {} THEN Settle(job[j].of, got, job[j].run)
          ELSE UNCHANGED <<results, batchResults, shown>>
    /\ UNCHANGED <<mode, hash, ocg, items, root, entries, checked,
                   recheck, crossed, muddled>>

AuthorityFails(j, a) == Answered(j, a, <<>>)

AuthorityStamps(j, a) ==
    \E pending \in {FALSE, a = Sigsum} :
        Answered(j, a, << [auth |-> a, of |-> job[j].of, pending |-> pending,
                           run |-> job[j].run] >>)

-----------------------------------------------------------------------------
(* The output.                                                             *)

\* buildOutputSection offers to check a pending binding for inclusion.
CheckInclusion(j, b) ==
    /\ Free(j)
    /\ shown = "single"
    /\ b.pending
    /\ b \in {results[i] : i \in DOMAIN results}
    /\ \A k \in Job : job[k] # [kind |-> "check", binding |-> b]
    /\ job' = [job EXCEPT ![j] = [kind |-> "check", binding |-> b]]
    /\ UNCHANGED <<page, crossed, muddled>>

Upgraded(b) == [b EXCEPT !.pending = FALSE]

\* The proof takes the place of the binding it was asked for, if it is there.
Included(j) ==
    /\ job[j].kind = "check"
    /\ results' = [i \in DOMAIN results |->
                     IF results[i] = job[j].binding
                     THEN Upgraded(results[i]) ELSE results[i]]
    /\ Finish(j)
    /\ UNCHANGED <<mode, hash, ocg, batch, busy, shown, checked, status,
                   recheck, crossed, muddled>>

\* Not sequenced yet, or the check has failed: the button comes back.
NotIncluded(j) ==
    /\ job[j].kind = "check"
    /\ Finish(j)
    /\ UNCHANGED <<page, crossed, muddled>>

\* anchorsJsonPayload: downloaded, and saved when no artifact is loaded.
anchorsJsonPayload == [anchor_bindings |-> results]

\* downloadReemittedArtifact, and what is saved when one is.
ReemittedArtifact == [execution_hash |-> ocg, anchor_bindings |-> results]

\* showReceipt: the hash on the page, and a row for every stamp.
PrintedReceipt == [hash |-> hash, rows |-> results]

\* batchAnchorsPayload: the root, its stamps, and every item with an entry.
batchAnchorsPayload ==
    [root |-> root, anchor_bindings |-> batchResults,
     entries |-> [i \in DOMAIN items |->
                    [hash |-> items[i], tree |-> entries, place |-> i]]]

\* Entry e of a tree proves hash h under the root.
Proves(e, h, r) == e.tree = r /\ e.place \in DOMAIN r /\ r[e.place] = h

-----------------------------------------------------------------------------
(* anchor_hash of anchor-webmcp.js.                                        *)

\* The page is driven as a user would drive it: single mode, the hash, one box,
\* the button. A button that is disabled takes no click.
Call(j, h, a) ==
    /\ Free(j)
    /\ mode' = "single"
    /\ displayHash(h)
    /\ checked' = {a}
    /\ LET call == [kind |-> "call", hash |-> h, auth |-> a,
                    snapshot |-> checked,
                    alone |-> ~busy /\ ~SingleBusy /\ ~BatchBusy]
           begun == [Joined({"read", "build", "call"}) EXCEPT ![j] = call] IN
       \/ /\ busy
          /\ job' = begun
          /\ UNCHANGED <<status, busy>>
       \/ /\ ~busy
          /\ \E k \in (j + 1)..Jobs :
                 /\ job[k] = Idle
                 /\ job' = [begun EXCEPT ![k] = StampJob(h, {a}, acts')]
          /\ busy' = TRUE
          /\ status' = Waiting({a})
    /\ crossed' = (SingleBusy \/ ocg # None)
    /\ UNCHANGED <<ocg, batch, recheck, muddled>>

\* What the tool says when its poll, or its 45 seconds, are over.
Outcome(a) == CASE status[a] = "err" -> "failed"
                [] status[a] = "ok" -> "stamped"
                [] OTHER -> "timeout"

\* Slip: the poll has no deadline.
CallReturnsInTime(j) ==
    /\ job[j].kind = "call"
    /\ Outcome(job[j].auth) # "timeout"
    /\ checked' = job[j].snapshot
    /\ Finish(j)
    /\ UNCHANGED <<mode, single, batch, busy, shown, status, recheck,
                   crossed, muddled>>

\* The boxes are put back as they were.
CallReturns(j) ==
    /\ job[j].kind = "call"
    /\ checked' = job[j].snapshot
    /\ Finish(j)
    /\ UNCHANGED <<mode, single, batch, busy, shown, status, recheck,
                   crossed, muddled>>

-----------------------------------------------------------------------------
\* Files and lines a user brings at once: one or two.
Few == {<<h>> : h \in Hash} \cup (Hash \X Hash)

\* The panel of the other mode is hidden; the output, and the agent, are not
\* bound to a mode.
UserActs ==
    /\ acts < Patience
    /\ acts' = acts + 1
    /\ \/ /\ mode = "single"
          /\ \/ \E h \in Hash : HashInput(h)
             \/ \E j \in Job, h \in Hash : \E json \in BOOLEAN :
                    ProcessFile(j, h, json)
             \/ \E j \in Job : RecomputeClick(j) \/ StampClick(j)
       \/ /\ mode = "batch"
          /\ \/ \E hs \in Few : AddPasted(hs) \/ \E j \in Job : AddFiles(j, hs)
             \/ \E i \in DOMAIN items : RemoveItem(i)
             \/ ClearItems
             \/ \E j \in Job : BatchClick(j)
       \/ \E m \in {"single", "batch"} : setMode(m)
       \/ \E a \in Auth : Toggle(a)
       \/ \E j \in Job, i \in DOMAIN results : CheckInclusion(j, results[i])
       \/ \E j \in Job, h \in Hash, a \in Auth : Call(j, h, a)

Resumes(j) ==
    /\ \/ FileRead(j) \/ FileUnreadable(j)
       \/ BatchFileRead(j) \/ BatchFileUnreadable(j)
       \/ VerifierLoaded(j) \/ Recomputed(j)
       \/ TreeBuilt(j) \/ TreeFails(j)
       \/ \E a \in Auth : AuthorityStamps(j, a) \/ AuthorityFails(j, a)
       \/ Included(j) \/ NotIncluded(j)
       \/ CallReturns(j)
    /\ UNCHANGED acts

Next == UserActs \/ \E j \in Job : Resumes(j)

Spec == Init /\ [][Next]_vars

\* What a job waits for comes: fetches have timeouts, the tool its deadline,
\* files are read or not; for OpenTimestamps the vendored client is trusted.
FairSpec == Spec /\ \A j \in Job : WF_vars(Resumes(j))

-----------------------------------------------------------------------------
(* Properties.                                                             *)

OneHash(s) == \A i, k \in DOMAIN s : s[i].of = s[k].of /\ s[i].run = s[k].run

\* The stamps a receipt lists are of one hash and of one run, however many runs
\* overlapped and whenever a check for inclusion of an old one came back:
\* stampResults and batchStampResults are replaced, never added to, and a proof
\* replaces only the binding it was asked for (anchor.js 380-430, 499-503).
OneHashPerReceipt ==
    /\ OneHash(anchorsJsonPayload.anchor_bindings)
    /\ OneHash(batchResults)
    /\ \A j \in Job : Stamping(j) => OneHash(job[j].got)

\* What is shown, downloaded and saved for a single hash is about the hash on
\* the page and the artifact loaded with it, as long as no other hash came in
\* while a file was read or a stamp was under way, and none was pasted over an
\* artifact (anchor.js 98-136, 386-409, 549-553, 633-683).
SingleReceiptMatchesPage ==
    ~crossed /\ (shown = "single" \/ ocg # None) =>
        /\ ReemittedArtifact.execution_hash \in {None, hash}
        /\ \A b \in {PrintedReceipt.rows[i] : i \in DOMAIN results} :
               b.of = PrintedReceipt.hash

\* A batch receipt on show places each of its items in the very tree whose root
\* its bindings stamp, unless the items changed, or another batch was started,
\* while it was being built or stamped (anchor.js 411-441, 561-583, 717-722).
BatchReceiptMatchesItems ==
    ~muddled /\ shown = "batch" =>
        LET r == batchAnchorsPayload IN
        /\ r.root # None
        /\ \A i \in DOMAIN r.entries : Proves(r.entries[i], items[i], r.root)
        /\ \A i \in DOMAIN r.anchor_bindings : r.anchor_bindings[i].of = r.root

\* The receipts of both modes are about what the page shows.
ReceiptsMatchThePage == SingleReceiptMatchesPage /\ BatchReceiptMatchesItems

\* An agent that had the page to itself is told "stamped" only when a binding
\* of its hash by its authority is on the page; what the line of that authority
\* said before the call does not count (anchor-webmcp.js 72-84).
StampedIsOnThePage ==
    \A j \in Job :
        /\ job[j].kind = "call"
        /\ job[j].alone
        /\ Outcome(job[j].auth) = "stamped"
        => \E i \in DOMAIN results :
               results[i].of = job[j].hash /\ results[i].auth = job[j].auth

\* Whatever the authorities do, the stamp button comes back and a call by an
\* agent returns (anchor.js 372-383, anchor-webmcp.js 72-82).
PageComesBack ==
    /\ busy ~> ~busy
    /\ \A j \in Job : job[j].kind = "call" ~> job[j].kind # "call"
=============================================================================
