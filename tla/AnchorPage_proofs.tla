-------------------------- MODULE AnchorPage_proofs --------------------------
(***************************************************************************)
(* What holds of the anchor page for any digests, authorities, batches and *)
(* number of waits: every safety property AnchorPage states.               *)
(***************************************************************************)
EXTENDS AnchorPage, SequenceTheorems, TLAPS

\* An authority's answers to a run are of what the run stamps.
StampsSound ==
    \A j \in Job : Stamping(j) =>
        \A i \in DOMAIN job[j].got :
            /\ job[j].got[i].of = job[j].of
            /\ job[j].got[i].run = job[j].run

\* What the page holds of one hash, unless inputs have overlapped; a file that
\* is read alone has the page to itself.
SingleStamp(j) == Stamping(j) /\ job[j].of \in Hash
SingleSound ==
    /\ ~crossed =>
           /\ ocg \in {None, hash}
           /\ \A i \in DOMAIN results : results[i].of = hash
           /\ \A j \in Job : SingleStamp(j) => job[j].of = hash
    /\ \A j \in Job : job[j].kind = "read" /\ job[j].alone =>
           /\ ocg = None
           /\ \A k \in Job : ~SingleStamp(k)
           /\ \A k \in Job : job[k].kind = "read" => k = j

\* What it holds of a batch, unless the items have changed under a stamp; a
\* tree that is built alone is of the items there are.
BatchStamp(j) == Stamping(j) /\ job[j].of \in Seq(Hash)
BatchSound ==
    /\ ~muddled =>
           /\ root # None => root = items /\ entries = root
           /\ shown = "batch" =>
                  /\ root # None
                  /\ \A i \in DOMAIN batchResults : batchResults[i].of = root
           /\ \A j \in Job : BatchStamp(j) => root = job[j].of
    /\ \A j \in Job : job[j].kind = "build" /\ job[j].alone =>
           /\ job[j].of = items
           /\ \A k \in Job : ~BatchStamp(k)
           /\ \A k \in Job : job[k].kind = "build" => k = j

\* While an agent has the page to itself, all that is under way is its stamp.
CallKnows(call) ==
    /\ \A k \in Job : Stamping(k) =>
           /\ job[k].of = call.hash
           /\ job[k].left = {call.auth} /\ job[k].got = <<>>
           /\ status[call.auth] # "ok"
    /\ \A k, l \in Job : Stamping(k) /\ Stamping(l) => k = l
    /\ status[call.auth] = "ok" =>
           \E i \in DOMAIN results :
               results[i].of = call.hash /\ results[i].auth = call.auth
CallSound ==
    \A j \in Job : job[j].kind = "call" /\ job[j].alone => CallKnows(job[j])

\* The stamp button is disabled only while a run is waiting for an authority
\* (anchor.js 351-384).
ButtonMeansBusy == busy => \E j \in Job : Stamping(j)

PageInv ==
    /\ TypeOK
    /\ ButtonMeansBusy
    /\ StampsSound
    /\ OneHash(results) /\ OneHash(batchResults)
    /\ SingleSound /\ BatchSound /\ CallSound

-----------------------------------------------------------------------------
(***************************************************************************)
(* Waits.                                                                  *)
(***************************************************************************)
Alone == {"read", "build", "call"}

\* What a wait of each kind is made of.
LEMMA WaitShapes ==
    ASSUME NEW w \in Wait
    PROVE  /\ w.kind = "read" => /\ w.file \in Hash
                                 /\ w.json \in BOOLEAN /\ w.alone \in BOOLEAN
           /\ w.kind = "add" => w.files \in Seq(Hash) \ {<<>>}
           /\ w.kind = "build" => /\ w.of \in Seq(Hash) /\ w.run \in Nat
                                  /\ w.alone \in BOOLEAN
           /\ w.kind = "stamp" => /\ w.of \in Hash \cup Seq(Hash)
                                  /\ w.left \subseteq Auth
                                  /\ w.got \in Seq(Binding) /\ w.run \in Nat
           /\ w.kind = "check" => w.binding \in Binding
           /\ w.kind \in {"import", "recompute"} => w.of \in Hash \cup {None}
           /\ w.kind = "call" => /\ w.hash \in Hash /\ w.auth \in Auth
                                 /\ w.snapshot \subseteq Auth
                                 /\ w.alone \in BOOLEAN
  BY DEF Wait, Idle

\* A wait that is no longer alone is the same otherwise.
LEMMA WithCompany ==
    ASSUME NEW w \in Wait, w.kind \in Alone
    PROVE  /\ [w EXCEPT !.alone = FALSE] \in Wait
           /\ [w EXCEPT !.alone = FALSE].kind = w.kind
           /\ ~[w EXCEPT !.alone = FALSE].alone
<1> DEFINE v == [w EXCEPT !.alone = FALSE]
<1>1. CASE w.kind = "read"
  <2>1. w \in [kind : {"read"}, file : Hash, json : BOOLEAN, alone : BOOLEAN]
    BY <1>1 DEF Wait, Idle
  <2>2. v \in [kind : {"read"}, file : Hash, json : BOOLEAN, alone : BOOLEAN]
    BY <2>1
  <2>3. v.kind = w.kind /\ v.alone = FALSE
    BY <2>1
  <2> QED BY <2>2, <2>3 DEF Wait
<1>2. CASE w.kind = "build"
  <2>1. w \in [kind : {"build"}, of : Seq(Hash), run : Nat, alone : BOOLEAN]
    BY <1>2 DEF Wait, Idle
  <2>2. v \in [kind : {"build"}, of : Seq(Hash), run : Nat, alone : BOOLEAN]
    BY <2>1
  <2>3. v.kind = w.kind /\ v.alone = FALSE
    BY <2>1
  <2> QED BY <2>2, <2>3 DEF Wait
<1>3. CASE w.kind = "call"
  <2>1. w \in [kind : {"call"}, hash : Hash, auth : Auth,
               snapshot : SUBSET Auth, alone : BOOLEAN]
    BY <1>3 DEF Wait, Idle
  <2>2. v \in [kind : {"call"}, hash : Hash, auth : Auth,
               snapshot : SUBSET Auth, alone : BOOLEAN]
    BY <2>1
  <2>3. v.kind = w.kind /\ v.alone = FALSE
    BY <2>1
  <2> QED BY <2>2, <2>3 DEF Wait
<1> QED BY <1>1, <1>2, <1>3 DEF Alone

\* A step moves the waits in S; some kinds of the others lose their solitude.
Moves(S, kinds) ==
    /\ job' \in [Job -> Wait]
    /\ \A k \in Job \ S :
           /\ job'[k].kind = job[k].kind
           /\ job[k].kind \notin kinds => job'[k] = job[k]
           /\ job[k].kind \in kinds => ~job'[k].alone

LEMMA JoinedMoves ==
    ASSUME TypeOK, NEW kinds \in SUBSET Alone
    PROVE  /\ Joined(kinds) \in [Job -> Wait]
           /\ \A k \in Job :
                  /\ Joined(kinds)[k].kind = job[k].kind
                  /\ job[k].kind \notin kinds => Joined(kinds)[k] = job[k]
                  /\ job[k].kind \in kinds => ~Joined(kinds)[k].alone
<1>1. ASSUME NEW k \in Job
      PROVE  /\ Joined(kinds)[k] \in Wait
             /\ Joined(kinds)[k].kind = job[k].kind
             /\ job[k].kind \notin kinds => Joined(kinds)[k] = job[k]
             /\ job[k].kind \in kinds => ~Joined(kinds)[k].alone
  <2>1. job[k] \in Wait
    BY <1>1 DEF TypeOK
  <2>2. CASE job[k].kind \in kinds
    <3>1. Joined(kinds)[k] = [job[k] EXCEPT !.alone = FALSE]
      BY <1>1, <2>2 DEF Joined
    <3> QED BY <2>1, <2>2, <3>1, WithCompany
  <2>3. CASE job[k].kind \notin kinds
    BY <1>1, <2>1, <2>3 DEF Joined
  <2> QED BY <2>2, <2>3
<1>2. Joined(kinds) \in [Job -> Wait]
  BY <1>1 DEF Joined
<1> QED BY <1>1, <1>2

LEMMA StartMoves ==
    ASSUME TypeOK, NEW j \in Job, NEW w \in Wait, NEW kinds \in SUBSET Alone,
           Start(j, w, kinds)
    PROVE  Moves({j}, kinds) /\ job'[j] = w
  BY JoinedMoves DEF Start, Moves

LEMMA JoinMoves ==
    ASSUME TypeOK, NEW kinds \in SUBSET Alone, job' = Joined(kinds)
    PROVE  Moves({}, kinds)
  BY JoinedMoves DEF Moves

LEMMA ReplaceMoves ==
    ASSUME TypeOK, NEW j \in Job, NEW w \in Wait, job' = [job EXCEPT ![j] = w]
    PROVE  Moves({j}, {}) /\ job'[j] = w
  BY DEF TypeOK, Moves

LEMMA FinishMoves ==
    ASSUME TypeOK, NEW j \in Job, Finish(j)
    PROVE  Moves({j}, {}) /\ job'[j] = Idle
  BY ReplaceMoves DEF Finish, Wait

LEMMA IdleIsIdle == Idle \in Wait /\ Idle.kind = "idle"
  BY DEF Idle, Wait

LEMMA StampJobIsWait ==
    ASSUME NEW of \in Hash \cup Seq(Hash), NEW boxes \in SUBSET Auth,
           NEW run \in Nat
    PROVE  /\ StampJob(of, boxes, run) \in Wait
           /\ StampJob(of, boxes, run).kind = "stamp"
           /\ StampJob(of, boxes, run).of = of
           /\ StampJob(of, boxes, run).left = boxes
           /\ StampJob(of, boxes, run).got = <<>>
           /\ StampJob(of, boxes, run).run = run
<1>1. <<>> \in Seq(Binding)
  OBVIOUS
<1>2. StampJob(of, boxes, run) \in
        [kind : {"stamp"}, of : Hash \cup Seq(Hash), left : SUBSET Auth,
         got : Seq(Binding), run : Nat]
  BY <1>1 DEF StampJob
<1> QED BY <1>2 DEF StampJob, Wait

-----------------------------------------------------------------------------
(***************************************************************************)
(* What a step does not disturb.                                           *)
(***************************************************************************)

\* Who is not moved, and does not lose his solitude, is who he was.
LEMMA Unmoved ==
    ASSUME TypeOK, NEW S, NEW kinds \in SUBSET Alone, Moves(S, kinds),
           NEW k \in Job \ S
    PROVE  /\ job[k] \in Wait /\ job'[k] \in Wait
           /\ job'[k].kind = job[k].kind
           /\ Stamping(k) => job'[k] = job[k]
           /\ Stamping(k)' <=> Stamping(k)
           /\ job[k].kind \in Alone /\ job'[k].alone =>
                  job'[k] = job[k] /\ job[k].kind \notin kinds
<1>1. job[k] \in Wait /\ job'[k] \in Wait
  BY DEF TypeOK, Moves
<1>2. "stamp" \notin kinds
  BY DEF Alone
<1> QED BY <1>1, <1>2 DEF Moves, Stamping

\* The button, when no stamp ends.
LEMMA ButtonKept ==
    ASSUME TypeOK, ButtonMeansBusy, NEW S \in SUBSET Job,
           NEW kinds \in SUBSET Alone, Moves(S, kinds),
           \A k \in S : ~Stamping(k), busy' => busy
    PROVE  ButtonMeansBusy'
<1> SUFFICES ASSUME busy' PROVE \E k \in Job : Stamping(k)'
  BY DEF ButtonMeansBusy
<1>1. PICK k \in Job : Stamping(k)
  BY DEF ButtonMeansBusy
<1> QED BY <1>1, Unmoved

\* The answers, when those that move bring none from elsewhere.
LEMMA StampsKept ==
    ASSUME TypeOK, StampsSound, NEW S \in SUBSET Job,
           NEW kinds \in SUBSET Alone, Moves(S, kinds),
           \A k \in S : Stamping(k)' => \A i \in DOMAIN job'[k].got :
               /\ job'[k].got[i].of = job'[k].of
               /\ job'[k].got[i].run = job'[k].run
    PROVE  StampsSound'
<1> SUFFICES ASSUME NEW k \in Job, Stamping(k)'
             PROVE  \A i \in DOMAIN job'[k].got :
                        /\ job'[k].got[i].of = job'[k].of
                        /\ job'[k].got[i].run = job'[k].run
  BY DEF StampsSound
<1>1. CASE k \in S
  BY <1>1
<1>2. CASE k \notin S
  BY <1>2, Unmoved DEF StampsSound
<1> QED BY <1>1, <1>2

\* What is known of one hash, when no read and no stamp comes in.
LEMMA SingleKept ==
    ASSUME TypeOK, SingleSound, NEW S \in SUBSET Job,
           NEW kinds \in SUBSET Alone, Moves(S, kinds),
           \A k \in S : job'[k].kind # "read" /\ ~SingleStamp(k)',
           crossed' = crossed, hash' = hash, ocg' = ocg, results' = results
    PROVE  SingleSound'
<1>1. \A k \in Job : SingleStamp(k)' => SingleStamp(k) /\ job'[k] = job[k]
  BY Unmoved DEF SingleStamp
<1>2. \A k \in Job : job'[k].kind = "read" => job[k].kind = "read"
  BY Unmoved
<1>3. \A k \in Job : job'[k].kind = "read" /\ job'[k].alone => job[k].alone
  BY Unmoved DEF Alone
<1> QED BY <1>1, <1>2, <1>3 DEF SingleSound

\* What is known of a batch, when no build and no stamp of one comes in.
LEMMA BatchKept ==
    ASSUME TypeOK, BatchSound, NEW S \in SUBSET Job,
           NEW kinds \in SUBSET Alone, Moves(S, kinds),
           \A k \in S : job'[k].kind # "build" /\ ~BatchStamp(k)',
           muddled' = muddled, items' = items, root' = root,
           entries' = entries, batchResults' = batchResults,
           shown' = "batch" => shown = "batch"
    PROVE  BatchSound'
<1>1. \A k \in Job : BatchStamp(k)' => BatchStamp(k) /\ job'[k] = job[k]
  BY Unmoved DEF BatchStamp
<1>2. \A k \in Job : job'[k].kind = "build" => job[k].kind = "build"
  BY Unmoved
<1>3. \A k \in Job : job'[k].kind = "build" /\ job'[k].alone =>
          job[k].alone /\ job'[k] = job[k]
  BY Unmoved DEF Alone
<1> QED BY <1>1, <1>2, <1>3 DEF BatchSound

\* What an agent may rely on, when no stamp and no call begins or ends.
LEMMA CallKept ==
    ASSUME TypeOK, CallSound, NEW S \in SUBSET Job,
           NEW kinds \in SUBSET Alone, Moves(S, kinds),
           \A k \in S : job'[k].kind \notin {"call", "stamp"},
           status' = status,
           \A h \in Hash, a \in Auth :
               (\E i \in DOMAIN results :
                    results[i].of = h /\ results[i].auth = a)
               => \E i \in DOMAIN results' :
                      results'[i].of = h /\ results'[i].auth = a
    PROVE  CallSound'
<1> SUFFICES ASSUME NEW j \in Job, job'[j].kind = "call", job'[j].alone
             PROVE  CallKnows(job[j])'
  BY DEF CallSound
<1>1. job'[j] = job[j] /\ job[j] \in Wait
  <2>1. j \in Job \ S
    OBVIOUS
  <2>2. /\ job[j] \in Wait /\ job'[j].kind = job[j].kind
        /\ job[j].kind \in Alone /\ job'[j].alone => job'[j] = job[j]
    BY <2>1, Unmoved
  <2>3. "call" \in Alone
    BY DEF Alone
  <2> QED BY <2>2, <2>3
<1>2. \A k \in Job : Stamping(k)' => Stamping(k) /\ job'[k] = job[k]
  BY Unmoved DEF Stamping
<1>3. job[j].hash \in Hash /\ job[j].auth \in Auth
  BY <1>1, WaitShapes
<1>4. CallKnows(job[j])
  BY <1>1 DEF CallSound
<1> QED BY <1>1, <1>2, <1>3, <1>4 DEF CallKnows

\* An agent is no longer alone when anything moves that could matter to it.
LEMMA CallLeft ==
    ASSUME TypeOK, NEW S \in SUBSET Job, NEW kinds \in SUBSET Alone,
           Moves(S, kinds), "call" \in kinds,
           \A k \in S : job'[k].kind # "call"
    PROVE  CallSound'
<1>1. \A j \in Job : job'[j].kind = "call" => ~job'[j].alone
  BY Unmoved DEF Alone
<1> QED BY <1>1 DEF CallSound

-----------------------------------------------------------------------------
(***************************************************************************)
(* The steps, one by one.                                                  *)
(***************************************************************************)

\* A step that moves only waits that are no stamps, no reads, no builds and no
\* calls by then, and touches nothing the stamps are compared with.
LEMMA QuietStep ==
    ASSUME PageInv, acts' \in Nat, NEW S \in SUBSET Job, Moves(S, {}),
           \A k \in S : ~Stamping(k)
               /\ job'[k].kind \notin {"stamp", "read", "build", "call"},
           UNCHANGED <<single, batch, busy, status, crossed, muddled>>,
           mode' \in {"single", "batch"}, shown' \in {shown, "none"},
           checked' \subseteq Auth, recheck' \in Hash \cup {None}
    PROVE  PageInv'
<1> USE DEF single, batch
<1>1. TypeOK'
  BY DEF PageInv, TypeOK, Moves
<1>2. ButtonMeansBusy'
  BY ButtonKept DEF PageInv
<1>3. StampsSound'
  <2>1. \A k \in S : ~Stamping(k)'
    BY DEF Stamping
  <2> QED BY <2>1, StampsKept DEF PageInv
<1>4. SingleSound'
  BY SingleKept DEF PageInv, SingleStamp, Stamping
<1>5. BatchSound'
  BY BatchKept DEF PageInv, BatchStamp, Stamping
<1>6. CallSound'
  BY CallKept DEF PageInv
<1> QED BY <1>1, <1>2, <1>3, <1>4, <1>5, <1>6 DEF PageInv, OneHash

\* A step that changes the items of the batch.
LEMMA EditStep ==
    ASSUME PageInv, acts' \in Nat, NEW s \in Seq(Hash), EditItems(s),
           NEW S \in SUBSET Job, Moves(S, {"build"}),
           \A k \in S : ~Stamping(k)
               /\ job[k].kind # "build"
               /\ job'[k].kind \notin {"stamp", "read", "build", "call"}
    PROVE  PageInv'
<1> USE DEF single, EditItems, resetBatchStamp
<1>0. {"build"} \in SUBSET Alone
  BY DEF Alone
<1>1. TypeOK'
  BY DEF PageInv, TypeOK, Moves, BatchBusy
<1>2. ButtonMeansBusy'
  BY <1>0, ButtonKept DEF PageInv
<1>3. StampsSound'
  <2>1. \A k \in S : ~Stamping(k)'
    BY DEF Stamping
  <2> QED BY <1>0, <2>1, StampsKept DEF PageInv
<1>4. SingleSound'
  BY <1>0, SingleKept DEF PageInv, SingleStamp, Stamping
<1>5. BatchSound'
  <2>1. \A k \in Job : BatchStamp(k)' => BatchStamp(k)
    BY <1>0, Unmoved DEF PageInv, BatchStamp, Stamping
  <2>2. \A k \in Job : job'[k].kind = "build" => ~job'[k].alone
    BY DEF Moves
  <2>3. ~muddled' => \A k \in Job : ~BatchStamp(k)
    BY DEF BatchBusy, BatchStamp
  <2> QED BY <2>1, <2>2, <2>3 DEF BatchSound
<1>6. CallSound'
  BY <1>0, CallKept DEF PageInv
<1> QED BY <1>1, <1>2, <1>3, <1>4, <1>5, <1>6 DEF PageInv, OneHash

\* A file is chosen: it has the page to itself if nothing else does.
LEMMA ProcessFileStep ==
    ASSUME PageInv, acts' \in Nat, NEW j \in Job, NEW h \in Hash,
           NEW json \in BOOLEAN, ProcessFile(j, h, json)
    PROVE  PageInv'
<1> USE DEF batch
<1>0. TypeOK /\ {"read", "call"} \in SUBSET Alone /\ job[j] = Idle
  BY DEF PageInv, Alone, ProcessFile, Free
<1>1. PICK w \in Wait : /\ w = [kind |-> "read", file |-> h, json |-> json,
                                alone |-> ~SingleBusy]
                        /\ Start(j, w, {"read", "call"})
  <2>1. SingleBusy \in BOOLEAN
    BY DEF SingleBusy
  <2> QED BY <2>1 DEF ProcessFile, Wait
<1>2. Moves({j}, {"read", "call"}) /\ job'[j] = w
  BY <1>0, <1>1, StartMoves
<1>3. ~Stamping(j) /\ w.kind = "read"
  BY <1>0, <1>1, IdleIsIdle DEF Stamping
<1>4. TypeOK'
  <2>1. crossed' \in BOOLEAN
    BY <1>0 DEF ProcessFile, SingleBusy, TypeOK
  <2> QED BY <1>0, <1>2, <2>1 DEF ProcessFile, TypeOK, Moves
<1>5. ButtonMeansBusy'
  BY <1>0, <1>2, <1>3, ButtonKept DEF PageInv, ProcessFile
<1>6. StampsSound'
  BY <1>0, <1>2, <1>3, StampsKept DEF PageInv, Stamping
<1>7. BatchSound'
  BY <1>0, <1>2, <1>3, BatchKept DEF PageInv, BatchStamp, Stamping,
                                     ProcessFile
<1>8. CallSound'
  BY <1>0, <1>2, <1>3, CallLeft
<1>9. SingleSound'
  <2>1. \A k \in Job : SingleStamp(k)' => SingleStamp(k) /\ job'[k] = job[k]
    BY <1>0, <1>2, <1>3, Unmoved DEF SingleStamp, Stamping
  <2>2. \A k \in Job : job'[k].kind = "read" /\ job'[k].alone => k = j
    BY <1>2 DEF Moves
  <2>3. job'[j].alone => \A k \in Job : /\ ~SingleStamp(k)
                                        /\ job[k].kind # "read"
    <3>1. w.alone = ~SingleBusy
      BY <1>1
    <3>2. ~SingleBusy => \A k \in Job : ~SingleStamp(k) /\ job[k].kind # "read"
      BY DEF SingleBusy, SingleStamp
    <3> QED BY <1>2, <3>1, <3>2
  <2>4. \A k \in Job : job'[k].kind = "read" => k = j \/ job[k].kind = "read"
    BY <1>2 DEF Moves
  <2>5. ocg' = None /\ hash' = hash /\ results' = results
    BY DEF ProcessFile
  <2>6. ~crossed' => ~crossed
    BY DEF ProcessFile
  <2> QED BY <2>1, <2>2, <2>3, <2>4, <2>5, <2>6 DEF PageInv, SingleSound
<1>10. UNCHANGED <<results, batchResults>>
  BY DEF ProcessFile
<1> QED BY <1>4, <1>5, <1>6, <1>7, <1>8, <1>9, <1>10 DEF PageInv, OneHash

\* Its digest is known.
LEMMA FileReadStep ==
    ASSUME PageInv, acts' \in Nat, NEW j \in Job, FileRead(j)
    PROVE  PageInv'
<1> USE DEF batch, displayHash
<1>0. TypeOK /\ {"read", "call"} \in SUBSET Alone /\ job[j] \in Wait
  BY DEF PageInv, Alone, TypeOK
<1>1. Moves({j}, {"read", "call"}) /\ job'[j] = Idle
  BY <1>0, StartMoves, IdleIsIdle DEF FileRead
<1>2. /\ ~Stamping(j) /\ job[j].file \in Hash
      /\ job[j].alone \in BOOLEAN
  BY <1>0, WaitShapes DEF Stamping, FileRead
<1>3. job'[j].kind = "idle" /\ ~Stamping(j)'
  BY <1>1, IdleIsIdle DEF Stamping
<1>4. TypeOK'
  BY <1>0, <1>1, <1>2 DEF FileRead, TypeOK, Moves
<1>5. ButtonMeansBusy'
  BY <1>0, <1>1, <1>2, ButtonKept DEF PageInv, FileRead
<1>6. StampsSound'
  BY <1>0, <1>1, <1>3, StampsKept DEF PageInv
<1>7. BatchSound'
  BY <1>0, <1>1, <1>3, BatchKept DEF PageInv, BatchStamp, FileRead
<1>8. CallSound'
  BY <1>0, <1>1, <1>3, CallLeft
<1>9. SingleSound'
  <2>1. \A k \in Job : SingleStamp(k)' => SingleStamp(k)
    BY <1>0, <1>1, <1>2, <1>3, Unmoved DEF SingleStamp, Stamping
  <2>2. \A k \in Job : job'[k].kind = "read" => ~job'[k].alone
    BY <1>1, <1>3 DEF Moves
  <2>3. job[j].alone => ocg = None /\ \A k \in Job : ~SingleStamp(k)
    BY DEF PageInv, SingleSound, FileRead
  <2>4. ~crossed' => job[j].alone
    BY DEF FileRead
  <2>5. hash' = job[j].file /\ results' = <<>> /\ ocg' \in {job[j].file, ocg}
    BY DEF FileRead
  <2> QED BY <2>1, <2>2, <2>3, <2>4, <2>5 DEF SingleSound
<1>10. results' = <<>> /\ batchResults' = batchResults
  BY DEF FileRead
<1> QED BY <1>4, <1>5, <1>6, <1>7, <1>8, <1>9, <1>10 DEF PageInv, OneHash

\* A hash is pasted.
LEMMA HashInputStep ==
    ASSUME PageInv, acts' \in Nat, NEW h \in Hash, HashInput(h)
    PROVE  PageInv'
<1> USE DEF batch, displayHash
<1>0. TypeOK /\ {"read", "call"} \in SUBSET Alone
  BY DEF PageInv, Alone
<1>1. Moves({}, {"read", "call"})
  BY <1>0, JoinMoves DEF HashInput
<1>2. TypeOK'
  <2>1. crossed' \in BOOLEAN
    BY DEF HashInput, SingleBusy
  <2> QED BY <1>0, <1>1, <2>1 DEF HashInput, TypeOK, Moves
<1>3. ButtonMeansBusy'
  BY <1>0, <1>1, ButtonKept DEF PageInv, HashInput
<1>4. StampsSound'
  BY <1>0, <1>1, StampsKept DEF PageInv
<1>5. BatchSound'
  BY <1>0, <1>1, BatchKept DEF PageInv, HashInput
<1>6. CallSound'
  BY <1>0, <1>1, CallLeft
<1>7. SingleSound'
  <2>1. \A k \in Job : SingleStamp(k)' => SingleStamp(k)
    BY <1>0, <1>1, Unmoved DEF SingleStamp, Stamping
  <2>2. \A k \in Job : job'[k].kind = "read" => ~job'[k].alone
    BY <1>1 DEF Moves
  <2>3. ~crossed' => ocg = None /\ \A k \in Job : ~SingleStamp(k)
    BY DEF HashInput, SingleBusy, SingleStamp
  <2> QED BY <2>1, <2>2, <2>3 DEF HashInput, SingleSound
<1>8. results' = <<>> /\ batchResults' = batchResults
  BY DEF HashInput
<1> QED BY <1>2, <1>3, <1>4, <1>5, <1>6, <1>7, <1>8 DEF PageInv, OneHash

\* A tree is begun.
LEMMA BatchClickStep ==
    ASSUME PageInv, acts' \in Nat, NEW j \in Job, BatchClick(j)
    PROVE  PageInv'
<1> USE DEF page, single, batch
<1>0. TypeOK /\ {"build"} \in SUBSET Alone /\ job[j] = Idle
  BY DEF PageInv, Alone, BatchClick, Free
<1>1. PICK w \in Wait : /\ w = [kind |-> "build", of |-> items, run |-> acts',
                                alone |-> ~BatchBusy]
                        /\ Start(j, w, {"build"})
  <2>1. BatchBusy \in BOOLEAN /\ items \in Seq(Hash)
    BY <1>0 DEF BatchBusy, TypeOK
  <2> QED BY <2>1 DEF BatchClick, Wait
<1>2. Moves({j}, {"build"}) /\ job'[j] = w
  BY <1>0, <1>1, StartMoves
<1>3. ~Stamping(j) /\ w.kind = "build"
  BY <1>0, <1>1, IdleIsIdle DEF Stamping
<1>4. TypeOK'
  <2>1. muddled' \in BOOLEAN
    BY <1>0 DEF BatchClick, BatchBusy, TypeOK
  <2> QED BY <1>0, <1>2, <2>1 DEF BatchClick, TypeOK, Moves
<1>5. ButtonMeansBusy'
  BY <1>0, <1>2, <1>3, ButtonKept DEF PageInv, BatchClick
<1>6. StampsSound'
  BY <1>0, <1>2, <1>3, StampsKept DEF PageInv, Stamping
<1>7. SingleSound'
  BY <1>0, <1>2, <1>3, SingleKept DEF PageInv, SingleStamp, Stamping,
                                      BatchClick
<1>8. CallSound'
  BY <1>0, <1>2, <1>3, CallKept DEF PageInv, BatchClick
<1>9. BatchSound'
  <2>1. \A k \in Job : BatchStamp(k)' => BatchStamp(k) /\ job'[k] = job[k]
    BY <1>0, <1>2, <1>3, Unmoved DEF BatchStamp, Stamping
  <2>2. \A k \in Job : job'[k].kind = "build" /\ job'[k].alone => k = j
    BY <1>2 DEF Moves
  <2>3. job'[j].alone => \A k \in Job : /\ ~BatchStamp(k)
                                        /\ job[k].kind # "build"
    <3>1. w.alone = ~BatchBusy
      BY <1>1
    <3>2. ~BatchBusy => \A k \in Job : ~BatchStamp(k) /\ job[k].kind # "build"
      BY DEF BatchBusy, BatchStamp
    <3> QED BY <1>2, <3>1, <3>2
  <2>4. \A k \in Job : job'[k].kind = "build" => k = j \/ job[k].kind = "build"
    BY <1>2 DEF Moves
  <2>5. /\ UNCHANGED <<items, root, entries, batchResults, shown>>
        /\ job'[j].of = items
    BY <1>1, <1>2 DEF BatchClick
  <2>6. ~muddled' => ~muddled
    BY DEF BatchClick
  <2> QED BY <2>1, <2>2, <2>3, <2>4, <2>5, <2>6 DEF PageInv, BatchSound
<1>10. UNCHANGED <<results, batchResults>>
  BY DEF BatchClick
<1> QED BY <1>4, <1>5, <1>6, <1>7, <1>8, <1>9, <1>10 DEF PageInv, OneHash

\* A stamp begins, or none when no box is checked.
LEMMA RunStampMoves ==
    ASSUME TypeOK, NEW j \in Job, NEW of \in Hash \cup Seq(Hash),
           NEW run \in Nat, runStamp(j, of, checked, run), ~Stamping(j)
    PROVE  /\ Moves({j}, Alone)
           /\ status' \in [Auth -> {"none", "waiting", "ok", "err"}]
           /\ busy' \in BOOLEAN /\ shown' \in {shown, "none"}
           /\ checked = {} => /\ job'[j] = Idle
                              /\ shown' = shown /\ busy' = busy
           /\ checked # {} => /\ job'[j] = StampJob(of, checked, run)
                              /\ shown' = "none"
<1>1. checked \in SUBSET Auth
  BY DEF TypeOK
<1>2. StampJob(of, checked, run) \in Wait
  BY <1>1, StampJobIsWait
<1>3. PICK w \in Wait : /\ w = IF checked = {} THEN Idle
                               ELSE StampJob(of, checked, run)
                        /\ Start(j, w, Alone)
  BY <1>2, IdleIsIdle DEF runStamp, Alone
<1>4. Moves({j}, Alone) /\ job'[j] = w
  BY <1>3, StartMoves
<1>5. status' \in [Auth -> {"none", "waiting", "ok", "err"}]
  BY DEF runStamp, Waiting, TypeOK
<1> QED BY <1>3, <1>4, <1>5 DEF runStamp, TypeOK

LEMMA StampClickStep ==
    ASSUME PageInv, acts' \in Nat, NEW j \in Job, StampClick(j)
    PROVE  PageInv'
<1> USE DEF batch
<1>0. TypeOK /\ Alone \in SUBSET Alone /\ job[j] = Idle
      /\ checked \in SUBSET Auth
  BY DEF PageInv, StampClick, Free, TypeOK
<1>1. ~Stamping(j) /\ hash \in Hash
  BY <1>0, IdleIsIdle DEF Stamping, StampClick, TypeOK
<1>2. /\ Moves({j}, Alone)
      /\ status' \in [Auth -> {"none", "waiting", "ok", "err"}]
      /\ busy' \in BOOLEAN /\ shown' \in {shown, "none"}
      /\ checked = {} => job'[j] = Idle /\ busy' = busy
      /\ checked # {} => job'[j] = StampJob(hash, checked, acts')
  BY <1>0, <1>1, RunStampMoves DEF StampClick
<1>3. /\ job'[j].kind \in {"idle", "stamp"}
      /\ job'[j].kind = "stamp" => job'[j].of = hash /\ job'[j].got = <<>>
  BY <1>0, <1>1, <1>2, IdleIsIdle, StampJobIsWait
<1>4. TypeOK'
  <2>1. crossed' \in BOOLEAN
    BY <1>0 DEF StampClick, SingleBusy, TypeOK
  <2> QED BY <1>0, <1>2, <2>1 DEF StampClick, TypeOK, Moves, single
<1>5. ButtonMeansBusy'
  <2>1. CASE checked = {}
    BY <1>0, <1>1, <1>2, <2>1, ButtonKept DEF PageInv
  <2>2. CASE checked # {}
    BY <1>0, <1>1, <1>2, <2>2, StampJobIsWait DEF ButtonMeansBusy, Stamping
  <2> QED BY <2>1, <2>2
<1>6. StampsSound'
  BY <1>0, <1>2, <1>3, StampsKept DEF PageInv, Stamping
<1>7. BatchSound'
  <2>1. ~BatchStamp(j)'
    BY <1>1, <1>3, PageAssumption DEF BatchStamp, Stamping
  <2> QED BY <1>0, <1>2, <1>3, <2>1, BatchKept DEF PageInv, StampClick
<1>8. CallSound'
  BY <1>0, <1>2, <1>3, CallLeft DEF Alone
<1>9. SingleSound'
  <2>1. \A k \in Job \ {j} : SingleStamp(k)' => /\ SingleStamp(k)
                                                /\ job'[k] = job[k]
    BY <1>0, <1>2, Unmoved DEF SingleStamp
  <2>2. \A k \in Job : job'[k].kind = "read" => ~job'[k].alone
    BY <1>2, <1>3 DEF Moves, Alone
  <2>3. /\ ~crossed' => ~crossed
        /\ UNCHANGED <<ocg, hash, results>>
    BY DEF StampClick, single
  <2>4. SingleStamp(j)' => job'[j].of = hash
    BY <1>3 DEF SingleStamp, Stamping
  <2> QED BY <2>1, <2>2, <2>3, <2>4 DEF PageInv, SingleSound
<1>10. UNCHANGED <<results, batchResults>>
  BY DEF StampClick, single
<1> QED BY <1>4, <1>5, <1>6, <1>7, <1>8, <1>9, <1>10 DEF PageInv, OneHash

LEMMA TreeBuiltStep ==
    ASSUME PageInv, acts' \in Nat, NEW j \in Job, TreeBuilt(j)
    PROVE  PageInv'
<1> USE DEF single
<1>0. TypeOK /\ Alone \in SUBSET Alone /\ job[j] \in Wait
      /\ checked \in SUBSET Auth
  BY DEF PageInv, TypeOK
<1>1. /\ ~Stamping(j) /\ job[j].of \in Seq(Hash) /\ job[j].run \in Nat
      /\ job[j].alone \in BOOLEAN
  BY <1>0, WaitShapes DEF Stamping, TreeBuilt
<1>2. /\ Moves({j}, Alone)
      /\ status' \in [Auth -> {"none", "waiting", "ok", "err"}]
      /\ busy' \in BOOLEAN /\ shown' \in {shown, "none"}
      /\ checked = {} => job'[j] = Idle /\ shown' = shown /\ busy' = busy
      /\ checked # {} => /\ job'[j] = StampJob(job[j].of, checked, job[j].run)
                         /\ shown' = "none"
  BY <1>0, <1>1, RunStampMoves DEF TreeBuilt
<1>3. /\ job'[j].kind \in {"idle", "stamp"}
      /\ job'[j].kind = "stamp" =>
             job'[j].of = job[j].of /\ job'[j].got = <<>> /\ checked # {}
  BY <1>0, <1>1, <1>2, IdleIsIdle, StampJobIsWait
<1>4. TypeOK'
  BY <1>0, <1>1, <1>2 DEF TreeBuilt, TypeOK, Moves
<1>5. ButtonMeansBusy'
  <2>1. CASE checked = {}
    BY <1>0, <1>1, <1>2, <2>1, ButtonKept DEF PageInv
  <2>2. CASE checked # {}
    BY <1>0, <1>1, <1>2, <2>2, StampJobIsWait DEF ButtonMeansBusy, Stamping
  <2> QED BY <2>1, <2>2
<1>6. StampsSound'
  BY <1>0, <1>2, <1>3, StampsKept DEF PageInv, Stamping
<1>7. SingleSound'
  <2>1. ~SingleStamp(j)'
    BY <1>1, <1>3, PageAssumption DEF SingleStamp, Stamping
  <2> QED BY <1>0, <1>2, <1>3, <2>1, SingleKept DEF PageInv, TreeBuilt
<1>8. CallSound'
  BY <1>0, <1>2, <1>3, CallLeft DEF Alone
<1>9. BatchSound'
  <2>1. \A k \in Job \ {j} : BatchStamp(k)' => BatchStamp(k)
    BY <1>0, <1>2, Unmoved DEF BatchStamp, Stamping
  <2>2. \A k \in Job : job'[k].kind = "build" => ~job'[k].alone
    BY <1>2, <1>3 DEF Moves, Alone
  <2>3. ~muddled' => /\ job[j].alone
                     /\ checked = {} => ~muddled
    BY DEF TreeBuilt
  <2>4. job[j].alone => job[j].of = items /\ \A k \in Job : ~BatchStamp(k)
    BY DEF PageInv, BatchSound, TreeBuilt
  <2>5. /\ root' = job[j].of /\ entries' = job[j].of
        /\ UNCHANGED <<items, batchResults>>
    BY DEF TreeBuilt
  <2>6. BatchStamp(j)' => job'[j].of = job[j].of
    BY <1>3 DEF BatchStamp, Stamping
  <2>7. root' # None
    BY <1>1, <2>5, PageAssumption
  <2>8. ASSUME ~muddled', shown' = "batch"
        PROVE  \A i \in DOMAIN batchResults : batchResults[i].of = root'
    <3>1. checked = {} /\ shown = "batch" /\ ~muddled
      BY <1>2, <2>3, <2>8
    <3>2. root = items /\ \A i \in DOMAIN batchResults :
                              batchResults[i].of = root
      BY <3>1 DEF PageInv, BatchSound
    <3> QED BY <2>3, <2>4, <2>5, <2>8, <3>2
  <2> QED BY <2>1, <2>2, <2>3, <2>4, <2>5, <2>6, <2>7, <2>8 DEF BatchSound
<1>10. UNCHANGED <<results, batchResults>>
  BY DEF TreeBuilt
<1> QED BY <1>4, <1>5, <1>6, <1>7, <1>8, <1>9, <1>10 DEF PageInv, OneHash

\* An authority has answered: the last answer settles the run.
LEMMA AnsweredStep ==
    ASSUME PageInv, acts' \in Nat, NEW j \in Job, NEW a \in Auth,
           NEW new \in Seq(Binding),
           \A i \in DOMAIN new : /\ new[i].of = job[j].of
                                 /\ new[i].run = job[j].run
                                 /\ new[i].auth = a,
           Answered(j, a, new)
    PROVE  PageInv'
<1>0. TypeOK /\ {} \in SUBSET Alone /\ job[j] \in Wait /\ Stamping(j)
  BY DEF PageInv, TypeOK, Answered
<1>1. job[j].of \in Hash \cup Seq(Hash) /\ job[j].left \subseteq Auth
      /\ job[j].got \in Seq(Binding) /\ job[j].run \in Nat
  BY <1>0, WaitShapes DEF Stamping
<1>2. PICK of \in Hash \cup Seq(Hash), run \in Nat :
          of = job[j].of /\ run = job[j].run
  BY <1>1
<1>3. PICK left \in SUBSET Auth : left = job[j].left \ {a}
  BY <1>1
<1>4. PICK got \in Seq(Binding) : got = job[j].got \o new
  BY <1>1, ConcatProperties
<1>5. \A i \in DOMAIN got : got[i].of = of /\ got[i].run = run
  <2>1. \A i \in DOMAIN job[j].got :
            job[j].got[i].of = of /\ job[j].got[i].run = run
    BY <1>0, <1>2 DEF PageInv, StampsSound
  <2>2. PICK old \in Seq(Binding) : old = job[j].got
    BY <1>1
  <2>3. ASSUME NEW i \in DOMAIN got
        PROVE  \/ i \in DOMAIN old /\ got[i] = old[i]
               \/ i - Len(old) \in DOMAIN new /\ got[i] = new[i - Len(old)]
    BY <1>4, <2>2, ConcatProperties
  <2>4. \A i \in DOMAIN new : new[i].of = of /\ new[i].run = run
    BY <1>2
  <2> QED BY SMTT(15), <2>1, <2>2, <2>3, <2>4
<1>6. PICK w \in Wait : /\ w.kind \in {"idle", "stamp"}
                        /\ w.kind = "stamp" => /\ left # {}
                                               /\ w.of = of /\ w.run = run
                                               /\ w.got = got
                        /\ left # {} => w.kind = "stamp"
                        /\ job' = [job EXCEPT ![j] = w]
  <2>1. CASE left = {}
    BY <1>0, <1>3, <2>1, IdleIsIdle DEF Answered, TypeOK
  <2>2. CASE left # {}
    <3> DEFINE w == [job[j] EXCEPT !.left = left, !.got = got]
    <3>1. job[j] \in [kind : {"stamp"}, of : Hash \cup Seq(Hash),
                      left : SUBSET Auth, got : Seq(Binding), run : Nat]
      BY <1>0 DEF Wait, Idle, Stamping
    <3>2. w \in [kind : {"stamp"}, of : Hash \cup Seq(Hash),
                 left : SUBSET Auth, got : Seq(Binding), run : Nat]
      BY <3>1
    <3>3. w.of = of /\ w.run = run /\ w.got = got /\ w.kind = "stamp"
      BY <1>2, <3>1
    <3>4. w \in Wait
      BY <3>2 DEF Wait
    <3>5. job' = [job EXCEPT ![j] = w]
      BY <1>0, <1>3, <1>4, <2>2 DEF Answered, TypeOK
    <3> QED BY <2>2, <3>3, <3>4, <3>5
  <2> QED BY <2>1, <2>2
<1>7. Moves({j}, {}) /\ job'[j] = w
  BY <1>0, <1>6, ReplaceMoves
<1>8. /\ left # {} => UNCHANGED <<results, batchResults, shown>>
      /\ left = {} /\ of \in Hash => /\ results' = got
                                     /\ batchResults' = batchResults
                                     /\ shown' \in {shown, "single"}
      /\ left = {} /\ of \notin Hash => /\ batchResults' = got
                                        /\ results' = results
                                        /\ shown' \in {shown, "batch"}
  BY <1>2, <1>3, <1>4 DEF Answered, Settle
<1>9. TypeOK'
  <2>1. /\ results' \in Seq(Binding) /\ batchResults' \in Seq(Binding)
        /\ shown' \in {"none", "single", "batch"}
    BY <1>0, <1>8 DEF TypeOK
  <2>2. status' \in [Auth -> {"none", "waiting", "ok", "err"}]
    BY <1>0 DEF Answered, TypeOK
  <2>3. busy' \in BOOLEAN
    BY <1>0 DEF Answered, TypeOK
  <2> QED BY <1>0, <1>7, <2>1, <2>2, <2>3 DEF Answered, TypeOK, Moves
<1>10. ButtonMeansBusy'
  <2>1. busy' => left # {}
    BY <1>3 DEF Answered
  <2> QED BY <1>6, <1>7, <2>1 DEF ButtonMeansBusy, Stamping
<1>11. StampsSound'
  BY <1>0, <1>5, <1>6, <1>7, StampsKept DEF PageInv, Stamping
<1>12. OneHash(results)' /\ OneHash(batchResults)'
  BY <1>5, <1>8 DEF PageInv, OneHash
<1>13. SingleSound'
  <2>1. \A k \in Job : SingleStamp(k)' => SingleStamp(k)
                                          /\ job'[k].of = job[k].of
    BY <1>0, <1>2, <1>6, <1>7, Unmoved DEF SingleStamp, Stamping
  <2>2. \A k \in Job : job'[k].kind = "read" => job'[k] = job[k]
    BY <1>6, <1>7 DEF Moves
  <2>3. UNCHANGED <<crossed, hash, ocg>>
    BY DEF Answered
  <2>4. ASSUME ~crossed
        PROVE  \A i \in DOMAIN results' : results'[i].of = hash
    <3>1. \A i \in DOMAIN results : results[i].of = hash
      BY <2>4 DEF PageInv, SingleSound
    <3>2. of \in Hash => of = hash
      BY <1>0, <1>2, <2>4 DEF PageInv, SingleSound, SingleStamp
    <3> QED BY <1>5, <1>8, <3>1, <3>2
  <2> QED BY <2>1, <2>2, <2>3, <2>4 DEF PageInv, SingleSound
<1>14. BatchSound'
  <2>1. \A k \in Job : BatchStamp(k)' => BatchStamp(k)
                                         /\ job'[k].of = job[k].of
    BY <1>0, <1>2, <1>6, <1>7, Unmoved DEF BatchStamp, Stamping
  <2>2. \A k \in Job : job'[k].kind = "build" => job'[k] = job[k]
    BY <1>6, <1>7 DEF Moves
  <2>3. UNCHANGED <<muddled, items, root, entries>>
    BY DEF Answered
  <2>4. ASSUME ~muddled, shown' = "batch"
        PROVE  /\ root # None
               /\ \A i \in DOMAIN batchResults' : batchResults'[i].of = root
    <3>1. CASE left = {} /\ of \notin Hash
      <4>1. of \in Seq(Hash) /\ BatchStamp(j)
        BY <1>0, <1>2, <3>1 DEF BatchStamp
      <4>2. root = of
        BY <1>2, <2>4, <4>1 DEF PageInv, BatchSound
      <4> QED BY <1>5, <1>8, <3>1, <4>1, <4>2, PageAssumption
    <3>2. CASE ~(left = {} /\ of \notin Hash)
      <4>1. shown = "batch" /\ batchResults' = batchResults
        BY <1>8, <2>4, <3>2
      <4> QED BY <2>4, <4>1 DEF PageInv, BatchSound
    <3> QED BY <3>1, <3>2
  <2>5. ~muddled /\ root # None => root = items /\ entries = root
    BY DEF PageInv, BatchSound
  <2>6. ~muddled => \A k \in Job : BatchStamp(k) => root = job[k].of
    BY DEF PageInv, BatchSound
  <2>7. \A k \in Job : job[k].kind = "build" /\ job[k].alone =>
            /\ job[k].of = items
            /\ \A l \in Job : ~BatchStamp(l)
            /\ \A l \in Job : job[l].kind = "build" => l = k
    BY DEF PageInv, BatchSound
  <2> QED BY <2>1, <2>2, <2>3, <2>4, <2>5, <2>6, <2>7 DEF BatchSound
<1>15. CallSound'
  <2> SUFFICES ASSUME NEW c \in Job, job'[c].kind = "call", job'[c].alone
               PROVE  CallKnows(job[c])'
    BY DEF CallSound
  <2>1. job'[c] = job[c] /\ c # j
    BY <1>6, <1>7 DEF Moves
  <2>2. CallKnows(job[c]) /\ job[c] \in Wait
    BY <1>0, <2>1 DEF PageInv, CallSound, TypeOK
  <2>3. job[c].hash \in Hash /\ job[c].auth \in Auth
    BY <2>1, <2>2, WaitShapes
  <2>4. of = job[c].hash /\ job[j].left = {job[c].auth} /\ job[j].got = <<>>
        /\ \A k \in Job : Stamping(k) => k = j
    BY <1>0, <1>2, <2>2 DEF CallKnows
  <2>5. a = job[c].auth /\ left = {}
    BY <1>3, <2>4 DEF Answered
  <2>6. \A k \in Job : ~Stamping(k)'
    BY <1>0, <1>6, <1>7, <2>4, <2>5, Unmoved DEF Stamping
  <2>7. results' = new
    <3>1. got = new
      BY <1>4, <2>4, ConcatEmptySeq
    <3> QED BY <1>8, <2>3, <2>4, <2>5, <3>1
  <2>8. status'[a] = IF new = <<>> THEN "err" ELSE "ok"
    BY <1>0 DEF Answered, TypeOK
  <2>9. status'[a] = "ok" => \E i \in DOMAIN results' :
            results'[i].of = job[c].hash /\ results'[i].auth = a
    <3>1. new # <<>> => 1 \in DOMAIN new
      BY EmptySeq
    <3> QED BY <1>2, <2>4, <2>7, <2>8, <3>1
  <2> QED BY <2>1, <2>5, <2>6, <2>9 DEF CallKnows
<1> QED BY <1>9, <1>10, <1>11, <1>12, <1>13, <1>14, <1>15 DEF PageInv

\* A proof of inclusion has come for a binding.
LEMMA IncludedStep ==
    ASSUME PageInv, acts' \in Nat, NEW j \in Job, Included(j)
    PROVE  PageInv'
<1> USE DEF batch
<1>0. TypeOK /\ {} \in SUBSET Alone /\ job[j] \in Wait
      /\ results \in Seq(Binding)
  BY DEF PageInv, TypeOK
<1>1. Moves({j}, {}) /\ job'[j] = Idle /\ ~Stamping(j)
  BY <1>0, FinishMoves DEF Included, Stamping
<1>2. job'[j].kind = "idle" /\ ~Stamping(j)'
  BY <1>1, IdleIsIdle DEF Stamping
<1>3. \A b \in Binding : /\ Upgraded(b) \in Binding
                         /\ Upgraded(b).of = b.of /\ Upgraded(b).run = b.run
                         /\ Upgraded(b).auth = b.auth
  BY DEF Binding, Upgraded
<1>4. /\ DOMAIN results' = DOMAIN results
      /\ \A i \in DOMAIN results : /\ results'[i] \in Binding
                                   /\ results'[i].of = results[i].of
                                   /\ results'[i].run = results[i].run
                                   /\ results'[i].auth = results[i].auth
  <2>1. \A i \in DOMAIN results : results[i] \in Binding
    BY <1>0, ElementOfSeq
  <2> QED BY <1>3, <2>1 DEF Included
<1>5. results' \in Seq(Binding)
  <2>1. PICK n \in Nat : DOMAIN results = 1..n
    BY <1>0, LenProperties
  <2>2. results' \in [1..n -> Binding]
    BY <1>4, <2>1 DEF Included
  <2> QED BY <2>2, SeqDef
<1>6. TypeOK'
  BY <1>0, <1>1, <1>5 DEF Included, TypeOK, Moves
<1>7. ButtonMeansBusy'
  BY <1>0, <1>1, ButtonKept DEF PageInv, Included
<1>8. StampsSound'
  BY <1>0, <1>1, <1>2, StampsKept DEF PageInv
<1>9. BatchSound'
  BY <1>0, <1>1, <1>2, BatchKept DEF PageInv, BatchStamp, Included
<1>10. CallSound'
  <2>1. status' = status
    BY DEF Included
  <2>2. ASSUME NEW h \in Hash, NEW a \in Auth,
               \E i \in DOMAIN results :
                   results[i].of = h /\ results[i].auth = a
        PROVE  \E i \in DOMAIN results' :
                   results'[i].of = h /\ results'[i].auth = a
    BY <1>4, <2>2
  <2>3. job'[j].kind \notin {"call", "stamp"}
    BY <1>2
  <2>4. \A k \in {j} : job'[k].kind \notin {"call", "stamp"}
    BY <2>3
  <2>5. {j} \in SUBSET Job
    OBVIOUS
  <2> QED BY <1>0, <1>1, <2>1, <2>2, <2>4, <2>5, CallKept DEF PageInv
<1>11. SingleSound'
  <2>1. \A k \in Job : SingleStamp(k)' => SingleStamp(k) /\ job'[k] = job[k]
    BY <1>0, <1>1, <1>2, Unmoved DEF SingleStamp
  <2>2. \A k \in Job : job'[k].kind = "read" => job'[k] = job[k]
    BY <1>1, <1>2 DEF Moves
  <2>3. UNCHANGED <<crossed, hash, ocg>>
    BY DEF Included
  <2> QED BY <1>4, <2>1, <2>2, <2>3 DEF PageInv, SingleSound
<1>12. OneHash(results)' /\ OneHash(batchResults)'
  BY <1>4 DEF PageInv, OneHash, Included
<1> QED BY <1>6, <1>7, <1>8, <1>9, <1>10, <1>11, <1>12 DEF PageInv

\* An agent calls; unless the button is disabled, that begins a stamp.
LEMMA CallStep ==
    ASSUME PageInv, acts' \in Nat, NEW j \in Job, NEW h \in Hash,
           NEW a \in Auth, Call(j, h, a)
    PROVE  PageInv'
<1> USE DEF batch, displayHash
<1>0. TypeOK /\ Alone \in SUBSET Alone /\ job[j] = Idle
  BY DEF PageInv, Call, Free
<1>1. PICK call \in Wait :
          call = [kind |-> "call", hash |-> h, auth |-> a, snapshot |-> checked,
                  alone |-> ~busy /\ ~SingleBusy /\ ~BatchBusy]
  <2>1. (~busy /\ ~SingleBusy /\ ~BatchBusy) \in BOOLEAN
        /\ checked \in SUBSET Auth
    BY <1>0 DEF TypeOK
  <2> QED BY <2>1 DEF Wait
<1>2. call.kind = "call" /\ call.hash = h /\ call.auth = a
  BY <1>1
<1>3. call.alone => ~busy /\ \A k \in Job : ~Stamping(k)
  <2>1. call.alone = (~busy /\ ~SingleBusy /\ ~BatchBusy)
    BY <1>1
  <2>2. \A k \in Job : Stamping(k) => job[k].of \in Hash \cup Seq(Hash)
    BY <1>0, WaitShapes DEF TypeOK, Stamping
  <2>3. ~SingleBusy /\ ~BatchBusy => \A k \in Job : ~Stamping(k)
    BY <2>2 DEF SingleBusy, BatchBusy
  <2> QED BY <2>1, <2>3
<1>4. PICK stamp \in Wait :
          /\ stamp = StampJob(h, {a}, acts')
          /\ stamp.kind = "stamp" /\ stamp.of = h
          /\ stamp.left = {a} /\ stamp.got = <<>>
  BY StampJobIsWait
<1>5. PICK begun \in [Job -> Wait] :
          /\ begun = [Joined(Alone) EXCEPT ![j] = call]
          /\ begun[j] = call
          /\ \A k \in Job \ {j} :
                 /\ begun[k].kind = job[k].kind
                 /\ job[k].kind \notin Alone => begun[k] = job[k]
                 /\ job[k].kind \in Alone => ~begun[k].alone
  <2>1. PICK f \in [Job -> Wait] :
            /\ f = Joined(Alone)
            /\ \A k \in Job : /\ f[k].kind = job[k].kind
                              /\ job[k].kind \notin Alone => f[k] = job[k]
                              /\ job[k].kind \in Alone => ~f[k].alone
    BY <1>0, JoinedMoves
  <2>2. [f EXCEPT ![j] = call] \in [Job -> Wait]
    OBVIOUS
  <2>3. [f EXCEPT ![j] = call][j] = call
    OBVIOUS
  <2>4. \A k \in Job \ {j} : [f EXCEPT ![j] = call][k] = f[k]
    OBVIOUS
  <2> QED BY <2>1, <2>2, <2>3, <2>4
<1>6. PICK S \in SUBSET Job :
          /\ Moves(S, Alone) /\ j \in S /\ job'[j] = call
          /\ \A k \in S : job[k] = Idle
          /\ \A k \in S \ {j} : job'[k] = stamp
          /\ \A k, l \in S \ {j} : k = l
          /\ busy => S = {j} /\ busy' = busy /\ status' = status
          /\ ~busy => S # {j} /\ busy' = TRUE /\ status' = Waiting({a})
  <2>1. CASE busy
    <3>1. job' = begun /\ busy' = busy /\ status' = status
      BY <1>1, <1>5, <2>1 DEF Call, Alone
    <3>2. Moves({j}, Alone)
      BY <1>5, <3>1 DEF Moves
    <3> QED BY <1>0, <1>5, <2>1, <3>1, <3>2
  <2>2. CASE ~busy
    <3>1. PICK k \in (j + 1)..Jobs : /\ job[k] = Idle
                                     /\ job' = [begun EXCEPT ![k] = stamp]
      BY <1>1, <1>4, <1>5, <2>2 DEF Call, Alone
    <3>2. k \in Job /\ k # j
      BY PageAssumption DEF Job
    <3>3. busy' = TRUE /\ status' = Waiting({a})
      BY <2>2 DEF Call
    <3>4. /\ job' \in [Job -> Wait] /\ job'[j] = call /\ job'[k] = stamp
          /\ \A l \in Job \ {j, k} : job'[l] = begun[l]
      BY <1>5, <3>1, <3>2
    <3>5. Moves({j, k}, Alone)
      BY <1>5, <3>4 DEF Moves
    <3>6. {j, k} \in SUBSET Job /\ {j, k} \ {j} = {k}
      BY <3>2
    <3>7. \A l \in {j, k} : job[l] = Idle
      BY <1>0, <3>1
    <3>8. \A l \in {j, k} \ {j} : job'[l] = stamp
      BY <3>4, <3>6
    <3> QED BY <2>2, <3>2, <3>3, <3>4, <3>5, <3>6, <3>7, <3>8
  <2> QED BY <2>1, <2>2
<1>7. \A k \in S : ~Stamping(k)
  BY <1>6, IdleIsIdle DEF Stamping
<1>8. /\ UNCHANGED <<ocg, items, root, entries, batchResults, muddled>>
      /\ crossed' = (SingleBusy \/ ocg # None)
      /\ hash' = h /\ results' = <<>> /\ shown' = "none"
  BY DEF Call
<1>9. TypeOK'
  <2>1. crossed' \in BOOLEAN
    BY <1>8 DEF SingleBusy
  <2>2. /\ busy' \in BOOLEAN
        /\ status' \in [Auth -> {"none", "waiting", "ok", "err"}]
    BY <1>0, <1>6 DEF TypeOK, Waiting
  <2> QED BY <1>0, <1>6, <1>8, <2>1, <2>2 DEF Call, TypeOK, Moves
<1>10. ButtonMeansBusy'
  <2>1. CASE busy
    BY <1>0, <1>6, <1>7, <2>1, ButtonKept DEF PageInv
  <2>2. CASE ~busy
    <3>1. PICK k \in S \ {j} : job'[k] = stamp
      BY <1>6, <2>2
    <3> QED BY <1>4, <3>1 DEF ButtonMeansBusy, Stamping
  <2> QED BY <2>1, <2>2
<1>11. \A k \in S : job'[k] \in {call, stamp}
  BY <1>6
<1>12. StampsSound'
  <2>1. \A k \in S : Stamping(k)' => job'[k].got = <<>>
    BY <1>2, <1>4, <1>11 DEF Stamping
  <2>2. \A k \in S : Stamping(k)' => \A i \in DOMAIN job'[k].got :
            job'[k].got[i].of = job'[k].of /\ job'[k].got[i].run = job'[k].run
    BY <2>1
  <2> QED BY <1>0, <1>6, <2>2, StampsKept DEF PageInv
<1>13. BatchSound'
  <2>1. h \notin Seq(Hash)
    BY PageAssumption
  <2>2. \A k \in S : job'[k].kind # "build" /\ ~BatchStamp(k)'
    BY <1>2, <1>4, <1>11, <2>1 DEF BatchStamp, Stamping
  <2> QED BY <1>0, <1>6, <1>8, <2>2, BatchKept DEF PageInv
<1>14. SingleSound'
  <2>1. \A k \in Job : SingleStamp(k)' => SingleStamp(k) \/ job'[k].of = h
    <3>1. \A k \in S : Stamping(k)' => job'[k].of = h
      BY <1>2, <1>4, <1>11 DEF Stamping
    <3>2. \A k \in Job \ S : Stamping(k)' => Stamping(k) /\ job'[k] = job[k]
      BY <1>0, <1>6, Unmoved
    <3> QED BY <3>1, <3>2 DEF SingleStamp
  <2>2. \A k \in Job : job'[k].kind = "read" => ~job'[k].alone
    <3>1. \A k \in S : job'[k].kind # "read"
      BY <1>2, <1>4, <1>11
    <3>2. "read" \in Alone
      BY DEF Alone
    <3> QED BY <1>6, <3>1, <3>2 DEF Moves
  <2>3. ~crossed' => ocg = None /\ \A k \in Job : ~SingleStamp(k)
    BY <1>8 DEF SingleBusy, SingleStamp
  <2> QED BY <1>8, <2>1, <2>2, <2>3 DEF SingleSound
<1>15. CallSound'
  <2> SUFFICES ASSUME NEW c \in Job, job'[c].kind = "call", job'[c].alone
               PROVE  CallKnows(job[c])'
    BY DEF CallSound
  <2>1. c = j
    BY <1>4, <1>6, <1>11 DEF Moves, Alone
  <2>2. call.alone
    BY <1>6, <2>1
  <2>3. ~busy /\ \A k \in Job : ~Stamping(k)
    BY <1>3, <2>2
  <2>4. \A k \in Job : Stamping(k)' => k \in S \ {j}
    BY <1>0, <1>2, <1>6, <2>3, Unmoved DEF Stamping
  <2>5. status'[a] = "waiting"
    BY <1>6, <2>3 DEF Waiting
  <2>6. \A k \in Job : Stamping(k)' => job'[k] = stamp
    BY <1>6, <2>4
  <2>7. \A k, l \in Job : Stamping(k)' /\ Stamping(l)' => k = l
    BY <1>6, <2>4
  <2>8. job'[c].hash = h /\ job'[c].auth = a
    BY <1>2, <1>6, <2>1
  <2> QED BY <1>4, <2>5, <2>6, <2>7, <2>8 DEF CallKnows
<1> QED BY <1>8, <1>9, <1>10, <1>12, <1>13, <1>14, <1>15 DEF PageInv, OneHash

\* The waits that end, or are replaced, with nothing the stamps hang on.
LEMMA QuietSteps ==
    ASSUME PageInv, acts' \in Nat, NEW j \in Job,
           \/ FileUnreadable(j) \/ BatchFileUnreadable(j) \/ TreeFails(j)
           \/ NotIncluded(j) \/ CallReturns(j) \/ Recomputed(j)
    PROVE  PageInv'
<1>0. TypeOK /\ job[j] \in Wait
  BY DEF PageInv, TypeOK
<1>1. Finish(j) /\ ~Stamping(j)
  BY DEF FileUnreadable, BatchFileUnreadable, TreeFails, NotIncluded,
         CallReturns, Recomputed, Stamping
<1>2. Moves({j}, {}) /\ job'[j].kind = "idle"
  BY <1>0, <1>1, FinishMoves, IdleIsIdle
<1>3. UNCHANGED <<mode, single, batch, busy, shown, status, crossed, muddled>>
  BY DEF FileUnreadable, BatchFileUnreadable, TreeFails, NotIncluded,
         CallReturns, Recomputed, page
<1>4. checked' \subseteq Auth /\ recheck' \in Hash \cup {None}
  BY <1>0, WaitShapes DEF FileUnreadable, BatchFileUnreadable, TreeFails,
         NotIncluded, CallReturns, Recomputed, page, TypeOK
<1>5. mode' \in {"single", "batch"} /\ shown' \in {shown, "none"}
  BY <1>0, <1>3 DEF TypeOK
<1> QED BY <1>1, <1>2, <1>3, <1>4, <1>5, QuietStep

LEMMA MadeWaits ==
    /\ \A o \in Hash \cup {None} : /\ [kind |-> "import", of |-> o] \in Wait
                                  /\ [kind |-> "recompute", of |-> o] \in Wait
    /\ \A fs \in Seq(Hash) \ {<<>>} : [kind |-> "add", files |-> fs] \in Wait
    /\ \A b \in Binding : [kind |-> "check", binding |-> b] \in Wait
  BY DEF Wait

LEMMA FewAreSome == Few \subseteq Seq(Hash) \ {<<>>}
<1>1. \A h \in Hash : <<h>> \in Seq(Hash) /\ <<h>> # <<>>
  OBVIOUS
<1>2. ASSUME NEW p \in Hash \X Hash PROVE p \in Seq(Hash) /\ p # <<>>
  <2>1. PICK h \in Hash, k \in Hash : p = <<h, k>>
    OBVIOUS
  <2>2. <<h, k>> \in Seq(Hash)
    OBVIOUS
  <2>3. Len(<<h, k>>) = 2 /\ Len(<<>>) = 0
    OBVIOUS
  <2>4. <<h, k>> # <<>>
    BY <2>3
  <2> QED BY <2>1, <2>2, <2>4
<1> QED BY <1>1, <1>2 DEF Few

LEMMA QuietStarts ==
    ASSUME PageInv, acts' \in Nat, NEW j \in Job,
           \/ RecomputeClick(j) \/ VerifierLoaded(j)
           \/ \E fs \in Few : AddFiles(j, fs)
           \/ \E i \in DOMAIN results : CheckInclusion(j, results[i])
    PROVE  PageInv'
<1>0. TypeOK /\ job[j] \in Wait
  BY DEF PageInv, TypeOK
<1> DEFINE Becomes(w) == /\ job' = [job EXCEPT ![j] = w]
                         /\ w.kind \notin {"stamp", "read", "build", "call"}
<1>1. PICK w \in Wait : Becomes(w)
  <2>1. CASE RecomputeClick(j)
    <3>1. [kind |-> "import", of |-> None] \in Wait
      BY MadeWaits
    <3>2. job' = [job EXCEPT ![j] = [kind |-> "import", of |-> None]]
      BY <2>1 DEF RecomputeClick
    <3> QED BY <3>1, <3>2
  <2>2. CASE VerifierLoaded(j)
    <3>1. ocg \in Hash \cup {None}
      BY <1>0 DEF TypeOK
    <3> QED BY <2>2, <3>1, MadeWaits DEF VerifierLoaded
  <2>3. ASSUME NEW fs \in Few, AddFiles(j, fs)
        PROVE  \E w \in Wait : Becomes(w)
    BY <2>3, MadeWaits, FewAreSome DEF AddFiles
  <2>4. ASSUME NEW i \in DOMAIN results, CheckInclusion(j, results[i])
        PROVE  \E w \in Wait : Becomes(w)
    <3>1. results[i] \in Binding
      BY <1>0, ElementOfSeq DEF TypeOK
    <3> QED BY <2>4, <3>1, MadeWaits DEF CheckInclusion
  <2> QED BY <2>1, <2>2, <2>3, <2>4
<1>2. Moves({j}, {}) /\ job'[j] = w
  BY <1>0, <1>1, ReplaceMoves
<1>3. ~Stamping(j)
  BY IdleIsIdle DEF RecomputeClick, VerifierLoaded, AddFiles, CheckInclusion,
                    Free, Stamping
<1>4. UNCHANGED <<mode, single, batch, busy, shown, checked, status, recheck,
                  crossed, muddled>>
  BY DEF RecomputeClick, VerifierLoaded, AddFiles, CheckInclusion, page
<1>5. /\ mode' \in {"single", "batch"} /\ shown' \in {shown, "none"}
      /\ checked' \subseteq Auth /\ recheck' \in Hash \cup {None}
  BY <1>0, <1>4 DEF TypeOK
<1>6. /\ {j} \in SUBSET Job /\ Moves({j}, {})
      /\ \A k \in {j} : ~Stamping(k)
             /\ job'[k].kind \notin {"stamp", "read", "build", "call"}
  BY <1>1, <1>2, <1>3
<1>7. UNCHANGED <<single, batch, busy, status, crossed, muddled>>
  BY <1>4
<1> HIDE DEF Becomes
<1> QED BY <1>5, <1>6, <1>7, QuietStep

\* Nothing but the mode, or a box, changes; or nothing at all.
LEMMA StillSteps ==
    ASSUME PageInv, acts' \in Nat,
           \/ \E m \in {"single", "batch"} : setMode(m)
           \/ \E a \in Auth : Toggle(a)
           \/ UNCHANGED <<page, job, crossed, muddled>>
    PROVE  PageInv'
<1>0. TypeOK
  BY DEF PageInv
<1>1. job' = job
  BY DEF setMode, Toggle
<1>2. Moves({}, {})
  BY <1>0, <1>1 DEF TypeOK, Moves
<1>3. UNCHANGED <<single, batch, busy, status, recheck, crossed, muddled>>
  BY DEF setMode, Toggle, page
<1>4. mode' \in {"single", "batch"} /\ shown' \in {shown, "none"}
      /\ checked' \subseteq Auth
  BY <1>0 DEF setMode, Toggle, page, TypeOK
<1> QED BY SMTT(15), <1>0, <1>2, <1>3, <1>4, QuietStep DEF TypeOK

\* A file of those dropped has been read.
LEMMA BatchFileReadStep ==
    ASSUME PageInv, acts' \in Nat, NEW j \in Job, BatchFileRead(j)
    PROVE  PageInv'
<1>0. TypeOK /\ job[j] \in Wait /\ job[j].kind = "add" /\ ~Stamping(j)
      /\ items \in Seq(Hash)
  BY DEF PageInv, TypeOK, BatchFileRead, Stamping
<1>1. job[j].files \in Seq(Hash) /\ job[j].files # <<>>
  BY <1>0, WaitShapes
<1>2. Head(job[j].files) \in Hash /\ Tail(job[j].files) \in Seq(Hash)
  BY <1>1, HeadTailProperties
<1>3. PICK w \in Wait :
          /\ w.kind \in {"idle", "add"}
          /\ w = IF Tail(job[j].files) = <<>> THEN Idle
                 ELSE [job[j] EXCEPT !.files = Tail(job[j].files)]
  <2>1. CASE Tail(job[j].files) = <<>>
    BY <2>1, IdleIsIdle
  <2>2. CASE Tail(job[j].files) # <<>>
    <3>1. job[j] \in [kind : {"add"}, files : Seq(Hash) \ {<<>>}]
      BY <1>0 DEF Wait, Idle
    <3>2. [job[j] EXCEPT !.files = Tail(job[j].files)] \in
              [kind : {"add"}, files : Seq(Hash) \ {<<>>}]
      BY <1>2, <2>2, <3>1
    <3>3. [job[j] EXCEPT !.files = Tail(job[j].files)].kind = "add"
      BY <3>2
    <3> QED BY <2>2, <3>2, <3>3 DEF Wait
  <2> QED BY <2>1, <2>2
<1>4. CASE Len(items) < BatchMax
  <2>1. Start(j, w, {"build"}) /\ {"build"} \in SUBSET Alone
    BY <1>3, <1>4 DEF BatchFileRead, Alone
  <2>2. Moves({j}, {"build"}) /\ job'[j] = w
    BY <1>0, <2>1, StartMoves
  <2>3. PICK s \in Seq(Hash) : EditItems(s)
    BY <1>0, <1>2, <1>4, AppendProperties DEF BatchFileRead
  <2>4. \A k \in {j} : /\ ~Stamping(k) /\ job[k].kind # "build"
                        /\ job'[k].kind \notin {"stamp", "read",
                                              "build", "call"}
    BY <1>0, <1>3, <2>2
  <2>5. {j} \in SUBSET Job
    OBVIOUS
  <2> QED BY <2>2, <2>3, <2>4, <2>5, EditStep
<1>5. CASE ~(Len(items) < BatchMax)
  <2>1. Start(j, w, {})
    BY <1>3, <1>5 DEF BatchFileRead
  <2>2. Moves({j}, {}) /\ job'[j] = w
    BY <1>0, <2>1, StartMoves
  <2>3. UNCHANGED <<page, crossed, muddled>>
    BY <1>5 DEF BatchFileRead
  <2>4. \A k \in {j} : /\ ~Stamping(k)
                        /\ job'[k].kind \notin {"stamp", "read",
                                              "build", "call"}
    BY <1>0, <1>3, <2>2
  <2>5. {j} \in SUBSET Job
    OBVIOUS
  <2>6. UNCHANGED <<mode, single, batch, busy, shown, checked, status, recheck,
                    crossed, muddled>>
    BY <2>3 DEF page
  <2> QED BY <1>0, <2>2, <2>4, <2>5, <2>6, QuietStep DEF TypeOK
<1> QED BY <1>4, <1>5

\* Items are pasted, removed or cleared.
LEMMA EditSteps ==
    ASSUME PageInv, acts' \in Nat,
           \/ \E hs \in Few : AddPasted(hs)
           \/ \E i \in DOMAIN items : RemoveItem(i)
           \/ ClearItems
    PROVE  PageInv'
<1>0. TypeOK /\ items \in Seq(Hash) /\ {"build"} \in SUBSET Alone
  BY DEF PageInv, TypeOK, Alone
<1>1. job' = Joined({"build"})
  BY DEF AddPasted, RemoveItem, ClearItems
<1>2. Moves({}, {"build"})
  BY <1>0, <1>1, JoinMoves
<1>3. PICK s \in Seq(Hash) : EditItems(s)
  <2>1. ASSUME NEW hs \in Few, AddPasted(hs)
        PROVE  \E s \in Seq(Hash) : EditItems(s)
    <3>1. items \o hs \in Seq(Hash)
      BY <1>0, FewAreSome, ConcatProperties
    <3> QED BY <2>1, <3>1 DEF AddPasted
  <2>2. ASSUME NEW i \in DOMAIN items, RemoveItem(i)
        PROVE  \E s \in Seq(Hash) : EditItems(s)
    <3>1. /\ Len(items) \in Nat /\ i \in 1..Len(items)
          /\ \A k \in 1..Len(items) : items[k] \in Hash
      BY <1>0, <2>2, LenProperties, ElementOfSeq DEF RemoveItem
    <3>2. SubSeq(items, 1, i - 1) \in Seq(Hash)
      BY <3>1, SubSeqProperties
    <3>3. SubSeq(items, i + 1, Len(items)) \in Seq(Hash)
      BY <3>1, SubSeqProperties
    <3>4. SubSeq(items, 1, i - 1) \o SubSeq(items, i + 1, Len(items))
              \in Seq(Hash)
      BY <3>2, <3>3, ConcatProperties
    <3> QED BY <2>2, <3>4 DEF RemoveItem
  <2>3. CASE ClearItems
    <3>1. <<>> \in Seq(Hash)
      OBVIOUS
    <3> QED BY <2>3, <3>1 DEF ClearItems
  <2> QED BY <2>1, <2>2, <2>3
<1> QED BY <1>2, <1>3, EditStep

-----------------------------------------------------------------------------
(***************************************************************************)
(* The specification.                                                      *)
(***************************************************************************)
LEMMA InitIsInv ==
    ASSUME Init
    PROVE  PageInv
<1>1. <<>> \in Seq(Hash) /\ <<>> \in Seq(Binding)
  OBVIOUS
<1>2. job \in [Job -> Wait] /\ \A j \in Job : job[j].kind = "idle"
  BY IdleIsIdle DEF Init
<1>3. TypeOK
  BY <1>1, <1>2, PageAssumption DEF Init, TypeOK
<1>4. \A j \in Job : ~Stamping(j)
  BY <1>2 DEF Stamping
<1>5. ButtonMeansBusy /\ StampsSound /\ CallSound
  BY <1>2, <1>4 DEF Init, ButtonMeansBusy, StampsSound, CallSound
<1>6. SingleSound
  BY <1>2, <1>4 DEF Init, SingleSound, SingleStamp
<1>7. BatchSound
  BY <1>2, <1>4 DEF Init, BatchSound, BatchStamp
<1>8. OneHash(results) /\ OneHash(batchResults)
  BY DEF Init, OneHash
<1> QED BY <1>3, <1>5, <1>6, <1>7, <1>8 DEF PageInv

LEMMA UserActsKeepInv ==
    ASSUME PageInv, UserActs
    PROVE  PageInv'
<1>1. acts' \in Nat
  BY DEF PageInv, TypeOK, UserActs
<1>2. \/ \E h \in Hash : HashInput(h)
      \/ \E j \in Job, h \in Hash : \E json \in BOOLEAN :
             ProcessFile(j, h, json)
      \/ \E j \in Job : RecomputeClick(j)
      \/ \E j \in Job : StampClick(j)
      \/ \E hs \in Few : AddPasted(hs)
      \/ \E j \in Job, hs \in Few : AddFiles(j, hs)
      \/ \E i \in DOMAIN items : RemoveItem(i)
      \/ ClearItems
      \/ \E j \in Job : BatchClick(j)
      \/ \E m \in {"single", "batch"} : setMode(m)
      \/ \E a \in Auth : Toggle(a)
      \/ \E j \in Job, i \in DOMAIN results : CheckInclusion(j, results[i])
      \/ \E j \in Job, h \in Hash, a \in Auth : Call(j, h, a)
  BY DEF UserActs
<1>3. ASSUME NEW h \in Hash, HashInput(h) PROVE PageInv'
  BY <1>1, <1>3, HashInputStep
<1>4. ASSUME NEW j \in Job, NEW h \in Hash, NEW json \in BOOLEAN,
             ProcessFile(j, h, json)
      PROVE  PageInv'
  BY <1>1, <1>4, ProcessFileStep
<1>5. ASSUME NEW j \in Job,
             \/ RecomputeClick(j)
             \/ \E hs \in Few : AddFiles(j, hs)
             \/ \E i \in DOMAIN results : CheckInclusion(j, results[i])
      PROVE  PageInv'
  BY <1>1, <1>5, QuietStarts
<1>6. ASSUME NEW j \in Job, StampClick(j) PROVE PageInv'
  BY <1>1, <1>6, StampClickStep
<1>7. ASSUME \/ \E hs \in Few : AddPasted(hs)
             \/ \E i \in DOMAIN items : RemoveItem(i)
             \/ ClearItems
      PROVE  PageInv'
  BY <1>1, <1>7, EditSteps
<1>8. ASSUME NEW j \in Job, BatchClick(j) PROVE PageInv'
  BY <1>1, <1>8, BatchClickStep
<1>9. ASSUME \/ \E m \in {"single", "batch"} : setMode(m)
             \/ \E a \in Auth : Toggle(a)
      PROVE  PageInv'
  BY <1>1, <1>9, StillSteps
<1>10. ASSUME NEW j \in Job, NEW h \in Hash, NEW a \in Auth, Call(j, h, a)
       PROVE  PageInv'
  BY <1>1, <1>10, CallStep
<1> QED BY <1>2, <1>3, <1>4, <1>5, <1>6, <1>7, <1>8, <1>9, <1>10

LEMMA AnswersKeepInv ==
    ASSUME PageInv, acts' \in Nat, NEW j \in Job, NEW a \in Auth,
           AuthorityStamps(j, a) \/ AuthorityFails(j, a)
    PROVE  PageInv'
<1>1. CASE AuthorityFails(j, a)
  <2>1. <<>> \in Seq(Binding) /\ \A i \in DOMAIN <<>> : FALSE
    OBVIOUS
  <2> QED BY <1>1, <2>1, AnsweredStep DEF AuthorityFails
<1>2. CASE AuthorityStamps(j, a)
  <2>1. PICK pending \in {FALSE, a = Sigsum} :
            Answered(j, a, << [auth |-> a, of |-> job[j].of,
                               pending |-> pending, run |-> job[j].run] >>)
    BY <1>2 DEF AuthorityStamps
  <2>2. job[j].of \in Hash \cup Seq(Hash) /\ job[j].run \in Nat
    <3>1. job[j] \in Wait /\ job[j].kind = "stamp"
      BY <2>1 DEF PageInv, TypeOK, Answered, Stamping
    <3> QED BY <3>1, WaitShapes
  <2>3. pending \in BOOLEAN
    OBVIOUS
  <2>4. PICK b \in Binding :
            /\ b = [auth |-> a, of |-> job[j].of, pending |-> pending,
                    run |-> job[j].run]
            /\ b.of = job[j].of /\ b.run = job[j].run /\ b.auth = a
    <3> DEFINE b == [auth |-> a, of |-> job[j].of, pending |-> pending,
                     run |-> job[j].run]
    <3>1. b \in Binding
      BY <2>2, <2>3 DEF Binding
    <3>2. b.of = job[j].of /\ b.run = job[j].run /\ b.auth = a
      OBVIOUS
    <3> QED BY <3>1, <3>2
  <2>5. <<b>> \in Seq(Binding) /\ \A i \in DOMAIN <<b>> : <<b>>[i] = b
    OBVIOUS
  <2> QED BY <2>1, <2>4, <2>5, AnsweredStep
<1> QED BY <1>1, <1>2

LEMMA ResumesKeepsInv ==
    ASSUME PageInv, NEW j \in Job, Resumes(j)
    PROVE  PageInv'
<1>1. acts' \in Nat
  BY DEF PageInv, TypeOK, Resumes
<1>2. \/ FileRead(j) \/ BatchFileRead(j) \/ VerifierLoaded(j) \/ TreeBuilt(j)
      \/ Included(j)
      \/ FileUnreadable(j) \/ BatchFileUnreadable(j) \/ TreeFails(j)
      \/ NotIncluded(j) \/ CallReturns(j) \/ Recomputed(j)
      \/ \E a \in Auth : AuthorityStamps(j, a) \/ AuthorityFails(j, a)
  BY DEF Resumes
<1>3. CASE FileRead(j)
  BY <1>1, <1>3, FileReadStep
<1>4. CASE BatchFileRead(j)
  BY <1>1, <1>4, BatchFileReadStep
<1>5. CASE VerifierLoaded(j)
  BY <1>1, <1>5, QuietStarts
<1>6. CASE TreeBuilt(j)
  BY <1>1, <1>6, TreeBuiltStep
<1>7. CASE Included(j)
  BY <1>1, <1>7, IncludedStep
<1>8. CASE \/ FileUnreadable(j) \/ BatchFileUnreadable(j) \/ TreeFails(j)
           \/ NotIncluded(j) \/ CallReturns(j) \/ Recomputed(j)
  BY <1>1, <1>8, QuietSteps
<1>9. CASE \E a \in Auth : AuthorityStamps(j, a) \/ AuthorityFails(j, a)
  BY <1>1, <1>9, AnswersKeepInv
<1> QED BY <1>2, <1>3, <1>4, <1>5, <1>6, <1>7, <1>8, <1>9

LEMMA StepKeepsInv ==
    ASSUME PageInv, [Next]_vars
    PROVE  PageInv'
<1>1. CASE UserActs
  BY <1>1, UserActsKeepInv
<1>2. CASE \E j \in Job : Resumes(j)
  BY <1>2, ResumesKeepsInv
<1>3. CASE UNCHANGED vars
  <2>1. acts' \in Nat /\ UNCHANGED <<page, job, crossed, muddled>>
    BY <1>3 DEF PageInv, TypeOK, vars
  <2> QED BY <2>1, StillSteps
<1> QED BY <1>1, <1>2, <1>3 DEF Next

\* The inductive invariant: a wait that is still alone has its side of the page
\* to itself, and as long as nothing came in beside it, what the handler goes on
\* with after its await is what it began with (anchor.js 98-136, 386-441).
THEOREM PageInvariant == Spec => []PageInv
<1>1. Init => PageInv
  BY InitIsInv
<1>2. PageInv /\ [Next]_vars => PageInv'
  BY StepKeepsInv
<1> QED BY <1>1, <1>2, PTL DEF Spec

\* The variables of the page, and its waits, are of their types.
THEOREM PageTypes == Spec => []TypeOK
<1>1. PageInv => TypeOK
  BY DEF PageInv
<1> QED BY <1>1, PageInvariant, PTL

\* The stamps of a receipt are of one hash and one run, whatever overlaps
\* (anchor.js 380-430, 499-503).
THEOREM OneHashAlways == Spec => []OneHashPerReceipt
<1>1. PageInv => OneHashPerReceipt
  BY DEF PageInv, OneHashPerReceipt, OneHash, StampsSound, anchorsJsonPayload
<1> QED BY <1>1, PageInvariant, PTL

\* What is on show for a single hash is about the hash and the artifact of the
\* page, unless inputs have overlapped (anchor.js 386-409, 549-553, 633-683).
THEOREM SingleReceiptSafety == Spec => []SingleReceiptMatchesPage
<1>1. PageInv => SingleReceiptMatchesPage
  BY DEF PageInv, SingleSound, SingleReceiptMatchesPage, ReemittedArtifact,
         PrintedReceipt
<1> QED BY <1>1, PageInvariant, PTL

\* A batch receipt on show proves each item under the root it stamps, unless
\* the items changed under the stamp (anchor.js 411-441, 561-583, 717-722).
THEOREM BatchReceiptSafety == Spec => []BatchReceiptMatchesItems
<1>1. PageInv => BatchReceiptMatchesItems
  <2> SUFFICES ASSUME PageInv, ~muddled, shown = "batch"
               PROVE  BatchReceiptMatchesItems
    BY DEF BatchReceiptMatchesItems
  <2>1. /\ root # None /\ root = items /\ entries = root
        /\ \A i \in DOMAIN batchResults : batchResults[i].of = root
    BY DEF PageInv, BatchSound
  <2> QED BY <2>1 DEF BatchReceiptMatchesItems, batchAnchorsPayload, Proves
<1> QED BY <1>1, PageInvariant, PTL

\* Both at once: the receipts are about what the page shows.
THEOREM ReceiptSafety == Spec => []ReceiptsMatchThePage
<1>1. SingleReceiptMatchesPage /\ BatchReceiptMatchesItems => ReceiptsMatchThePage
  BY DEF ReceiptsMatchThePage
<1> QED BY <1>1, SingleReceiptSafety, BatchReceiptSafety, PTL

\* An agent alone on the page is told "stamped" only with its binding there
\* (anchor-webmcp.js 72-84).
THEOREM StampedSafety == Spec => []StampedIsOnThePage
<1>1. PageInv => StampedIsOnThePage
  <2> SUFFICES ASSUME PageInv, NEW j \in Job, job[j].kind = "call",
                      job[j].alone, Outcome(job[j].auth) = "stamped"
               PROVE  \E i \in DOMAIN results :
                          /\ results[i].of = job[j].hash
                          /\ results[i].auth = job[j].auth
    BY DEF StampedIsOnThePage
  <2>1. status[job[j].auth] = "ok"
    BY DEF Outcome
  <2> QED BY <2>1 DEF PageInv, CallSound, CallKnows
<1> QED BY <1>1, PageInvariant, PTL
=============================================================================
