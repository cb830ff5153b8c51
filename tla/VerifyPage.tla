----------------------------- MODULE VerifyPage -----------------------------
(***************************************************************************)
(* The verify page (public/js/verify.js): a file is dropped, read, told    *)
(* apart, and verified one piece after another, each piece adding a card   *)
(* to the results; and the badge row a library page draws for the same     *)
(* record (artifacts.js, verify-runner.mjs).                               *)
(*                                                                         *)
(* Nothing stops a second file from being dropped while the first is being *)
(* verified, and the results are one list both write to: a run clears it   *)
(* when it begins and again when it knows what it has.                     *)
(*                                                                         *)
(* A step takes a run over one await. Steps that have none between two     *)
(* bindings are told apart too, which only adds interleavings.             *)
(***************************************************************************)
EXTENDS Verdicts

CONSTANTS
    File,           \* the files a user has
    Upgrade         \* what a pending binding becomes once it is in the log

Zero == "0" \* the hash of 64 zeros, which no file has

IsFile(f) ==
    /\ f.kind \in {"artifact", "anchors", "otherJson", "ots", "der"}
    /\ f.bindings \in Seq(Range(f.bindings))
    /\ \A n \in DOMAIN f.bindings : IsBinding(f.bindings[n])
    /\ f.kind = "ots" => f.bindings # <<>>
    /\ {f.hash, f.sig, f.seal} \subseteq {"ok", "fail", "none"}
    /\ f.kind = "artifact" => f.hash # "none"
    /\ f.der \in BOOLEAN

ASSUME PageAssumption ==
    /\ \A f \in File : IsFile(f)
    /\ Zero \notin Hash
    /\ \A b \in DOMAIN Upgrade : /\ IsBinding(Upgrade[b])
                                 /\ b.type = "c2sp-tlog-pending-v1"
                                 /\ Upgrade[b].type = "c2sp-tlog-proof-v1"

VARIABLES
    drops,          \* the files dropped, and how far each run is
    cards,          \* the results: of which run, which piece, what badge
    checks,         \* the "Check inclusion" clicks under way
    saved,          \* runs that have saved their file to the library
    badges,         \* the badge row of a library page
    overlapped      \* history: a run began while something was under way

pageVars == <<drops, cards, checks, saved, badges, overlapped>>

-----------------------------------------------------------------------------
Card(d, part, n, status) ==
    [of |-> d, part |-> part, n |-> n, status |-> status]
Drop == DOMAIN drops
Bindings(d) == drops[d].file.bindings

PageInit ==
    /\ drops = <<>> /\ cards = <<>> /\ checks = {} /\ saved = {}
    /\ badges = <<>> /\ overlapped = FALSE

\* processFile up to the read.
Choose(f) ==
    /\ drops' = Append(drops, [file |-> f, at |-> "read", n |-> 0])
    /\ cards' = <<>>
    /\ overlapped' = (overlapped \/ checks # {}
                      \/ \E d \in Drop : drops[d].at # "done")
    /\ UNCHANGED <<checks, saved, badges>>

At(d, at, n) == drops' = [drops EXCEPT ![d].at = at, ![d].n = n]
Finish(d) == At(d, "done", 0) /\ saved' = saved \cup {d}

\* verifyBindings up to its first await: it begins by clearing the results.
BeginBindings(d) ==
    /\ cards' = <<>>
    /\ IF Bindings(d) = <<>> THEN Finish(d)
       ELSE At(d, "binding", 1) /\ UNCHANGED saved

Read(d) ==
    /\ drops[d].at = "read"
    /\ \/ drops[d].file.kind = "otherJson"
          /\ cards' = Append(cards, Card(d, "json", 0, "fail"))
          /\ At(d, "done", 0) /\ UNCHANGED saved
       \/ drops[d].file.kind = "anchors" /\ BeginBindings(d)
       \/ drops[d].file.kind = "artifact" /\ cards' = <<>>
          /\ At(d, "hash", 0) /\ UNCHANGED saved
       \/ drops[d].file.kind = "ots" /\ At(d, "ots", 0)
          /\ UNCHANGED <<cards, saved>>
       \/ drops[d].file.kind = "der" /\ cards' = <<>>
          /\ At(d, "der", 0) /\ UNCHANGED saved
    /\ UNCHANGED <<checks, badges, overlapped>>

\* file.arrayBuffer() rejects: nothing is said.
Unreadable(d) ==
    /\ drops[d].at = "read" /\ At(d, "done", 0)
    /\ UNCHANGED <<cards, checks, saved, badges, overlapped>>

\* The rest of verifyOcgArtifact: the seal, and then the bindings, whose
\* verification clears what has been said of the artifact itself.
Rest(d, sofar) ==
    IF Bindings(d) # <<>> THEN BeginBindings(d)
    ELSE /\ cards' = IF drops[d].file.seal = "none" THEN sofar
                     ELSE Append(sofar, Card(d, "seal", 0, drops[d].file.seal))
         /\ Finish(d)

Hashed(d) ==
    LET sofar == Append(cards, Card(d, "hash", 0, drops[d].file.hash))
    IN  /\ drops[d].at = "hash"
        /\ IF drops[d].file.sig = "none" THEN Rest(d, sofar)
           ELSE cards' = sofar /\ At(d, "sig", 0) /\ UNCHANGED saved
        /\ UNCHANGED <<checks, badges, overlapped>>

Signed(d) ==
    /\ drops[d].at = "sig"
    /\ Rest(d, Append(cards, Card(d, "sig", 0, drops[d].file.sig)))
    /\ UNCHANGED <<checks, badges, overlapped>>

\* One binding: its card, and on to the next. An exception leaves the JSON
\* for what it may be otherwise: a token in DER.
Verified(d, rpc, got) ==
    LET n == drops[d].n
        b == Bindings(d)[n]
        part == IF b.type = "c2sp-tlog-pending-v1" THEN "pending"
                ELSE "binding"
    IN  /\ drops[d].at = "binding"
        /\ IF Throws(b)
           THEN cards' = <<>> /\ At(d, "der", 0) /\ UNCHANGED saved
           ELSE /\ cards' = Append(cards, Card(d, part, n,
                                               CardStatus(b, rpc, got)))
                /\ IF n = Len(Bindings(d)) THEN Finish(d)
                   ELSE At(d, "binding", n + 1) /\ UNCHANGED saved
        /\ UNCHANGED <<checks, badges, overlapped>>

\* verifyRawDer, after its import.
DerParsed(d) ==
    /\ drops[d].at = "der" /\ At(d, "done", 0)
    /\ cards' = Append(cards, Card(d, "der", 0,
                           IF drops[d].file.der THEN "ok" ELSE "fail"))
    /\ UNCHANGED <<checks, saved, badges, overlapped>>

\* An .ots file names no hash, and is verified against the hash of zeros.
OtsVerified(d) ==
    LET status == verifyOts(Bindings(d)[1], Zero)
    IN  /\ drops[d].at = "ots" /\ At(d, "done", 0)
        /\ cards' = Append(cards, Card(d, "ots", 0,
                               CASE status = "complete" -> "ok"
                                 [] status = "pending"  -> "pending"
                                 [] OTHER               -> "fail"))
        /\ UNCHANGED <<checks, saved, badges, overlapped>>

(***************************************************************************)
(* The button of a pending card asks the log. If the leaf is in, the card  *)
(* goes and one of the proof is added, wherever the results are by then.   *)
(***************************************************************************)
Check(d, n) ==
    /\ \E i \in DOMAIN cards :
          cards[i].of = d /\ cards[i].n = n /\ cards[i].part = "pending"
    /\ \A k \in checks : k.of # d \/ k.n # n
    /\ checks' = checks \cup {[of |-> d, n |-> n, at |-> "asked"]}
    /\ overlapped' = (overlapped \/ \E e \in Drop : drops[e].at # "done")
    /\ UNCHANGED <<drops, cards, saved, badges>>

NotSequenced(k) ==
    /\ k.at = "asked"
    /\ checks' = checks \ {k}
    /\ UNCHANGED <<drops, cards, saved, badges, overlapped>>

\* Slip: the pending card stays beside the proof's.
SequencedBeside(k) ==
    /\ k.at = "asked" /\ Bindings(k.of)[k.n] \in DOMAIN Upgrade
    /\ checks' = (checks \ {k}) \cup {[k EXCEPT !.at = "proved"]}
    /\ UNCHANGED <<drops, cards, saved, badges, overlapped>>

Sequenced(k) ==
    LET shown == {i \in DOMAIN cards : cards[i].of = k.of /\ cards[i].n = k.n
                                       /\ cards[i].part = "pending"}
    IN  /\ k.at = "asked" /\ Bindings(k.of)[k.n] \in DOMAIN Upgrade
        /\ checks' = (checks \ {k}) \cup {[k EXCEPT !.at = "proved"]}
        /\ cards' = IF shown = {} THEN cards ELSE RemoveAt(cards, Min(shown))
        /\ UNCHANGED <<drops, saved, badges, overlapped>>

Proved(k) ==
    /\ k.at = "proved"
    /\ checks' = checks \ {k}
    /\ cards' = Append(cards, Card(k.of, "proof", k.n,
                           SigsumStatus(Upgrade[Bindings(k.of)[k.n]])))
    /\ UNCHANGED <<drops, saved, badges, overlapped>>

(***************************************************************************)
(* Re-verify on a library page: the proofs of pending bindings that the    *)
(* log has by now are collected, and then all is verified: an artifact by  *)
(* verifyOcgArtifact of verify-runner.mjs; another record by a loop of the *)
(* page's own, which passes over types it does not know and gives up on a  *)
(* proof that is not base64.                                               *)
(***************************************************************************)
Collected(bs, late) ==
    [n \in DOMAIN bs |-> IF n \in late THEN Upgrade[bs[n]] ELSE bs[n]]

Graded(bs, types) ==
    LET known == {n \in DOMAIN bs : bs[n].type \in types}
    IN  [n \in known |-> [binding |-> bs[n], status |-> BadgeStatus(bs[n])]]

ReVerify(f, late) ==
    LET bs == Collected(f.bindings, late)
    IN  /\ f.kind \in {"artifact", "anchors"}
        /\ \A n \in late : f.bindings[n] \in DOMAIN Upgrade
        /\ badges' =
              IF f.kind = "artifact" THEN Graded(bs, DOMAIN Checked)
              ELSE IF \E n \in DOMAIN bs : "base64" \in bs[n].flaws
                   THEN badges
              ELSE Graded(bs, DOMAIN Checked \ {"solana-memo", "unknown"})
        /\ UNCHANGED <<drops, cards, checks, saved, overlapped>>

PageAct ==
    \/ \E f \in File : Choose(f)
    \/ \E f \in File : \E late \in SUBSET DOMAIN f.bindings : ReVerify(f, late)
    \/ \E d \in Drop : \E n \in DOMAIN Bindings(d) : Check(d, n)

PageStep ==
    \/ \E d \in Drop : \/ Read(d) \/ Unreadable(d)
                       \/ Hashed(d) \/ Signed(d)
                       \/ DerParsed(d) \/ OtsVerified(d)
    \/ \E d \in Drop, rpc \in BOOLEAN, got \in {"ok", "refused", "none"} :
           Verified(d, rpc, got)
    \/ \E k \in checks : NotSequenced(k) \/ Sequenced(k) \/ Proved(k)

-----------------------------------------------------------------------------
(***************************************************************************)
(* Properties.                                                             *)
(***************************************************************************)
Here == Len(drops)
CardsOf(n) == {i \in DOMAIN cards :
                   cards[i].n = n
                   /\ cards[i].part \in {"pending", "binding", "proof"}}

\* The results are of the file dropped last, unless one was dropped while
\* something was under way. When all is quiet a file that was verified to its
\* end has one card for each binding, also after any number of inclusion
\* checks, and only such a file is saved; one that was not has no card but
\* what it was taken for (processFile, verifyBindings, addSigsumPendingCard).
CardsTellOneFile ==
    ~overlapped /\ drops # <<>> =>
        /\ \A i \in DOMAIN cards : cards[i].of = Here
        /\ drops[Here].at = "done" /\ checks = {} =>
               IF Here \in saved
               THEN \A n \in DOMAIN Bindings(Here) :
                        Cardinality(CardsOf(n)) = 1
               ELSE Len(cards) <= 1
                    /\ \A n \in DOMAIN Bindings(Here) : CardsOf(n) = {}

\* The documentation says that the page "runs all three OCG verification
\* paths on dropped artifacts" (public/docs/index.html:179): a verified
\* artifact's execution hash should have its card, for a user to see whether
\* it matches.
ExecutionHashIsShown ==
    \A d \in Drop :
        ~overlapped /\ d = Here /\ d \in saved
        /\ drops[d].file.kind = "artifact" =>
            \E i \in DOMAIN cards : cards[i].part = "hash"
=============================================================================
