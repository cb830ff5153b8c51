------------------------------ MODULE Surfaces ------------------------------
(***************************************************************************)
(* The Worker and the pages together: the places where one binding may be  *)
(* looked at. They share no state, only bindings; the composition is there *)
(* to compare what they say.                                               *)
(*                                                                         *)
(* Clients and users act Acts times in a trace, each while what earlier    *)
(* acts have started is still under way. A probe, a request that differs   *)
(* from an ordinary one in form only, comes alone: serving it involves     *)
(* nothing it could share with another.                                    *)
(***************************************************************************)
EXTENDS McpServer, VerifyPage

CONSTANTS
    Probe,          \* requests served alone
    Acts            \* bound on what clients and users do in a trace

ASSUME SurfacesAssumption == Acts \in Nat /\ \A r \in Probe : IsRequest(r)

VARIABLE acts

vars == <<serverVars, pageVars, acts>>

Init == ServerInit /\ PageInit /\ acts = 0

Next ==
    \/ /\ acts < Acts /\ acts' = acts + 1
       /\ \/ (\E c \in Call, r \in Request : Receive(c, r))
             /\ UNCHANGED pageVars
          \/ PageAct /\ UNCHANGED serverVars
    \/ /\ acts = 0 /\ acts' = Acts
       /\ \E c \in Call, r \in Probe : Receive(c, r)
       /\ UNCHANGED pageVars
    \/ ServerStep /\ UNCHANGED <<pageVars, acts>>
    \/ PageStep /\ UNCHANGED <<serverVars, acts>>

Spec == Init /\ [][Next]_vars

-----------------------------------------------------------------------------
\* What a call, a card and a badge say of bindings.
Entries(c) ==
    IF /\ calls[c].at = "done" /\ calls[c].req.route = "mcp"
       /\ calls[c].req.tool = "verify_anchor_binding"
       /\ calls[c].answer.code = 0 /\ calls[c].answer.body # None
    THEN IF calls[c].answer.body.outcome = "verified"
         THEN Range(calls[c].answer.body.results) ELSE {}
    ELSE {}

Subject(card) ==
    IF card.part = "proof" THEN Upgrade[Bindings(card.of)[card.n]]
    ELSE Bindings(card.of)[card.n]

TypeOK ==
    /\ tokens \in 0..Limit
    /\ \A c \in Call : calls[c].at \in {"free", "limiter", "out", "done"}
    /\ \A i \in DOMAIN cards : cards[i].of \in Drop
                               /\ cards[i].status \in {"ok", "pending", "fail"}
    /\ saved \subseteq Drop
    /\ \A k \in checks : k.of \in Drop /\ k.n \in DOMAIN Bindings(k.of)
    /\ acts \in 0..Acts

\* "A binding cannot be a pass on one surface and 'unsupported' on another"
\* (verify-runner.mjs:56, of Sigsum): the Worker, the page, before and after
\* an inclusion check, and the library give a Sigsum binding the verdict the
\* quorum policy defines on the set of its witnesses, however often and in
\* whatever order they signed; one whose batch does not hold it may be refused
\* instead. No surface passes a binding with a flaw its verifier looks for; the
\* inclusion proof of a batch entry is looked for in timestamps and memos, by
\* the Worker and the page.
Sigsum == {"c2sp-tlog-proof-v1", "c2sp-tlog-pending-v1"}
EntryIsTrue(e) ==
    /\ e.binding.type \in Sigsum =>
           \/ e.verdict = SigsumTruth(e.binding)
           \/ e.binding.inclusion = "fails" /\ e.verdict = "invalid"
    /\ e.valid => /\ e.verdict = "ok" /\ MayPass(e.binding)
                  /\ e.binding.type \in {"rfc3161-tst", "solana-memo"} =>
                         e.binding.inclusion # "fails"
CardOfTruth(b) ==
    CASE SigsumTruth(b) = "ok"      -> "ok"
      [] SigsumTruth(b) = "invalid" -> "fail"
      [] OTHER                      -> "pending"
CardIsTrue(b, status) ==
    /\ b.type \in Sigsum =>
           \/ status = CardOfTruth(b)
           \/ b.inclusion = "fails" /\ status = "fail"
    /\ status = "ok" => /\ MayPass(b)
                        /\ b.type \in {"rfc3161-tst", "solana-memo"} =>
                               b.inclusion # "fails"
BadgeOfTruth(b) ==
    IF SigsumTruth(b) = "invalid" THEN "fail" ELSE SigsumTruth(b)
BadgeIsTrue(b, status) ==
    /\ b.type \in Sigsum =>
           \/ status = BadgeOfTruth(b)
           \/ b.inclusion = "fails" /\ status = "fail"
    /\ status = "ok" => MayPass(b)
SurfacesAgree ==
    /\ \A c \in Call : \A e \in Entries(c) : EntryIsTrue(e)
    /\ \A i \in DOMAIN cards : cards[i].n > 0 =>
           CardIsTrue(Subject(cards[i]), cards[i].status)
    /\ \A n \in DOMAIN badges :
           BadgeIsTrue(badges[n].binding, badges[n].status)

\* What the surfaces do not look at. The tool says of itself that it
\* reconstructs the root "when a binding carries a merkle_inclusion object" and
\* that OpenTimestamps bindings "return pending status until Bitcoin confirms"
\* (worker.mjs 1674). But a Sigsum binding is graded by its tree head alone, by
\* the Worker, the page and the library, and a timestamp by its token alone in
\* the library, whatever becomes of their inclusion proofs; and an
\* OpenTimestamps binding stays pending in the Worker whatever Bitcoin has,
\* when a card of the page for the same binding passes it.
EntryTellsLess(e) ==
    /\ e.binding.type \in Sigsum =>
           /\ e.verdict = SigsumTruth(e.binding)
           /\ e.valid = (SigsumTruth(e.binding) = "ok")
    /\ e.binding.type = "opentimestamps" => e.verdict = "pending" /\ ~e.valid
CardTellsLess(b, status) ==
    /\ b.type \in Sigsum => status = CardOfTruth(b)
    /\ b.type = "opentimestamps" => (status = "ok" <=> MayPass(b))
BadgeTellsLess(b, status) ==
    /\ b.type \in Sigsum => status = BadgeOfTruth(b)
    /\ b.type = "rfc3161-tst" => (status = "ok" <=> MayPass(b))
SurfacesTellLess ==
    /\ \A c \in Call : \A e \in Entries(c) : EntryTellsLess(e)
    /\ \A i \in DOMAIN cards : cards[i].n > 0 =>
           CardTellsLess(Subject(cards[i]), cards[i].status)
    /\ \A n \in DOMAIN badges :
           BadgeTellsLess(badges[n].binding, badges[n].status)
=============================================================================
