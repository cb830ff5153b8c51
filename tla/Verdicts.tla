------------------------------ MODULE Verdicts ------------------------------
(***************************************************************************)
(* What the three surfaces that verify a binding say of it: the tool       *)
(* verify_anchor_binding of the Worker, the cards of the verify page, and  *)
(* the badges of the artifact library; and the verifiers they share.       *)
(*                                                                         *)
(* A binding is abstracted to its type and to what is wrong with it: the   *)
(* checks that will fail (flaws), what becomes of its inclusion proof, the *)
(* cosignature lines of its tree head, and, for an OpenTimestamps proof,   *)
(* whether Bitcoin has it. Parsing, hashing and signatures decide which of *)
(* these hold and are left out.                                            *)
(***************************************************************************)
EXTENDS Naturals, Sequences, FiniteSets, SequencesExt

CONSTANTS
    Witness,        \* who may have cosigned a tree head, pinned or not
    Quorum,         \* those the quorum policy counts
    Hash            \* hashes a binding may be for

ASSUME WitnessAssumption == Quorum \subseteq Witness

WITNESS_QUORUM_THRESHOLD == 2

TstFlaw == {"hash", "base64", "der", "refused", "imprint", "root",
            "genTime", "cms", "signature", "eku"}
OtsFlaw == {"parse", "imprint", "base64"}
SigsumFlaw == {"checksum", "leafSig", "inclusion", "logSig"}
SolanaFlaw == {"slot", "memo", "signer", "allowlist", "cluster"}

\* The types of bindings, each with the checks its verifier makes.
Checked ==
    [type \in {"rfc3161-tst", "opentimestamps", "c2sp-tlog-proof-v1",
               "c2sp-tlog-pending-v1", "solana-memo", "unknown"} |->
        CASE type = "rfc3161-tst"        -> TstFlaw
          [] type = "opentimestamps"     -> OtsFlaw
          [] type = "c2sp-tlog-proof-v1" -> SigsumFlaw \cup {"malformed"}
          [] type = "solana-memo"        -> SolanaFlaw \cup {"shape"}
          [] OTHER                       -> {}]

Line == [witness : Witness, valid : BOOLEAN]

IsBinding(b) ==
    /\ b.type \in DOMAIN Checked /\ b.flaws \subseteq Checked[b.type]
    /\ b.hash \in Hash
    /\ b.inclusion \in {"none", "holds", "fails"}
    /\ b.bitcoin \in BOOLEAN
    /\ b.lines \in Seq(Line)

-----------------------------------------------------------------------------
(***************************************************************************)
(* The verifiers.                                                          *)
(***************************************************************************)

\* The checks are made in turn and the first that fails is the answer.
verifyTstBinding(b) == b.flaws \cap TstFlaw = {}

verifyMerkleInclusion(b) == b.inclusion # "fails"

\* OT.verify, which refuses a proof of another hash than the one it is given.
verifyOts(b, hash) ==
    IF "parse" \in b.flaws \/ "imprint" \in b.flaws \/ hash # b.hash
    THEN "error"
    ELSE IF b.bitcoin THEN "complete" ELSE "pending"

\* One cosignature line: an unknown witness and an invalid signature count
\* for nothing, and a witness of the policy counts once.
\* Slip: every valid line of a policy witness counts.
CountEveryLine(count, line) ==
    IF line.valid /\ line.witness \in Quorum
    THEN [count EXCEPT !.ok = @ + 1]
    ELSE count

CountLine(count, line) ==
    IF /\ line.valid /\ line.witness \in Quorum
       /\ line.witness \notin count.counted
    THEN [ok |-> count.ok + 1, counted |-> count.counted \cup {line.witness}]
    ELSE count

Count(lines) ==
    LET count[i \in 0..Len(lines)] ==
            IF i = 0 THEN [ok |-> 0, counted |-> {}]
            ELSE CountLine(count[i - 1], lines[i])
    IN  count

quorumWitnessesOk(b) == Count(b.lines)[Len(b.lines)].ok

\* A malformed record makes it throw, which every caller catches.
verifySigsumBinding(b) ==
    CASE b.type = "c2sp-tlog-pending-v1"  -> "pending"
      [] b.type # "c2sp-tlog-pending-v1" /\ "malformed" \in b.flaws
                                          -> "throws"
      [] OTHER ->
            IF b.flaws \cap SigsumFlaw # {} THEN "invalid"
            ELSE IF quorumWitnessesOk(b) >= WITNESS_QUORUM_THRESHOLD
                 THEN "ok"
            ELSE IF quorumWitnessesOk(b) = 0 THEN "log-only"
            ELSE "below-quorum"

\* The endpoint is asked only about a binding of the right shape, and only
\* when the verifier has named one.
AsksRpc(b, rpc) == b.type = "solana-memo" /\ rpc /\ "shape" \notin b.flaws

verifySolanaMemoBinding(b, rpc, got) ==
    CASE ~AsksRpc(b, rpc)                          -> "invalid"
      [] AsksRpc(b, rpc) /\ got # "ok"             -> "error"
      [] OTHER -> IF /\ b.flaws \cap SolanaFlaw = {}
                     /\ verifyMerkleInclusion(b)
                  THEN "ok" ELSE "invalid"

-----------------------------------------------------------------------------
(***************************************************************************)
(* The Worker: one entry per binding. An OpenTimestamps proof is pending   *)
(* here whatever is in it.                                                 *)
(***************************************************************************)
\* Slip: an entry is valid when the record is sound, witnessed or not.
EntryOfSound(b, rpc, got) ==
    LET v == verifySigsumBinding(b)
    IN  [binding |-> b, verdict |-> v,
         valid |-> v \in {"ok", "log-only", "below-quorum"}]

Entry(b, rpc, got) ==
    LET verdict ==
            CASE b.type = "rfc3161-tst" ->
                    IF verifyTstBinding(b) /\ verifyMerkleInclusion(b)
                    THEN "ok" ELSE "invalid"
              [] b.type = "opentimestamps" -> "pending"
              [] b.type \in {"c2sp-tlog-proof-v1", "c2sp-tlog-pending-v1"} ->
                    IF verifySigsumBinding(b) = "throws" THEN "invalid"
                    ELSE verifySigsumBinding(b)
              [] b.type = "solana-memo" ->
                    verifySolanaMemoBinding(b, rpc, got)
              [] OTHER -> "unsupported"
    IN  [binding |-> b, verdict |-> verdict, valid |-> verdict = "ok"]

(***************************************************************************)
(* The verify page: the badge of a card. A proof that is not base64 throws *)
(* out of the loop over the bindings.                                      *)
(***************************************************************************)
Throws(b) == b.type = "opentimestamps" /\ "base64" \in b.flaws

\* Slip: the verdict is passed on for a badge.
SigsumStatusAsIs(b) == verifySigsumBinding(b)

SigsumStatus(b) ==
    CASE verifySigsumBinding(b) = "ok" -> "ok"
      [] verifySigsumBinding(b) \in {"pending", "log-only", "below-quorum"}
                                       -> "pending"
      [] OTHER                         -> "fail"

CardStatus(b, rpc, got) ==
    CASE b.type = "rfc3161-tst" ->
            IF verifyTstBinding(b) /\ verifyMerkleInclusion(b)
            THEN "ok" ELSE "fail"
      [] b.type = "opentimestamps" ->
            CASE verifyOts(b, b.hash) = "complete" -> "ok"
              [] verifyOts(b, b.hash) = "pending"  -> "pending"
              [] OTHER                             -> "fail"
      [] b.type \in {"c2sp-tlog-proof-v1", "c2sp-tlog-pending-v1"} ->
            SigsumStatus(b)
      [] b.type = "solana-memo" ->
            IF verifySolanaMemoBinding(b, rpc, got) = "ok"
            THEN "ok" ELSE "fail"
      [] OTHER -> "fail"

(***************************************************************************)
(* The library: verify-runner.mjs looks at the token of a timestamp and    *)
(* not at the inclusion proof beside it, and knows no Solana memo.         *)
(***************************************************************************)
verifySigsumAnchor(b) ==
    IF verifySigsumBinding(b) \in {"invalid", "throws"} THEN "error"
    ELSE verifySigsumBinding(b)

RunnerStatus(b) ==
    CASE b.type = "rfc3161-tst" ->
            IF verifyTstBinding(b) THEN "ok" ELSE "error"
      [] b.type = "opentimestamps" ->
            IF Throws(b) THEN "error"
            ELSE IF verifyOts(b, b.hash) = "complete" THEN "ok"
            ELSE verifyOts(b, b.hash)
      [] b.type \in {"c2sp-tlog-proof-v1", "c2sp-tlog-pending-v1"} ->
            verifySigsumAnchor(b)
      [] OTHER -> "error"

BadgeStatus(b) ==
    IF RunnerStatus(b) \in {"ok", "pending", "log-only", "below-quorum"}
    THEN RunnerStatus(b) ELSE "fail"

-----------------------------------------------------------------------------
(***************************************************************************)
(* What a verdict should be, said without the code: the policy's rule on   *)
(* the set of witnesses that have signed.                                  *)
(***************************************************************************)
Cosigners(b) ==
    {w \in Quorum : \E i \in DOMAIN b.lines :
                        b.lines[i].witness = w /\ b.lines[i].valid}

SigsumTruth(b) ==
    CASE b.type = "c2sp-tlog-pending-v1" -> "pending"
      [] b.type # "c2sp-tlog-pending-v1" /\ b.flaws # {} -> "invalid"
      [] OTHER -> CASE Cardinality(Cosigners(b)) = 0 -> "log-only"
                    [] Cardinality(Cosigners(b)) = 1 -> "below-quorum"
                    [] OTHER -> "ok"

\* Only a binding without a flaw can pass, and a pending one never does.
MayPass(b) ==
    /\ b.flaws = {}
    /\ b.type \notin {"c2sp-tlog-pending-v1", "unknown"}
    /\ b.type = "opentimestamps" => b.bitcoin
    /\ b.type = "c2sp-tlog-proof-v1" => SigsumTruth(b) = "ok"
=============================================================================
