-------------------------- MODULE Surfaces_proofs ---------------------------
(***************************************************************************)
(* Safety of the Worker's tools and of the pages that verify, for any      *)
(* requests, files, bindings and witnesses, and any number of requests     *)
(* served and files dropped at once.                                       *)
(*                                                                         *)
(* First the verdicts, which are of one binding and involve no state; then *)
(* the gate of the endpoint and a call on its way through a tool; then the *)
(* cards of the page; and last the specification.                          *)
(***************************************************************************)
EXTENDS Surfaces, SequenceTheorems, FiniteSetTheorems, Induction, TLAPS

-----------------------------------------------------------------------------
(***************************************************************************)
(* The quorum: counting lines one by one counts the members of a set.      *)
(***************************************************************************)

\* The recursion defines what it says: an attempt on the first m lines can be
\* extended by one line.
LEMMA CountUnfolds ==
    ASSUME NEW lines, Len(lines) \in Nat
    PROVE  Count(lines) =
               [i \in 0..Len(lines) |->
                   IF i = 0 THEN [ok |-> 0, counted |-> {}]
                   ELSE CountLine(Count(lines)[i - 1], lines[i])]
<1> DEFINE None0 == [ok |-> 0, counted |-> {}]
           Next0(g, i) == IF i = 0 THEN None0 ELSE CountLine(g[i - 1], lines[i])
           Attempt(m) == \E g : g = [i \in 0..m |-> Next0(g, i)]
           S == {m \in Nat : Attempt(m)}
<1>1. 0 \in S
  <2> DEFINE g == [i \in 0..0 |-> None0]
  <2>1. g = [i \in 0..0 |-> Next0(g, i)]
    OBVIOUS
  <2> QED BY <2>1
<1>2. ASSUME NEW m \in Nat, m \in S
      PROVE  m + 1 \in S
  <2>1. PICK g : g = [i \in 0..m |-> Next0(g, i)]
    BY <1>2
  <2> DEFINE h == [i \in 0..m + 1 |-> IF i = m + 1
                                      THEN CountLine(g[m], lines[m + 1])
                                      ELSE g[i]]
  <2>2. ASSUME NEW i \in 0..m + 1
        PROVE  h[i] = Next0(h, i)
    <3>1. CASE i = m + 1
      <4>1. h[m] = g[m] /\ i # 0 /\ i - 1 = m
        BY <3>1
      <4> QED BY <4>1, <3>1
    <3>2. CASE i = 0
      <4>1. h[i] = g[i] /\ 0 \in 0..m
        BY <3>2
      <4> QED BY <2>1, <4>1, <3>2
    <3>3. CASE i \in 1..m
      <4>1. h[i] = g[i] /\ h[i - 1] = g[i - 1] /\ i # 0 /\ i \in 0..m
        BY <3>3
      <4> QED BY <2>1, <4>1
    <3> QED BY <3>1, <3>2, <3>3
  <2>3. h = [i \in 0..m + 1 |-> h[i]]
    OBVIOUS
  <2>4. h = [i \in 0..m + 1 |-> Next0(h, i)]
    <3> HIDE DEF h
    <3> QED BY <2>2, <2>3
  <2>5. Attempt(m + 1)
    <3> HIDE DEF h, Next0
    <3> QED BY <2>4
  <2> QED BY <2>5
<1>3. Nat \subseteq S
  <2> HIDE DEF S
  <2> QED BY <1>1, <1>2, NatInductionSet
<1>4. Attempt(Len(lines))
  BY <1>3
<1> QED BY <1>4 DEF Count

\* Those of the policy that have signed in one of the first i lines.
SignedUpTo(lines, i) ==
    {w \in Quorum : \E j \in 1..i : lines[j].witness = w /\ lines[j].valid}

\* One more line adds its witness, or nobody.
LEMMA CountIsOfTheSet ==
    ASSUME NEW lines \in Seq(Line)
    PROVE  \A i \in 0..Len(lines) :
               /\ Count(lines)[i].counted = SignedUpTo(lines, i)
               /\ IsFiniteSet(SignedUpTo(lines, i))
               /\ Count(lines)[i].ok = Cardinality(SignedUpTo(lines, i))
<1> DEFINE Sound(i) ==
               /\ Count(lines)[i].counted = SignedUpTo(lines, i)
               /\ IsFiniteSet(SignedUpTo(lines, i))
               /\ Count(lines)[i].ok = Cardinality(SignedUpTo(lines, i))
           S == {i \in Nat : i \in 0..Len(lines) => Sound(i)}
<1>1. Len(lines) \in Nat
  OBVIOUS
<1>2. ASSUME NEW i \in 0..Len(lines)
      PROVE  Count(lines)[i] =
                 IF i = 0 THEN [ok |-> 0, counted |-> {}]
                 ELSE CountLine(Count(lines)[i - 1], lines[i])
  BY <1>1, CountUnfolds, Zenon
<1>3. Sound(0)
  <2>1. Count(lines)[0] = [ok |-> 0, counted |-> {}]
    BY <1>1, <1>2
  <2>2. SignedUpTo(lines, 0) = {}
    BY DEF SignedUpTo
  <2>3. IsFiniteSet({}) /\ Cardinality({}) = 0
    BY FS_EmptySet
  <2>4. Count(lines)[0].ok = 0 /\ Count(lines)[0].counted = {}
    BY <2>1
  <2> QED BY <2>2, <2>3, <2>4
<1>4. ASSUME NEW i \in Nat, i + 1 \in 0..Len(lines), Sound(i)
      PROVE  Sound(i + 1)
  <2> DEFINE old == Count(lines)[i]
             line == lines[i + 1]
             before == SignedUpTo(lines, i)
             after == SignedUpTo(lines, i + 1)
  <2>1. i + 1 - 1 = i /\ i + 1 # 0 /\ i + 1 \in 1..Len(lines)
    BY <1>1, <1>4
  <2>2. Count(lines)[i + 1] = CountLine(old, line)
    BY <1>2, <2>1
  <2>3. line.valid \in BOOLEAN
    <3>1. line \in Line
      BY <2>1, ElementOfSeq
    <3> QED BY <3>1 DEF Line
  <2>4. after = IF line.valid /\ line.witness \in Quorum
                THEN before \cup {line.witness} ELSE before
    <3>1. 1..(i + 1) = (1..i) \cup {i + 1}
      OBVIOUS
    <3> QED BY <3>1, <2>3 DEF SignedUpTo
  <2>5. CASE line.valid /\ line.witness \in Quorum /\ line.witness \notin before
    <3>1. Count(lines)[i + 1] =
              [ok |-> old.ok + 1, counted |-> before \cup {line.witness}]
      BY <1>4, <2>2, <2>5 DEF CountLine
    <3>2. IsFiniteSet(before \cup {line.witness})
          /\ Cardinality(before \cup {line.witness}) = Cardinality(before) + 1
      <4>1. IsFiniteSet(before)
        BY <1>4
      <4> HIDE DEF before, line
      <4> QED BY <2>5, <4>1, FS_AddElement
    <3>3. after = before \cup {line.witness}
      BY <2>4, <2>5
    <3>4. old.ok = Cardinality(before)
      BY <1>4
    <3> HIDE DEF before, line, old, after
    <3>5. /\ Count(lines)[i + 1].counted = after
          /\ IsFiniteSet(after)
          /\ Count(lines)[i + 1].ok = Cardinality(after)
      BY <3>1, <3>2, <3>3, <3>4
    <3> QED BY <3>5 DEF after
  <2>6. CASE ~(line.valid /\ line.witness \in Quorum
               /\ line.witness \notin before)
    <3>1. Count(lines)[i + 1] = old
      BY <1>4, <2>2, <2>6 DEF CountLine
    <3>2. after = before
      <4> HIDE DEF before, line, after
      <4> QED BY <2>4, <2>6
    <3> QED BY <3>1, <3>2, <1>4
  <2> QED BY <2>5, <2>6
<1>5. 0 \in S /\ \A i \in Nat : i \in S => i + 1 \in S
  <2> HIDE DEF Sound
  <2> QED BY <1>1, <1>3, <1>4
<1>6. Nat \subseteq S
  <2> HIDE DEF S
  <2> QED BY <1>5, NatInductionSet
<1> QED BY <1>1, <1>6

\* What the code counts is the number of the policy's witnesses that signed.
LEMMA QuorumIsCounted ==
    ASSUME NEW b, b.lines \in Seq(Line)
    PROVE  quorumWitnessesOk(b) = Cardinality(Cosigners(b))
           /\ Cardinality(Cosigners(b)) \in Nat
<1>1. Len(b.lines) \in 0..Len(b.lines) /\ DOMAIN b.lines = 1..Len(b.lines)
  OBVIOUS
<1>2. Cosigners(b) = SignedUpTo(b.lines, Len(b.lines))
  BY <1>1 DEF Cosigners, SignedUpTo
<1>3. /\ IsFiniteSet(Cosigners(b))
      /\ Count(b.lines)[Len(b.lines)].ok = Cardinality(Cosigners(b))
  BY <1>1, <1>2, CountIsOfTheSet
<1> QED BY <1>3, FS_CardinalityType DEF quorumWitnessesOk

-----------------------------------------------------------------------------
(***************************************************************************)
(* The verdicts.                                                           *)
(***************************************************************************)

\* What is shown of a binding is true of it, and no more than is looked at.
EntrySaid(e) == EntryIsTrue(e) /\ EntryTellsLess(e)
CardSaid(b, status) == CardIsTrue(b, status) /\ CardTellsLess(b, status)
BadgeSaid(b, status) == BadgeIsTrue(b, status) /\ BadgeTellsLess(b, status)

\* What is wrong with a binding is among what its verifier looks for.
LEMMA FlawsAreLookedFor ==
    ASSUME NEW b, IsBinding(b)
    PROVE  /\ b.type = "rfc3161-tst" => b.flaws \subseteq TstFlaw
           /\ b.type = "opentimestamps" => b.flaws \subseteq OtsFlaw
           /\ b.type = "c2sp-tlog-proof-v1" =>
                  b.flaws \subseteq SigsumFlaw \cup {"malformed"}
           /\ b.type = "c2sp-tlog-pending-v1" => b.flaws = {}
           /\ b.type = "solana-memo" => b.flaws \subseteq SolanaFlaw \cup {"shape"}
           /\ b.type \in {"rfc3161-tst", "opentimestamps",
                          "c2sp-tlog-proof-v1", "c2sp-tlog-pending-v1",
                          "solana-memo", "unknown"}
           /\ b.lines \in Seq(Line)
BY Zenon DEF IsBinding, Checked

\* The verdict of a Sigsum binding is the one the policy defines, with the
\* two ways of being invalid told apart.
LEMMA SigsumVerdict ==
    ASSUME NEW b, IsBinding(b), b.type \in Sigsum
    PROVE  verifySigsumBinding(b) =
               IF SigsumTruth(b) = "invalid" /\ "malformed" \in b.flaws
               THEN "throws" ELSE SigsumTruth(b)
<1>1. CASE b.type = "c2sp-tlog-pending-v1"
  BY <1>1 DEF verifySigsumBinding, SigsumTruth
<1>2. CASE b.type # "c2sp-tlog-pending-v1"
  <2> DEFINE signed == Cardinality(Cosigners(b))
  <2>1. b.flaws \subseteq SigsumFlaw \cup {"malformed"}
    BY <1>2, FlawsAreLookedFor DEF Sigsum
  <2>2. quorumWitnessesOk(b) = signed /\ signed \in Nat
    BY QuorumIsCounted, FlawsAreLookedFor
  <2>3. CASE "malformed" \in b.flaws
    BY <1>2, <2>3 DEF verifySigsumBinding, SigsumTruth
  <2>4. CASE "malformed" \notin b.flaws /\ b.flaws # {}
    <3>1. b.flaws \cap SigsumFlaw # {}
      BY <2>1, <2>4
    <3> QED BY <1>2, <2>4, <3>1 DEF verifySigsumBinding, SigsumTruth
  <2>5. CASE b.flaws = {}
    <3> HIDE DEF signed
    <3> QED BY <1>2, <2>2, <2>5
            DEF verifySigsumBinding, SigsumTruth, WITNESS_QUORUM_THRESHOLD,
                signed
  <2> QED BY <2>3, <2>4, <2>5
<1> QED BY <1>1, <1>2

LEMMA SigsumTruths ==
    ASSUME NEW b
    PROVE  SigsumTruth(b) \in {"pending", "invalid", "log-only",
                               "below-quorum", "ok"}
BY DEF SigsumTruth

\* The Worker's entry for a binding, whatever the endpoint has answered.
LEMMA EntriesAreTrue ==
    ASSUME NEW b, IsBinding(b), NEW rpc \in BOOLEAN, NEW got
    PROVE  EntrySaid(Entry(b, rpc, got)) /\ Entry(b, rpc, got).binding = b
<1> DEFINE e == Entry(b, rpc, got)
<1>1. e.binding = b /\ e.valid = (e.verdict = "ok")
  BY Zenon DEF Entry
<1> SUFFICES EntrySaid(e)
  BY <1>1
<1>2. CASE b.type = "rfc3161-tst"
  <2>1. e.verdict = IF verifyTstBinding(b) /\ verifyMerkleInclusion(b)
                    THEN "ok" ELSE "invalid"
    BY <1>2 DEF Entry
  <2>2. verifyTstBinding(b) => b.flaws = {}
    BY <1>2, FlawsAreLookedFor DEF verifyTstBinding
  <2> HIDE DEF e
  <2> QED BY <1>1, <1>2, <2>1, <2>2
          DEF EntrySaid, EntryIsTrue, EntryTellsLess, MayPass, Sigsum, verifyMerkleInclusion
<1>3. CASE b.type = "opentimestamps"
  <2>1. e.verdict = "pending"
    BY <1>3 DEF Entry
  <2> HIDE DEF e
  <2> QED BY <1>1, <1>3, <2>1 DEF EntrySaid, EntryIsTrue, EntryTellsLess, Sigsum
<1>4. CASE b.type \in Sigsum
  <2>1. e.verdict = IF verifySigsumBinding(b) = "throws" THEN "invalid"
                    ELSE verifySigsumBinding(b)
    BY <1>4 DEF Entry, Sigsum
  <2>2. e.verdict = SigsumTruth(b)
    BY <1>4, <2>1, SigsumVerdict, SigsumTruths
  <2>3. SigsumTruth(b) = "ok" =>
            b.type = "c2sp-tlog-proof-v1" /\ b.flaws = {}
    BY <1>4 DEF SigsumTruth, Sigsum
  <2> HIDE DEF e
  <2> QED BY <1>1, <1>4, <2>2, <2>3
         DEF EntrySaid, EntryIsTrue, EntryTellsLess, MayPass, Sigsum
<1>5. CASE b.type = "solana-memo"
  <2>1. e.verdict = verifySolanaMemoBinding(b, rpc, got)
    BY <1>5 DEF Entry
  <2>2. e.verdict = "ok" => b.flaws = {} /\ b.inclusion # "fails"
    BY <1>5, <2>1, FlawsAreLookedFor
       DEF verifySolanaMemoBinding, AsksRpc, verifyMerkleInclusion
  <2> HIDE DEF e
  <2> QED BY <1>1, <1>5, <2>2
         DEF EntrySaid, EntryIsTrue, EntryTellsLess, MayPass, Sigsum
<1>6. CASE b.type = "unknown"
  <2>1. e.verdict = "unsupported"
    BY <1>6 DEF Entry
  <2> HIDE DEF e
  <2> QED BY <1>1, <1>6, <2>1 DEF EntrySaid, EntryIsTrue, EntryTellsLess, Sigsum
<1> QED BY <1>1, <1>2, <1>3, <1>4, <1>5, <1>6, FlawsAreLookedFor DEF Sigsum

\* The card of a Sigsum proof, before and after it was collected.
LEMMA SigsumCardIsTrue ==
    ASSUME NEW b, IsBinding(b), b.type \in Sigsum
    PROVE  CardSaid(b, SigsumStatus(b))
           /\ SigsumStatus(b) \in {"ok", "pending", "fail"}
<1>1. SigsumStatus(b) = CASE SigsumTruth(b) = "ok" -> "ok"
                          [] SigsumTruth(b) = "invalid" -> "fail"
                          [] OTHER -> "pending"
  BY SigsumVerdict, SigsumTruths DEF SigsumStatus
<1>2. SigsumTruth(b) = "ok" => b.type = "c2sp-tlog-proof-v1" /\ b.flaws = {}
  BY DEF SigsumTruth, Sigsum
<1>3. SigsumStatus(b) = CardOfTruth(b)
  BY <1>1 DEF CardOfTruth
<1> QED BY <1>1, <1>2, <1>3 DEF CardSaid, CardIsTrue, CardTellsLess, MayPass, Sigsum

\* The card of a binding that can be decoded.
LEMMA CardsAreTrue ==
    ASSUME NEW b, IsBinding(b), ~Throws(b), NEW rpc \in BOOLEAN, NEW got
    PROVE  CardSaid(b, CardStatus(b, rpc, got))
           /\ CardStatus(b, rpc, got) \in {"ok", "pending", "fail"}
<1> DEFINE status == CardStatus(b, rpc, got)
<1>2. CASE b.type = "rfc3161-tst"
  <2>1. status = IF verifyTstBinding(b) /\ verifyMerkleInclusion(b)
                 THEN "ok" ELSE "fail"
    BY <1>2 DEF CardStatus
  <2>2. verifyTstBinding(b) => b.flaws = {}
    BY <1>2, FlawsAreLookedFor DEF verifyTstBinding
  <2> HIDE DEF status
  <2>3. CardSaid(b, status) /\ status \in {"ok", "pending", "fail"}
    BY <1>2, <2>1, <2>2
           DEF CardSaid, CardIsTrue, CardTellsLess, MayPass, Sigsum, verifyMerkleInclusion
  <2> QED BY <2>3 DEF status
<1>3. CASE b.type = "opentimestamps"
  <2>1. status \in {"ok", "pending", "fail"}
        /\ (status = "ok" <=> verifyOts(b, b.hash) = "complete")
    BY <1>3 DEF CardStatus
  <2>2. verifyOts(b, b.hash) = "complete" <=> b.flaws = {} /\ b.bitcoin
    BY <1>3, FlawsAreLookedFor DEF verifyOts, Throws, OtsFlaw
  <2> HIDE DEF status
  <2>3. CardSaid(b, status)
    BY <1>3, <2>1, <2>2 DEF CardSaid, CardIsTrue, CardTellsLess, MayPass, Sigsum
  <2> QED BY <2>1, <2>3 DEF status
<1>4. CASE b.type \in Sigsum
  <2>1. status = SigsumStatus(b)
    BY <1>4 DEF CardStatus, Sigsum
  <2> QED BY <1>4, <2>1, SigsumCardIsTrue
<1>5. CASE b.type = "solana-memo"
  <2>1. status = IF verifySolanaMemoBinding(b, rpc, got) = "ok"
                 THEN "ok" ELSE "fail"
    BY <1>5 DEF CardStatus
  <2>2. status = "ok" => b.flaws = {} /\ b.inclusion # "fails"
    BY <1>5, <2>1, FlawsAreLookedFor
       DEF verifySolanaMemoBinding, AsksRpc, verifyMerkleInclusion
  <2> HIDE DEF status
  <2>3. CardSaid(b, status) /\ status \in {"ok", "pending", "fail"}
    BY <1>5, <2>1, <2>2 DEF CardSaid, CardIsTrue, CardTellsLess, MayPass, Sigsum
  <2> QED BY <2>3 DEF status
<1>6. CASE b.type = "unknown"
  <2>1. status = "fail"
    BY <1>6 DEF CardStatus
  <2> HIDE DEF status
  <2>2. CardSaid(b, status) /\ status \in {"ok", "pending", "fail"}
    BY <1>6, <2>1 DEF CardSaid, CardIsTrue, CardTellsLess, Sigsum
  <2> QED BY <2>2 DEF status
<1> QED BY <1>2, <1>3, <1>4, <1>5, <1>6, FlawsAreLookedFor DEF Sigsum

\* The badge of a library page.
LEMMA BadgesAreTrue ==
    ASSUME NEW b, IsBinding(b)
    PROVE  BadgeSaid(b, BadgeStatus(b))
<1>2. CASE b.type = "rfc3161-tst"
  <2>1. verifyTstBinding(b) <=> b.flaws = {}
    BY <1>2, FlawsAreLookedFor DEF verifyTstBinding
  <2> QED BY <1>2, <2>1
          DEF BadgeSaid, BadgeIsTrue, BadgeTellsLess, BadgeStatus, RunnerStatus, MayPass, Sigsum
<1>3. CASE b.type = "opentimestamps"
  <2>1. verifyOts(b, b.hash) = "complete" /\ ~Throws(b) =>
            b.flaws = {} /\ b.bitcoin
    BY <1>3, FlawsAreLookedFor DEF verifyOts, Throws, OtsFlaw
  <2>2. verifyOts(b, b.hash) # "ok"
    BY DEF verifyOts
  <2> QED BY <1>3, <2>1, <2>2
          DEF BadgeSaid, BadgeIsTrue, BadgeTellsLess, BadgeStatus, RunnerStatus, MayPass, Sigsum
<1>4. CASE b.type \in Sigsum
  <2>1. RunnerStatus(b) = IF SigsumTruth(b) = "invalid" THEN "error"
                          ELSE SigsumTruth(b)
    BY <1>4, SigsumVerdict, SigsumTruths
       DEF RunnerStatus, verifySigsumAnchor, Sigsum
  <2>2. BadgeStatus(b) = IF SigsumTruth(b) = "invalid" THEN "fail"
                         ELSE SigsumTruth(b)
    BY <2>1, SigsumTruths DEF BadgeStatus
  <2>3. SigsumTruth(b) = "ok" =>
            b.type = "c2sp-tlog-proof-v1" /\ b.flaws = {}
    BY <1>4 DEF SigsumTruth, Sigsum
  <2> QED BY <1>4, <2>2, <2>3
          DEF BadgeSaid, BadgeIsTrue, BadgeTellsLess, BadgeOfTruth, MayPass, Sigsum
<1>5. CASE b.type \in {"solana-memo", "unknown"}
  BY <1>5
         DEF BadgeSaid, BadgeIsTrue, BadgeTellsLess, BadgeStatus, RunnerStatus, Sigsum
<1> QED BY <1>2, <1>3, <1>4, <1>5, FlawsAreLookedFor DEF Sigsum

-----------------------------------------------------------------------------
(***************************************************************************)
(* The gate of the endpoint.                                               *)
(***************************************************************************)

\* A gate that refuses gives the answer of one ground that applies while none
\* before it does.
LEMMA FirstGroundDecides ==
    ASSUME NEW refusals, DOMAIN refusals \subseteq Nat, Grounds(refusals) # {}
    PROVE  \E i \in DOMAIN refusals :
               /\ refusals[i].when /\ Verdict(refusals) = refusals[i].reply
               /\ \A j \in DOMAIN refusals : j < i => ~refusals[j].when
<1> DEFINE i == Min(Grounds(refusals))
<1>1. Grounds(refusals) \in SUBSET Nat
  BY DEF Grounds
<1>2. i \in Grounds(refusals) /\ \A j \in Grounds(refusals) : i <= j
  BY <1>1, MinIsLeast
<1>3. i \in DOMAIN refusals /\ refusals[i].when
      /\ Verdict(refusals) = refusals[i].reply
  BY <1>2, Zenon DEF Grounds, Verdict
<1>4. \A j \in DOMAIN refusals : j < i => ~refusals[j].when
  <2> HIDE DEF i
  <2> TAKE j \in DOMAIN refusals
  <2> HAVE j < i
  <2>1. j \notin Grounds(refusals)
    BY <1>1, <1>2
  <2> QED BY <2>1 DEF Grounds
<1> HIDE DEF i
<1> QED BY <1>3, <1>4

\* A request that is neither of another revision than those supported, nor
\* contradicts itself, nor lacks what its era requires.
InForm(r) == /\ assertedProtocolVersion(r) \in MCP_SUPPORTED_VERSIONS \cup {None}
             /\ validateMcpHeaders(r)
             /\ ~(modernEra(r) /\ missingRequiredMeta(r))

\* The grounds on which the endpoint turns a request away, one by one.
LEMMA GroundsOfTheEndpoint ==
    ASSUME NEW r
    PROVE  LET s == Refusals(r)
           IN  /\ s[1].when <=> r.http = "OPTIONS"
               /\ s[2].when <=> r.http # "POST"
               /\ s[3].when <=> ~r.json
               /\ s[4].when <=> ~r.jsonrpc
               /\ s[5].when <=> assertedProtocolVersion(r)
                                  \notin MCP_SUPPORTED_VERSIONS \cup {None}
               /\ s[6].when <=> ~validateMcpHeaders(r)
               /\ s[7].when <=> modernEra(r) /\ missingRequiredMeta(r)
               /\ s[8].when <=> r.method = "notifications/initialized"
               /\ s[9].when <=> r.method
                                  \in {"initialize", "server/discover", "tools/list"}
               /\ s[10].when <=> r.method # "tools/call"
               /\ s[11].when <=> r.tool \notin Tool
<1> DEFINE s == Refusals(r)
           at(status, code) == Reply(status, code, negotiatedVersion(r), None)
<1>1. s[1].when <=> r.http = "OPTIONS"
  <2> DEFINE e == s[1]
             P == r.http = "OPTIONS"
  <2>1. e = [when |-> P, reply |-> Reply(204, 0, None, None)]
    BY DEF Refusals
  <2> HIDE DEF e, P
  <2>2. e.when = P
    BY <2>1
  <2> QED BY <2>2 DEF e, P
<1>2. s[2].when <=> r.http # "POST"
  <2> DEFINE e == s[2]
             P == r.http # "POST"
  <2>1. e = [when |-> P, reply |-> Reply(405, 0, None, None)]
    BY DEF Refusals
  <2> HIDE DEF e, P
  <2>2. e.when = P
    BY <2>1
  <2> QED BY <2>2 DEF e, P
<1>3. s[3].when <=> ~r.json
  <2> DEFINE e == s[3]
             P == ~r.json
  <2>1. e = [when |-> P, reply |-> Reply(200, -32700, None, None)]
    BY DEF Refusals
  <2> HIDE DEF e, P
  <2>2. e.when = P
    BY <2>1
  <2> QED BY <2>2 DEF e, P
<1>4. s[4].when <=> ~r.jsonrpc
  <2> DEFINE e == s[4]
             P == ~r.jsonrpc
  <2>1. e = [when |-> P, reply |-> Reply(200, -32600, None, None)]
    BY DEF Refusals
  <2> HIDE DEF e, P
  <2>2. e.when = P
    BY <2>1
  <2> QED BY <2>2 DEF e, P
<1>5. s[5].when <=> assertedProtocolVersion(r)
                        \notin MCP_SUPPORTED_VERSIONS \cup {None}
  <2> DEFINE e == s[5]
             P == assertedProtocolVersion(r)
                        \notin MCP_SUPPORTED_VERSIONS \cup {None}
  <2>1. e = [when |-> P, reply |-> Reply(400, -32022, MCP_PROTOCOL_VERSION, None)]
    BY DEF Refusals
  <2> HIDE DEF e, P
  <2>2. e.when = P
    BY <2>1
  <2> QED BY <2>2 DEF e, P
<1>6. s[6].when <=> ~validateMcpHeaders(r)
  <2> DEFINE e == s[6]
             P == ~validateMcpHeaders(r)
  <2>1. e = [when |-> P, reply |-> at(400, -32020)]
    BY DEF Refusals
  <2> HIDE DEF e, P
  <2>2. e.when = P
    BY <2>1
  <2> QED BY <2>2 DEF e, P
<1>7. s[7].when <=> modernEra(r) /\ missingRequiredMeta(r)
  <2> DEFINE e == s[7]
             P == modernEra(r) /\ missingRequiredMeta(r)
  <2>1. e = [when |-> P, reply |-> at(400, -32602)]
    BY DEF Refusals
  <2> HIDE DEF e, P
  <2>2. e.when = P
    BY <2>1
  <2> QED BY <2>2 DEF e, P
<1>8. s[8].when <=> r.method = "notifications/initialized"
  <2> DEFINE e == s[8]
             P == r.method = "notifications/initialized"
  <2>1. e = [when |-> P, reply |-> at(204, 0)]
    BY DEF Refusals
  <2> HIDE DEF e, P
  <2>2. e.when = P
    BY <2>1
  <2> QED BY <2>2 DEF e, P
<1>9. s[9].when <=> r.method
                        \in {"initialize", "server/discover", "tools/list"}
  <2> DEFINE e == s[9]
             P == r.method
                        \in {"initialize", "server/discover", "tools/list"}
  <2>1. e = [when |-> P, reply |-> at(200, 0)]
    BY DEF Refusals
  <2> HIDE DEF e, P
  <2>2. e.when = P
    BY <2>1
  <2> QED BY <2>2 DEF e, P
<1>10. s[10].when <=> r.method # "tools/call"
  <2> DEFINE e == s[10]
             P == r.method # "tools/call"
  <2>1. e = [when |-> P, reply |-> at(IF modernEra(r) THEN 404 ELSE 200, -32601)]
    BY DEF Refusals
  <2> HIDE DEF e, P
  <2>2. e.when = P
    BY <2>1
  <2> QED BY <2>2 DEF e, P
<1>11. s[11].when <=> r.tool \notin Tool
  <2> DEFINE e == s[11]
             P == r.tool \notin Tool
  <2>1. e = [when |-> P, reply |-> at(200, -32602)]
    BY DEF Refusals
  <2> HIDE DEF e, P
  <2>2. e.when = P
    BY <2>1
  <2> QED BY <2>2 DEF e, P
<1> QED BY <1>1, <1>2, <1>3, <1>4, <1>5, <1>6, <1>7, <1>8, <1>9, <1>10, <1>11

\* The ways the endpoint turns a request away.
LEMMA RefusalsOfTheEndpoint ==
    ASSUME NEW r, Grounds(Refusals(r)) # {}
    PROVE  LET v == Verdict(Refusals(r))
               at(status, code) ==
                   Reply(status, code, negotiatedVersion(r), None)
           IN  /\ v.body = None
               /\ r.http = "POST" /\ r.json /\ r.jsonrpc =>
                  \/ /\ assertedProtocolVersion(r)
                            \notin MCP_SUPPORTED_VERSIONS \cup {None}
                     /\ v = Reply(400, -32022, MCP_PROTOCOL_VERSION, None)
                  \/ ~validateMcpHeaders(r) /\ v = at(400, -32020)
                  \/ modernEra(r) /\ missingRequiredMeta(r)
                     /\ v = at(400, -32602)
                  \/ /\ InForm(r)
                     /\ \/ r.method = "notifications/initialized"
                           /\ v = at(204, 0)
                        \/ r.method \in {"initialize", "server/discover",
                                         "tools/list"} /\ v = at(200, 0)
                        \/ r.method \notin {"notifications/initialized",
                                            "initialize", "server/discover",
                                            "tools/list", "tools/call"}
                           /\ v = at(IF modernEra(r) THEN 404 ELSE 200, -32601)
                        \/ r.method = "tools/call" /\ v = at(200, -32602)
<1> DEFINE s == Refusals(r)
           v == Verdict(s)
           at(status, code) == Reply(status, code, negotiatedVersion(r), None)
<1>1. DOMAIN s = 1..11
  BY DEF Refusals
<1>2. /\ s[1] = [when |-> r.http = "OPTIONS",
                 reply |-> Reply(204, 0, None, None)]
      /\ s[2] = [when |-> r.http # "POST",
                 reply |-> Reply(405, 0, None, None)]
      /\ s[3] = [when |-> ~r.json, reply |-> Reply(200, -32700, None, None)]
      /\ s[4] = [when |-> ~r.jsonrpc,
                 reply |-> Reply(200, -32600, None, None)]
  BY DEF Refusals
<1>3. /\ s[5] = [when |-> assertedProtocolVersion(r)
                              \notin MCP_SUPPORTED_VERSIONS \cup {None},
                 reply |-> Reply(400, -32022, MCP_PROTOCOL_VERSION, None)]
      /\ s[6] = [when |-> ~validateMcpHeaders(r), reply |-> at(400, -32020)]
      /\ s[7] = [when |-> modernEra(r) /\ missingRequiredMeta(r),
                 reply |-> at(400, -32602)]
  BY DEF Refusals
<1>4. /\ s[8] = [when |-> r.method = "notifications/initialized",
                 reply |-> at(204, 0)]
      /\ s[9] = [when |-> r.method \in {"initialize", "server/discover",
                                        "tools/list"},
                 reply |-> at(200, 0)]
      /\ s[10] = [when |-> r.method # "tools/call",
                  reply |-> at(IF modernEra(r) THEN 404 ELSE 200, -32601)]
      /\ s[11] = [when |-> r.tool \notin Tool, reply |-> at(200, -32602)]
  BY DEF Refusals
<1> HIDE DEF s
<1>5. PICK i \in 1..11 : /\ s[i].when /\ Verdict(s) = s[i].reply
                         /\ \A j \in 1..11 : j < i => ~s[j].when
  BY <1>1, FirstGroundDecides DEF s
<1>6. \A status, code, version : Reply(status, code, version, None).body = None
  BY DEF Reply
<1>7. v.body = None
  <2>1. v = s[i].reply
    BY <1>5
  <2>2. \E status, code, version :
            s[i].reply = Reply(status, code, version, None)
    BY <1>2, <1>3, <1>4
  <2> HIDE DEF v
  <2> QED BY <2>1, <2>2, <1>6
<1>10. /\ s[1].when <=> r.http = "OPTIONS"
       /\ s[2].when <=> r.http # "POST"
       /\ s[3].when <=> ~r.json
       /\ s[4].when <=> ~r.jsonrpc
       /\ s[5].when <=> assertedProtocolVersion(r)
                            \notin MCP_SUPPORTED_VERSIONS \cup {None}
       /\ s[6].when <=> ~validateMcpHeaders(r)
       /\ s[7].when <=> modernEra(r) /\ missingRequiredMeta(r)
       /\ s[8].when <=> r.method = "notifications/initialized"
       /\ s[9].when <=> r.method \in {"initialize", "server/discover",
                                      "tools/list"}
       /\ s[10].when <=> r.method # "tools/call"
  BY GroundsOfTheEndpoint DEF s
<1>11. ASSUME r.http = "POST", r.json, r.jsonrpc
       PROVE  \/ /\ assertedProtocolVersion(r)
                        \notin MCP_SUPPORTED_VERSIONS \cup {None}
                 /\ v = Reply(400, -32022, MCP_PROTOCOL_VERSION, None)
              \/ ~validateMcpHeaders(r) /\ v = at(400, -32020)
              \/ modernEra(r) /\ missingRequiredMeta(r) /\ v = at(400, -32602)
              \/ /\ InForm(r)
                 /\ \/ r.method = "notifications/initialized" /\ v = at(204, 0)
                    \/ r.method \in {"initialize", "server/discover",
                                     "tools/list"} /\ v = at(200, 0)
                    \/ r.method \notin {"notifications/initialized",
                                        "initialize", "server/discover",
                                        "tools/list", "tools/call"}
                       /\ v = at(IF modernEra(r) THEN 404 ELSE 200, -32601)
                    \/ r.method = "tools/call" /\ v = at(200, -32602)
  <2> HIDE DEF v, at
  <2>1. i \notin {1, 2, 3, 4}
    BY <1>10, <1>5, <1>11
  <2>2. CASE i = 5
    BY <1>3, <1>10, <1>5, <2>2 DEF v
  <2>3. CASE i = 6
    BY <1>3, <1>10, <1>5, <2>3 DEF v
  <2>4. CASE i = 7
    BY <1>3, <1>10, <1>5, <2>4 DEF v
  <2>5. CASE i \in 8..11
    <3>1. ~s[5].when /\ ~s[6].when /\ ~s[7].when
      BY <1>5, <2>5
    <3>2. InForm(r)
      BY <1>10, <3>1 DEF InForm
    <3>3. CASE i = 8
      BY <1>4, <1>10, <1>5, <3>2, <3>3 DEF v
    <3>4. CASE i = 9
      BY <1>4, <1>10, <1>5, <3>2, <3>4 DEF v
    <3>5. CASE i = 10
      <4>1. ~s[8].when /\ ~s[9].when
        BY <1>5, <3>5
      <4> QED BY <1>4, <1>10, <1>5, <3>2, <3>5, <4>1 DEF v
    <3>6. CASE i = 11
      <4>1. ~s[10].when
        BY <1>5, <3>6
      <4> QED BY <1>4, <1>10, <1>5, <3>2, <3>6, <4>1 DEF v
    <3> QED BY <2>5, <3>3, <3>4, <3>5, <3>6
  <2>6. i \in {1, 2, 3, 4} \/ i = 5 \/ i = 6 \/ i = 7 \/ i \in 8..11
    OBVIOUS
  <2> QED BY <2>1, <2>2, <2>3, <2>4, <2>5, <2>6
<1> QED BY <1>7, <1>11 DEF s

\* What is let through is in form and calls a tool there is.
LEMMA PassesTheEndpoint ==
    ASSUME NEW r, Grounds(Refusals(r)) = {}
    PROVE  InForm(r) /\ r.method = "tools/call" /\ r.tool \in Tool
<1>1. \A i \in 1..11 : ~Refusals(r)[i].when
  <2>1. DOMAIN Refusals(r) = 1..11
    BY DEF Refusals
  <2> QED BY <2>1 DEF Grounds
<1>2. /\ ~Refusals(r)[5].when /\ ~Refusals(r)[6].when
      /\ ~Refusals(r)[7].when /\ ~Refusals(r)[10].when
      /\ ~Refusals(r)[11].when
  BY <1>1
<1> QED BY <1>2, GroundsOfTheEndpoint, Zenon DEF InForm

\* A request in form is of one era, and says so wherever it says anything.
LEMMA InFormIsOfOneEra ==
    ASSUME NEW r, IsRequest(r), InForm(r)
    PROVE  /\ Modern(r) =>
                  /\ r.header = r.meta /\ r.capabilities
                  /\ r.mcpMethod = "agrees"
                  /\ mcpNameApplies(r) => r.mcpName \notin {"absent", "garbled"}
           /\ r.mcpMethod \in {"absent", "agrees"}
           /\ mcpNameApplies(r) /\ r.tool # None =>
                  r.mcpName \in {"absent", "agrees"}
<1>1. r.mcpMethod \in Routed /\ r.mcpName \in Routed /\ r.capabilities \in BOOLEAN
  BY DEF IsRequest
<1>2. None # MCP_PROTOCOL_VERSION
  BY ServerAssumption DEF MCP_PROTOCOL_VERSION, MCP_SUPPORTED_VERSIONS
<1>3. /\ r.mcpMethod \in {"absent", "agrees"}
      /\ mcpNameApplies(r) /\ r.tool # None => r.mcpName \in {"absent", "agrees"}
  BY <1>1 DEF InForm, validateMcpHeaders, WrongHeader, Routed
<1>4. ASSUME Modern(r)
      PROVE  r.header = r.meta /\ modernEra(r)
  <2>1. CASE r.header = None
    BY <1>2, <1>4, <2>1 DEF Modern, InForm, validateMcpHeaders, WrongHeader,
                            modernEra, assertedProtocolVersion
  <2>2. CASE r.header # None /\ r.header # r.meta
    BY <1>2, <1>4, <2>2 DEF Modern, InForm, validateMcpHeaders, WrongHeader,
                            modernEra, assertedProtocolVersion,
                            missingRequiredMeta
  <2>3. CASE r.header # None /\ r.header = r.meta
    BY <1>2, <1>4, <2>3 DEF Modern, modernEra, assertedProtocolVersion
  <2> QED BY <2>1, <2>2, <2>3
<1>5. ASSUME Modern(r)
      PROVE  /\ r.capabilities /\ r.mcpMethod = "agrees"
             /\ mcpNameApplies(r) => r.mcpName \notin {"absent", "garbled"}
  <2>1. modernEra(r)
    BY <1>4, <1>5
  <2> QED BY <1>1, <1>3, <2>1
          DEF InForm, validateMcpHeaders, WrongHeader, missingRequiredMeta
<1> QED BY <1>3, <1>4, <1>5

LEMMA NegotiatedIsSupported ==
    ASSUME NEW r
    PROVE  negotiatedVersion(r) \in MCP_SUPPORTED_VERSIONS
BY DEF negotiatedVersion, MCP_SUPPORTED_VERSIONS, MCP_PROTOCOL_VERSION

\* A client that knows nothing of the modern revision is in form.
LEMMA UnawareIsInForm ==
    ASSUME NEW r, IsRequest(r), Unaware(r)
    PROVE  /\ InForm(r) /\ ~modernEra(r)
           /\ r.method = "initialize" /\ r.offer \in MCP_SUPPORTED_VERSIONS =>
                  negotiatedVersion(r) = r.offer
<1>1. None # MCP_PROTOCOL_VERSION
  BY ServerAssumption DEF MCP_PROTOCOL_VERSION, MCP_SUPPORTED_VERSIONS
<1>2. assertedProtocolVersion(r) = None
  BY DEF Unaware, assertedProtocolVersion
<1>3. ~modernEra(r)
  BY <1>1, <1>2 DEF modernEra
<1>4. validateMcpHeaders(r)
  BY <1>3 DEF validateMcpHeaders, WrongHeader, Unaware
<1>5. r.method = "initialize" /\ r.offer \in MCP_SUPPORTED_VERSIONS =>
          negotiatedVersion(r) = r.offer
  BY <1>2 DEF negotiatedVersion
<1> QED BY <1>2, <1>3, <1>4, <1>5 DEF InForm

\* The answer of a gate, and that of a tool.
LEMMA RefusedUnderItsEra ==
    ASSUME NEW r, IsRequest(r), Grounds(Refusals(r)) # {}
    PROVE  AnsweredUnderItsEra(r, Verdict(Refusals(r)))
<1> SUFFICES ASSUME r.http = "POST", r.json, r.jsonrpc
             PROVE  AnsweredUnderItsEra(r, Verdict(Refusals(r)))
  BY DEF AnsweredUnderItsEra
<1> DEFINE v == Verdict(Refusals(r))
           at(status, code) == Reply(status, code, negotiatedVersion(r), None)
<1>1. MCP_PROTOCOL_VERSION \in MCP_SUPPORTED_VERSIONS
  BY DEF MCP_PROTOCOL_VERSION, MCP_SUPPORTED_VERSIONS
<1>2. \A status, code, version, body :
          LET a == Reply(status, code, version, body)
          IN  a.status = status /\ a.code = code /\ a.version = version
  BY DEF Reply
<1>3. CASE assertedProtocolVersion(r) \notin MCP_SUPPORTED_VERSIONS \cup {None}
           /\ v = Reply(400, -32022, MCP_PROTOCOL_VERSION, None)
  <2>1. ~Unaware(r)
    BY <1>3, UnawareIsInForm DEF InForm
  <2>2. v.code = -32022 /\ v.status = 400 /\ v.version = MCP_PROTOCOL_VERSION
    BY <1>2, <1>3
  <2> HIDE DEF v
  <2>3. AnsweredUnderItsEra(r, v)
    BY <1>1, <2>1, <2>2 DEF AnsweredUnderItsEra
  <2> QED BY <2>3 DEF v
<1>4. CASE \/ ~validateMcpHeaders(r) /\ v = at(400, -32020)
           \/ modernEra(r) /\ missingRequiredMeta(r) /\ v = at(400, -32602)
  <2>1. ~Unaware(r)
    BY <1>4, UnawareIsInForm DEF InForm
  <2>2. v.code \in {-32020, -32602} /\ v.status = 400
        /\ v.version = negotiatedVersion(r)
    BY <1>2, <1>4
  <2> HIDE DEF v
  <2>3. AnsweredUnderItsEra(r, v)
    BY <2>1, <2>2, NegotiatedIsSupported DEF AnsweredUnderItsEra
  <2> QED BY <2>3 DEF v
<1>5. CASE /\ InForm(r)
           /\ \/ r.method = "notifications/initialized" /\ v = at(204, 0)
              \/ r.method \in {"initialize", "server/discover",
                               "tools/list"} /\ v = at(200, 0)
              \/ r.method \notin {"notifications/initialized",
                                  "initialize", "server/discover",
                                  "tools/list", "tools/call"}
                 /\ v = at(IF modernEra(r) THEN 404 ELSE 200, -32601)
              \/ r.method = "tools/call" /\ v = at(200, -32602)
  <2>1. /\ v.version = negotiatedVersion(r)
        /\ v.status \in {200, 204} \/ modernEra(r)
        /\ r.method = "initialize" => v.code = 0
    BY <1>2, <1>5
  <2>2. \/ v.code \in {0, -32601}
        \/ v.code = -32602 /\ v.status = 200
    BY <1>2, <1>5
  <2>3. Unaware(r) => v.status \in {200, 204}
    BY <2>1, UnawareIsInForm
  <2> HIDE DEF v
  <2>4. AnsweredUnderItsEra(r, v)
    BY <1>5, <2>1, <2>3, NegotiatedIsSupported, InFormIsOfOneEra,
       UnawareIsInForm
       DEF AnsweredUnderItsEra
  <2> QED BY <2>4 DEF v
<1> QED BY <1>3, <1>4, <1>5, RefusalsOfTheEndpoint

LEMMA ToldUnderItsEra ==
    ASSUME NEW r, IsRequest(r), Grounds(Refusals(r)) = {}, NEW body
    PROVE  AnsweredUnderItsEra(r, Reply(200, 0, negotiatedVersion(r), body))
<1> DEFINE v == Reply(200, 0, negotiatedVersion(r), body)
<1>1. v.status = 200 /\ v.code = 0 /\ v.version = negotiatedVersion(r)
  BY DEF Reply
<1>2. InForm(r) /\ r.method = "tools/call"
  BY PassesTheEndpoint
<1> HIDE DEF v
<1>3. AnsweredUnderItsEra(r, v)
  BY <1>1, <1>2, NegotiatedIsSupported, InFormIsOfOneEra
     DEF AnsweredUnderItsEra
<1> QED BY <1>3 DEF v

-----------------------------------------------------------------------------
(***************************************************************************)
(* A call on its way: what is known of it whenever nothing is running.     *)
(***************************************************************************)

\* One answer a call has heard: about what, from where.
Answered == [n : Nat, at : Place, got : {"ok", "refused", "none"}]
HeardOf(log) == {log[i].n : i \in {j \in DOMAIN log : log[j].got = "ok"}}

\* A call has the fields it is taken to have.
Shaped(call) ==
    DOMAIN call = {"at", "req", "n", "k", "log", "paid", "bindings",
                   "failures", "answer"}

\* Its request is one the gates let through.
LetThrough(r) == /\ IsRequest(r) /\ Grounds(Gate(r)) = {}
                 /\ r.route = "mcp" => Spared(r) = None

\* What is accounted for when a call has come to the m-th thing it is about:
\* those before it.
Settled(call, m) ==
    LET r == call.req
    IN  /\ call.log \in Seq(Answered)
        /\ \A i \in DOMAIN call.log :
              /\ call.log[i].n \in DOMAIN Places(r)
              /\ call.log[i].at \in Range(Places(r)[call.log[i].n])
        /\ Limited(r) => call.paid
        /\ r.route = "mcp" /\ r.tool \in Stamper =>
              /\ call.bindings \in Seq(Nat) /\ call.failures \in Seq(Nat)
              /\ IsStrictlySorted(call.bindings)
              /\ IsStrictlySorted(call.failures)
              /\ Range(call.bindings) = {j \in HeardOf(call.log) : j < m}
              /\ Range(call.failures) =
                     {j \in DOMAIN authorities(r) : j < m} \ HeardOf(call.log)
        /\ r.route = "mcp" /\ r.tool = "upgrade_ots_proof" =>
              \/ HeardOf(call.log) # {}
              \/ \A j \in DOMAIN r.pending :
                    j < m /\ r.pending[j] \in Range(Calendar) =>
                        r.pending[j] \in Outbound(call)

\* A call at its limiter has done nothing; one that is out asks somebody; and
\* one that is done has answered what it heard, under its era.
Waiting(call) ==
    /\ call.at = "limiter" /\ Limited(call.req) /\ LetThrough(call.req)
    /\ call.log = <<>> /\ call.paid = FALSE
    /\ call.bindings = <<>> /\ call.failures = <<>>
Out(call) ==
    /\ call.at = "out" /\ LetThrough(call.req) /\ Settled(call, call.n)
    /\ call.n \in DOMAIN Places(call.req)
    /\ call.k \in 1..Len(Places(call.req)[call.n])
Done(call) ==
    /\ call.at = "done" /\ IsRequest(call.req)
    /\ AnswersWhatItHeard(call)
    /\ call.req.route = "mcp" =>
          /\ AnsweredUnderItsEra(call.req, call.answer)
          /\ call.req.tool = "verify_anchor_binding" /\ call.answer.body # None
             /\ call.answer.body.outcome = "verified" =>
                 \A e \in Range(call.answer.body.results) : EntrySaid(e)

CallSound(call) == Shaped(call) /\ (Waiting(call) \/ Out(call) \/ Done(call))
CallsSound == /\ tokens \in 0..Limit /\ DOMAIN calls = Call
              /\ \A c \in Call : calls[c] = Idle \/ CallSound(calls[c])

\* The stamps of a thing are counted right: there is one when one was heard.
LEMMA HeardSome ==
    ASSUME NEW log \in Seq(Answered), NEW n
    PROVE  Heard(log, n) \in Nat /\ (Heard(log, n) > 0 <=> n \in HeardOf(log))
<1> DEFINE T == {i \in DOMAIN log : log[i].n = n /\ log[i].got = "ok"}
<1>1. T \subseteq 1..Len(log) /\ Len(log) \in Nat
  OBVIOUS
<1>2. IsFiniteSet(T)
  BY <1>1, FS_Interval, FS_Subset
<1>3. Cardinality(T) \in Nat /\ (Cardinality(T) = 0 <=> T = {})
  BY <1>2, FS_CardinalityType, FS_EmptySet
<1>4. T # {} <=> n \in HeardOf(log)
  BY DEF HeardOf
<1>5. Heard(log, n) = Cardinality(T)
  BY DEF Heard
<1> HIDE DEF T
<1> QED BY <1>3, <1>4, <1>5

\* A function on an interval from one is a sequence, and has its length.
LEMMA FunctionIsSequence ==
    ASSUME NEW S, NEW n \in Nat, NEW f \in [1..n -> S]
    PROVE  f \in Seq(S) /\ Len(f) = n /\ DOMAIN f = 1..n
<1>1. f \in Seq(S)
  OBVIOUS
<1>2. DOMAIN f = 1..n /\ DOMAIN f = 1..Len(f) /\ Len(f) \in Nat
  BY <1>1
<1> QED BY <1>1, <1>2

LEMMA SinglePlace ==
    ASSUME NEW S, NEW x \in S, NEW p, p = << <<x>> >>
    PROVE  /\ Len(p) \in Nat /\ DOMAIN p = 1..Len(p)
           /\ \A n \in DOMAIN p : p[n] \in Seq(S) /\ p[n] = <<x>>
<1>1. Len(p) = 1 /\ DOMAIN p = 1..1 /\ p[1] = <<x>>
  OBVIOUS
<1>2. <<x>> \in Seq(S)
  OBVIOUS
<1>3. ASSUME NEW n \in DOMAIN p
      PROVE  p[n] \in Seq(S) /\ p[n] = <<x>>
  <2>1. n = 1
    BY <1>1
  <2> QED BY <2>1, <1>1, <1>2
<1>4. Len(p) \in Nat /\ DOMAIN p = 1..Len(p)
  BY <1>1
<1> QED BY <1>3, <1>4, Zenon

\* Whom a call asks, thing by thing.
LEMMA PlacesOfThings ==
    ASSUME NEW r, LetThrough(r)
    PROVE  /\ Len(Places(r)) \in Nat /\ DOMAIN Places(r) = 1..Len(Places(r))
           /\ \A n \in DOMAIN Places(r) : Places(r)[n] \in Seq(Place)
           /\ r.route \in {"mcp", "relay"}
           /\ r.route = "mcp" => r.tool \in Tool
           /\ r.route = "mcp" /\ r.tool \in Stamper =>
                 /\ DOMAIN authorities(r) = DOMAIN Places(r)
                 /\ authorities(r) # <<>> /\ authorities(r) \in Seq(Place)
                 /\ \A n \in DOMAIN Places(r) : Places(r)[n] # <<>>
           /\ r.route = "mcp" /\ r.tool = "upgrade_ots_proof" =>
                 /\ r.pending \in Seq(Place)
                 /\ DOMAIN Places(r) = DOMAIN r.pending
                 /\ \A n \in DOMAIN Places(r) :
                       Places(r)[n] = IF r.pending[n] \in Range(Calendar)
                                      THEN <<r.pending[n]>> ELSE <<>>
           /\ ~Limited(r) =>
                 \A n \in DOMAIN Places(r) :
                     Range(Places(r)[n]) \subseteq {"rpc", "assets"}
           /\ r.route = "mcp" /\ r.tool = "list_anchor_authorities" =>
                 Places(r) = << <<"assets">> >>
<1>1. r.route \in {"mcp", "relay"}
  BY DEF LetThrough, IsRequest
<1>2. CASE r.route = "relay"
  <2>1. Places(r) = << <<r.upstream>> >> /\ r.upstream \in Place
    BY <1>2 DEF Places, LetThrough, IsRequest
  <2> QED BY <1>2, <2>1, SinglePlace DEF Limited
<1>3. CASE r.route = "mcp"
  <2>1. r.tool \in Tool
    <3>1. Gate(r) = Refusals(r)
      BY <1>3 DEF Gate
    <3> QED BY <3>1, PassesTheEndpoint DEF LetThrough
  <2>2. IsGiven(r) /\ Spared(r) = None
    BY <1>3 DEF LetThrough, IsRequest
  <2>3. None # "error"
    BY ServerAssumption
  <2>4. CASE r.tool \in Stamper
    <3>1. authorities(r) \in Seq(Place)
      <4>1. r.tool # "create_signature_envelope" => r.authorities \in Seq(Place)
        BY <2>2, <2>4, Zenon DEF IsGiven
      <4>2. "sigstore" \in Place
        BY DEF Place, Authority
      <4> QED BY <4>1, <4>2 DEF authorities
    <3>2. authorities(r) # <<>>
      BY <2>2, <2>3, <2>4 DEF Spared, Stamper
    <3>3. Places(r) = [n \in DOMAIN authorities(r) |->
                          IF authorities(r)[n] = "opentimestamps" THEN Calendar
                          ELSE <<authorities(r)[n]>>]
      BY <1>3, <2>4 DEF Places, Stamper
    <3>4. Calendar \in Seq(Place) /\ Calendar # <<>>
      <4>1. Calendar \in Seq(Range(Calendar))
        BY DEF Calendar, Range
      <4> QED BY <4>1 DEF Calendar, Place
    <3>5. DOMAIN authorities(r) = 1..Len(authorities(r))
          /\ Len(authorities(r)) \in Nat
      BY <3>1
    <3>6. \A n \in DOMAIN Places(r) : /\ Places(r)[n] \in Seq(Place)
                                      /\ Places(r)[n] # <<>>
      BY <3>1, <3>3, <3>4
    <3>7. Len(Places(r)) = Len(authorities(r))
      <4>1. Places(r) \in [1..Len(authorities(r)) -> Seq(Place)]
        BY <3>3, <3>5, <3>6
      <4> QED BY <3>5, <4>1, FunctionIsSequence
    <3> QED BY <1>1, <1>3, <2>1, <2>4, <3>1, <3>2, <3>3, <3>5, <3>6,
               <3>7 DEF Limited, Stamper
  <2>5. CASE r.tool = "upgrade_ots_proof"
    <3>1. r.pending \in Seq(Place)
      BY <2>2, <2>5 DEF IsGiven
    <3>2. Places(r) = [n \in DOMAIN r.pending |->
                          IF r.pending[n] \in Range(Calendar)
                          THEN <<r.pending[n]>> ELSE <<>>]
      BY <1>3, <2>5 DEF Places, isAllowedOtsCalendarUrl, Stamper
    <3>3. Len(Places(r)) \in Nat /\ DOMAIN Places(r) = 1..Len(Places(r))
          /\ \A n \in DOMAIN Places(r) : Places(r)[n] \in Seq(Place)
      <4>1. Places(r) \in [1..Len(r.pending) -> Seq(Place)]
        BY <3>1, <3>2
      <4> QED BY <3>1, <4>1, FunctionIsSequence
    <3> QED BY <1>1, <1>3, <2>1, <2>5, <3>1, <3>2, <3>3 DEF Limited, Stamper
  <2>6. CASE r.tool = "verify_anchor_binding"
    <3>1. DOMAIN r.bindings = 1..Len(r.bindings) /\ Len(r.bindings) \in Nat
      BY <2>2, <2>6 DEF IsGiven
    <3>2. Places(r) = [n \in DOMAIN r.bindings |->
                          IF AsksRpc(r.bindings[n], r.rpc) THEN <<"rpc">>
                          ELSE <<>>]
      BY <1>3, <2>6 DEF Places, Stamper
    <3>3. Len(Places(r)) \in Nat /\ DOMAIN Places(r) = 1..Len(Places(r))
          /\ \A n \in DOMAIN Places(r) : Places(r)[n] \in Seq(Place)
      <4>1. Places(r) \in [1..Len(r.bindings) -> Seq(Place)]
        <5>1. <<"rpc">> \in Seq(Place) /\ <<>> \in Seq(Place)
          <6>1. "rpc" \in Place
            BY DEF Place
          <6> QED BY <6>1
        <5> QED BY <3>1, <3>2, <5>1
      <4> QED BY <3>1, <4>1, FunctionIsSequence
    <3>4. \A n \in DOMAIN Places(r) : Range(Places(r)[n]) \subseteq {"rpc"}
      BY <3>2 DEF Range
    <3> QED BY <1>1, <1>3, <2>1, <2>6, <3>3, <3>4 DEF Limited, Stamper
  <2>7. CASE r.tool = "list_anchor_authorities"
    <3>1. Places(r) = << <<"assets">> >>
      BY <1>3, <2>7 DEF Places, Stamper
    <3>2. Len(Places(r)) \in Nat /\ DOMAIN Places(r) = 1..Len(Places(r))
          /\ \A n \in DOMAIN Places(r) : Places(r)[n] \in Seq(Place)
      <4>1. "assets" \in Place
        BY DEF Place
      <4> QED BY <3>1, <4>1, SinglePlace, Zenon
    <3>3. \A n \in DOMAIN Places(r) : Range(Places(r)[n]) \subseteq {"assets"}
      BY <3>1 DEF Range
    <3> QED BY <1>1, <1>3, <2>1, <2>7, <3>1, <3>2, <3>3 DEF Limited, Stamper
  <2>8. CASE r.tool \in {"verify_signature_envelope",
                         "verify_escalation_closure"}
    <3>1. Places(r) = <<>>
      BY <1>3, <2>8 DEF Places, Stamper
    <3> QED BY <1>1, <1>3, <2>1, <2>8, <3>1 DEF Limited, Stamper
  <2> QED BY <2>1, <2>4, <2>5, <2>6, <2>7, <2>8 DEF Tool
<1> QED BY <1>1, <1>2, <1>3

\* An answer changes nothing else.
LEMMA AnswerIs ==
    ASSUME NEW call, Shaped(call), NEW reply
    PROVE  LET a == Answer(call, reply)
           IN  /\ Shaped(a) /\ a.at = "done" /\ a.req = call.req
               /\ a.log = call.log /\ a.paid = call.paid /\ a.answer = reply
BY DEF Answer, Shaped

LEMMA SayIs ==
    ASSUME NEW call, Shaped(call), IsRequest(call.req), call.req.route = "mcp",
           Grounds(Gate(call.req)) = {}, NEW body
    PROVE  LET a == Say(call, body)
           IN  /\ Shaped(a) /\ a.at = "done" /\ a.req = call.req
               /\ a.log = call.log /\ a.paid = call.paid
               /\ a.answer.body = body
               /\ AnsweredUnderItsEra(a.req, a.answer)
<1>1. Grounds(Refusals(call.req)) = {}
  BY DEF Gate
<1>2. AnsweredUnderItsEra(call.req,
                          Reply(200, 0, negotiatedVersion(call.req), body))
  BY <1>1, ToldUnderItsEra
<1>3. Reply(200, 0, negotiatedVersion(call.req), body).body = body
  BY DEF Reply
<1> DEFINE reply == Reply(200, 0, negotiatedVersion(call.req), body)
           a == Answer(call, reply)
<1>4. Say(call, body) = a
  BY DEF Say
<1>5. /\ Shaped(a) /\ a.at = "done" /\ a.req = call.req
      /\ a.log = call.log /\ a.paid = call.paid /\ a.answer = reply
  BY AnswerIs
<1> HIDE DEF a, reply
<1>6. AnsweredUnderItsEra(a.req, a.answer) /\ a.answer.body = body
  BY <1>2, <1>3, <1>5 DEF reply
<1> QED BY <1>4, <1>5, <1>6

\* Whoever was asked without a token is neither an authority nor a calendar.
LEMMA TokensArePaid ==
    ASSUME NEW call, NEW m, LetThrough(call.req), Settled(call, m)
    PROVE  Outbound(call) \subseteq {"rpc", "assets"} \/ call.paid
<1>1. CASE Limited(call.req)
  BY <1>1 DEF Settled
<1>2. CASE ~Limited(call.req)
  <2>1. \A n \in DOMAIN Places(call.req) :
            Range(Places(call.req)[n]) \subseteq {"rpc", "assets"}
    BY <1>2, PlacesOfThings
  <2>2. \A i \in DOMAIN call.log :
            /\ call.log[i].n \in DOMAIN Places(call.req)
            /\ call.log[i].at \in Range(Places(call.req)[call.log[i].n])
    BY DEF Settled
  <2>3. \A i \in DOMAIN call.log : call.log[i].at \in {"rpc", "assets"}
    BY <2>1, <2>2
  <2> QED BY <2>3 DEF Outbound
<1> QED BY <1>1, <1>2

\* The answer of a tool whose answer is not Nothing but nothing else either.
LEMMA PlainAnswer ==
    ASSUME NEW call, Shaped(call), LetThrough(call.req),
           call.req.route = "mcp", NEW m, Settled(call, m), NEW body,
           call.req.tool \notin Stamper \cup {"upgrade_ots_proof",
                                              "verify_escalation_closure"},
           body.outcome \notin {"error", "stamped"},
           call.req.tool = "verify_anchor_binding" =>
               \A e \in Range(body.results) : EntrySaid(e)
    PROVE  CallSound(Say(call, body))
<1> DEFINE a == Say(call, body)
<1>1. /\ Shaped(a) /\ a.at = "done" /\ a.req = call.req
      /\ a.log = call.log /\ a.paid = call.paid
      /\ a.answer.body = body
      /\ AnsweredUnderItsEra(a.req, a.answer)
  BY SayIs DEF LetThrough
<1>2. Outbound(call) \subseteq {"rpc", "assets"} \/ call.paid
  BY TokensArePaid
<1>3. Outcome("error").outcome = "error" /\ Nothing.outcome = "stamped"
  BY DEF Outcome, Nothing, Stamped
<1> HIDE DEF a
<1>4. Outbound(a) = Outbound(call)
  BY <1>1 DEF Outbound
<1>5. AnswersWhatItHeard(a)
  BY <1>1, <1>2, <1>3, <1>4 DEF AnswersWhatItHeard
<1>6. IsRequest(a.req)
  BY <1>1 DEF LetThrough
<1>7. CallSound(a)
  BY <1>1, <1>5, <1>6 DEF CallSound, Done
<1> QED BY <1>7 DEF a

\* Where nobody is left to ask, all things are behind.
LEMMA NobodyAhead ==
    ASSUME NEW r, LetThrough(r), NEW m \in Nat, Ahead(r, m) = {}
    PROVE  \A j \in DOMAIN Places(r) : Places(r)[j] # <<>> => j < m
<1>1. DOMAIN Places(r) \subseteq Nat
  BY PlacesOfThings
<1> QED BY <1>1 DEF Ahead

\* A stamping tool that is through has a stamp or a failure for each
\* authority it was given.
LEMMA StamperIsSound ==
    ASSUME NEW call, Shaped(call), LetThrough(call.req),
           call.req.route = "mcp", call.req.tool \in Stamper,
           NEW m \in Nat, Settled(call, m), Ahead(call.req, m) = {}
    PROVE  CallSound(Say(call, Stamped(call.bindings, call.failures)))
<1> DEFINE r == call.req
           body == Stamped(call.bindings, call.failures)
           a == Say(call, body)
           heard == HeardOf(call.log)
<1>1. /\ Shaped(a) /\ a.at = "done" /\ a.req = r
      /\ a.log = call.log /\ a.paid = call.paid
      /\ a.answer.body = body
      /\ AnsweredUnderItsEra(a.req, a.answer)
  BY SayIs DEF LetThrough
<1>2. Outbound(call) \subseteq {"rpc", "assets"} \/ call.paid
  BY TokensArePaid
<1>3. /\ body.outcome = "stamped" /\ body.bindings = call.bindings
      /\ body.failures = call.failures
  BY DEF Stamped
<1>4. /\ Outcome("error").outcome = "error"
      /\ Nothing.bindings = <<>> /\ Nothing.failures = <<>>
  BY DEF Outcome, Nothing, Stamped
<1>5. /\ DOMAIN authorities(r) = DOMAIN Places(r)
      /\ authorities(r) # <<>> /\ authorities(r) \in Seq(Place)
      /\ \A n \in DOMAIN Places(r) : n < m
  BY PlacesOfThings, NobodyAhead
<1>6. heard \subseteq DOMAIN Places(r)
  BY DEF Settled, HeardOf
<1>7. /\ IsStrictlySorted(call.bindings) /\ IsStrictlySorted(call.failures)
      /\ Range(call.bindings) = heard
      /\ Range(call.failures) = DOMAIN authorities(r) \ heard
  <2>1. /\ Range(call.bindings) = {j \in heard : j < m}
        /\ Range(call.failures) =
               {j \in DOMAIN authorities(r) : j < m} \ heard
        /\ IsStrictlySorted(call.bindings) /\ IsStrictlySorted(call.failures)
    BY DEF Settled
  <2>2. {j \in heard : j < m} = heard
    BY <1>5, <1>6
  <2>3. {j \in DOMAIN authorities(r) : j < m} = DOMAIN authorities(r)
    BY <1>5
  <2> QED BY <2>1, <2>2, <2>3
<1>8. body # Nothing
  <2>1. DOMAIN authorities(r) # {}
    <3> DEFINE s == authorities(r)
    <3> SUFFICES ASSUME DOMAIN s = {}
                 PROVE  FALSE
      OBVIOUS
    <3>1. s \in Seq(Place) /\ s # <<>>
      BY <1>5
    <3> HIDE DEF s
    <3> QED BY <3>1
  <2>2. Range(<<>>) = {}
    BY DEF Range
  <2>3. ~(call.bindings = <<>> /\ call.failures = <<>>)
    BY <1>7, <2>1, <2>2
  <2> QED BY <1>3, <1>4, <2>3
<1> HIDE DEF a, body
<1>9. Outbound(a) = Outbound(call) /\ HeardOf(a.log) = heard
  BY <1>1 DEF Outbound
<1>10. AnswersWhatItHeard(a)
  <2>1. r.tool \notin {"upgrade_ots_proof", "verify_escalation_closure"}
    BY DEF Stamper
  <2>2. body # Outcome("error")
    BY <1>3, <1>4
  <2> QED BY <1>1, <1>2, <1>3, <1>7, <1>8, <1>9, <2>1, <2>2
          DEF AnswersWhatItHeard, HeardOf
<1>11. IsRequest(a.req) /\ a.req.tool # "verify_anchor_binding"
  BY <1>1 DEF LetThrough, Stamper
<1>12. CallSound(a)
  BY <1>1, <1>10, <1>11 DEF CallSound, Done
<1> QED BY <1>12 DEF a, body

\* An upgrade asks the calendars among the pending branches, each once it
\* comes to it, and nobody else.
LEMMA UpgradeAsksCalendars ==
    ASSUME NEW call, LetThrough(call.req), call.req.route = "mcp",
           call.req.tool = "upgrade_ots_proof", NEW m \in Nat, Settled(call, m)
    PROVE  /\ Outbound(call) \subseteq
                  Range(call.req.pending) \cap Range(Calendar)
           /\ Ahead(call.req, m) = {} /\ HeardOf(call.log) = {} =>
                  Outbound(call) = Range(call.req.pending) \cap Range(Calendar)
<1> DEFINE r == call.req
<1>1. /\ r.pending \in Seq(Place)
      /\ DOMAIN Places(r) = DOMAIN r.pending
      /\ \A n \in DOMAIN Places(r) :
            Places(r)[n] = IF r.pending[n] \in Range(Calendar)
                           THEN <<r.pending[n]>> ELSE <<>>
  BY PlacesOfThings
<1>2. ASSUME NEW i \in DOMAIN call.log
      PROVE  call.log[i].at \in Range(r.pending) \cap Range(Calendar)
  <2> DEFINE n == call.log[i].n
             at == call.log[i].at
  <2>1. n \in DOMAIN Places(r) /\ at \in Range(Places(r)[n])
    BY DEF Settled
  <2> HIDE DEF n, at
  <2>2. CASE r.pending[n] \in Range(Calendar)
    <3>1. Places(r)[n] = <<r.pending[n]>>
      BY <1>1, <2>1, <2>2
    <3>2. at = r.pending[n]
      BY <2>1, <3>1 DEF Range
    <3>3. r.pending[n] \in Range(r.pending)
      BY <1>1, <2>1 DEF Range
    <3> QED BY <2>2, <3>2, <3>3 DEF at
  <2>3. CASE r.pending[n] \notin Range(Calendar)
    <3>1. Places(r)[n] = <<>>
      BY <1>1, <2>1, <2>3
    <3> QED BY <2>1, <3>1 DEF Range
  <2> QED BY <2>2, <2>3
<1>3. Outbound(call) \subseteq Range(r.pending) \cap Range(Calendar)
  BY <1>2 DEF Outbound
<1>4. ASSUME Ahead(r, m) = {}, HeardOf(call.log) = {}
      PROVE  Range(r.pending) \cap Range(Calendar) \subseteq Outbound(call)
  <2> SUFFICES ASSUME NEW j \in DOMAIN r.pending,
                      r.pending[j] \in Range(Calendar)
               PROVE  r.pending[j] \in Outbound(call)
    BY DEF Range
  <2>1. Places(r)[j] = <<r.pending[j]>>
    BY <1>1
  <2>2. j < m
    <3>1. Places(r)[j] # <<>> /\ j \in DOMAIN Places(r)
      BY <1>1, <2>1
    <3> QED BY <1>4, <3>1, NobodyAhead
  <2> QED BY <1>4, <2>2 DEF Settled
<1> QED BY <1>3, <1>4

LEMMA UpgradeIsSound ==
    ASSUME NEW call, Shaped(call), LetThrough(call.req),
           call.req.route = "mcp", call.req.tool = "upgrade_ots_proof",
           NEW m \in Nat, Settled(call, m), Ahead(call.req, m) = {},
           NEW word,
           word = IF call.log = <<>> THEN "error"
                  ELSE IF HeardOf(call.log) # {} THEN "completed"
                  ELSE "pending"
    PROVE  CallSound(Say(call, Outcome(word)))
<1> DEFINE r == call.req
           body == Outcome(word)
           a == Say(call, body)
           heard == HeardOf(call.log)
<1>1. /\ Shaped(a) /\ a.at = "done" /\ a.req = r
      /\ a.log = call.log /\ a.paid = call.paid
      /\ a.answer.body = body
      /\ AnsweredUnderItsEra(a.req, a.answer)
  BY SayIs DEF LetThrough
<1>2. Outbound(call) \subseteq {"rpc", "assets"} \/ call.paid
  BY TokensArePaid
<1>3. body.outcome = word /\ Outcome("error").outcome = "error"
      /\ Nothing.outcome = "stamped"
  BY DEF Outcome, Nothing, Stamped
<1>4. r.parses /\ ~r.attested
  <2>1. None \notin {"error", "completed"}
    BY ServerAssumption
  <2>2. Spared(r) = None
    BY DEF LetThrough
  <2>3. Spared(r) = IF ~r.parses THEN "error"
                    ELSE IF r.attested THEN "completed"
                    ELSE IF r.pending = <<>> THEN "error" ELSE None
    BY DEF Spared, Stamper
  <2> QED BY <2>1, <2>2, <2>3
<1>5. call.log = <<>> => heard = {}
  BY DEF HeardOf
<1>6. /\ Outbound(call) \subseteq Range(Calendar)
      /\ heard = {} =>
             Outbound(call) = Range(r.pending) \cap Range(Calendar)
  BY UpgradeAsksCalendars
<1> HIDE DEF a, body
<1>7. Outbound(a) = Outbound(call) /\ HeardOf(a.log) = heard
  BY <1>1 DEF Outbound
<1>8. /\ word = "completed" <=> heard # {}
      /\ word = "pending" => heard = {}
      /\ word = "error" => call.log = <<>>
      /\ word \in {"completed", "pending", "error"}
  <2>1. (word = "completed" <=> heard # {}) \/ word = "error"
    OBVIOUS
  <2> QED BY <1>5
<1>9. AnswersWhatItHeard(a)
  <2>1. r.tool \notin {"create_signature_envelope",
                       "verify_escalation_closure"}
    OBVIOUS
  <2>2. body = Outcome("error") => call.log = <<>>
    BY <1>3, <1>8
  <2>3. body # Nothing /\ body.outcome # "stamped"
    BY <1>3, <1>8
  <2>4. /\ body.outcome = "completed" <=>
               r.parses /\ (r.attested \/ HeardOf(a.log) # {})
        /\ body.outcome = "pending" =>
               Outbound(a) = Range(r.pending) \cap Range(Calendar)
        /\ Outbound(a) \subseteq Range(Calendar)
    <3> HIDE DEF heard
    <3> QED BY <1>3, <1>4, <1>6, <1>7, <1>8
  <2> HIDE DEF heard
  <2> QED BY <1>1, <1>2, <1>7, <2>1, <2>2, <2>3, <2>4
          DEF AnswersWhatItHeard, HeardOf
<1>10. IsRequest(a.req) /\ a.req.tool # "verify_anchor_binding"
  BY <1>1 DEF LetThrough
<1>11. CallSound(a)
  BY <1>1, <1>9, <1>10 DEF CallSound, Done
<1> QED BY <1>11 DEF a, body

\* A closure is valid when everything is over one hash, and that is the one
\* of the first order.
LEMMA ClosureIsOfOneHash ==
    ASSUME NEW k, k.decided \in BOOLEAN
    PROVE  /\ verifyEscalationClosure(k) = "valid" <=>
                  /\ {k.recordHash, k.digest, k.signed}
                     \cup ({k.ownHash} \ {None}) = {k.rfc8785}
                  /\ k.decided
           /\ verifyEscalationClosure(k) \in
                  {"valid", "invalid", "valid-legacy-order"}
BY DEF verifyEscalationClosure

LEMMA ClosureIsSound ==
    ASSUME NEW call, Shaped(call), LetThrough(call.req),
           call.req.route = "mcp",
           call.req.tool = "verify_escalation_closure",
           NEW m \in Nat, Settled(call, m)
    PROVE  CallSound(Say(call,
                         Outcome(verifyEscalationClosure(call.req.closure))))
<1> DEFINE r == call.req
           word == verifyEscalationClosure(r.closure)
           body == Outcome(word)
           a == Say(call, body)
<1>1. /\ Shaped(a) /\ a.at = "done" /\ a.req = r
      /\ a.log = call.log /\ a.paid = call.paid
      /\ a.answer.body = body
      /\ AnsweredUnderItsEra(a.req, a.answer)
  BY SayIs DEF LetThrough
<1>2. Outbound(call) \subseteq {"rpc", "assets"} \/ call.paid
  BY TokensArePaid
<1>3. body.outcome = word /\ Outcome("error").outcome = "error"
      /\ Nothing.outcome = "stamped"
  BY DEF Outcome, Nothing, Stamped
<1>4. r.complete /\ r.closure.decided \in BOOLEAN
  <2>1. None # "error" /\ Spared(r) = None
    BY ServerAssumption DEF LetThrough
  <2>2. r.complete
    BY <2>1 DEF Spared, Stamper
  <2>3. {r.complete, r.closure.decided} \subseteq BOOLEAN
    BY Zenon DEF LetThrough, IsRequest, IsGiven
  <2> QED BY <2>2, <2>3
<1>5. /\ word = "valid" <=>
             /\ {r.closure.recordHash, r.closure.digest, r.closure.signed}
                \cup ({r.closure.ownHash} \ {None}) = {r.closure.rfc8785}
             /\ r.closure.decided
      /\ word \in {"valid", "invalid", "valid-legacy-order"}
  BY SMTT(15), <1>4, ClosureIsOfOneHash
<1> HIDE DEF a, body, word
<1>6. Outbound(a) = Outbound(call)
  BY <1>1 DEF Outbound
<1>7. AnswersWhatItHeard(a)
  <2>1. r.tool \notin {"create_signature_envelope", "upgrade_ots_proof"}
    OBVIOUS
  <2>2. body # Outcome("error") /\ body # Nothing /\ body.outcome # "stamped"
    BY <1>3, <1>5
  <2>3. Outbound(a) \subseteq {"rpc", "assets"} \/ a.paid
    BY <1>1, <1>2, <1>6
  <2>4. LET k == a.req.closure
            over == {k.recordHash, k.digest, k.signed} \cup ({k.ownHash} \ {None})
        IN body.outcome = "valid" <=>
               a.req.complete /\ over = {k.rfc8785} /\ k.decided
    BY <1>1, <1>3, <1>4, <1>5
  <2>5. a.answer.body = body /\ a.req.tool = r.tool
    BY <1>1
  <2> HIDE DEF r
  <2> QED BY <2>1, <2>2, <2>3, <2>4, <2>5, Zenon DEF AnswersWhatItHeard
<1>8. IsRequest(a.req) /\ a.req.tool # "verify_anchor_binding"
  BY <1>1 DEF LetThrough
<1>9. CallSound(a)
  BY <1>1, <1>7, <1>8 DEF CallSound, Done
<1> QED BY <1>9 DEF a, body, word

\* An answer without a body tells nothing of the outside.
LEMMA SilentAnswer ==
    ASSUME NEW call, Shaped(call), IsRequest(call.req), NEW reply,
           reply.body = None,
           Outbound(call) \subseteq {"rpc", "assets"} \/ call.paid,
           call.req.route = "mcp" => AnsweredUnderItsEra(call.req, reply)
    PROVE  CallSound(Answer(call, reply))
<1> DEFINE a == Answer(call, reply)
<1>1. /\ Shaped(a) /\ a.at = "done" /\ a.req = call.req
      /\ a.log = call.log /\ a.paid = call.paid /\ a.answer = reply
  BY AnswerIs
<1> HIDE DEF a
<1>2. Outbound(a) = Outbound(call)
  BY <1>1 DEF Outbound
<1>3. AnswersWhatItHeard(a)
  BY <1>1, <1>2 DEF AnswersWhatItHeard
<1>4. CallSound(a)
  BY <1>1, <1>3 DEF CallSound, Done
<1> QED BY <1>4 DEF a

\* The entries of a verification.
LEMMA ResultsAreTrue ==
    ASSUME NEW r, LetThrough(r), r.route = "mcp",
           r.tool = "verify_anchor_binding", NEW log
    PROVE  \A e \in Range(verifyAnchorBinding(r, log)) : EntrySaid(e)
<1>1. r.rpc \in BOOLEAN /\ \A n \in DOMAIN r.bindings : IsBinding(r.bindings[n])
  BY Zenon DEF LetThrough, IsRequest, IsGiven
<1> SUFFICES ASSUME NEW n \in DOMAIN r.bindings
             PROVE  EntrySaid(verifyAnchorBinding(r, log)[n])
  BY Zenon DEF Range, verifyAnchorBinding
<1>2. \E got : verifyAnchorBinding(r, log)[n] = Entry(r.bindings[n], r.rpc, got)
  BY Zenon DEF verifyAnchorBinding
<1> QED BY <1>1, <1>2, EntriesAreTrue

\* What a call says once there is nobody left to ask.
LEMMA ToldIsSound ==
    ASSUME NEW call, Shaped(call), LetThrough(call.req),
           NEW m \in Nat, Settled(call, m), Ahead(call.req, m) = {}, NEW got,
           call.req.route = "mcp" /\ call.req.tool = "list_anchor_authorities"
               => got \in {"ok", "refused", "none"}
    PROVE  CallSound(Told(call, got))
<1> DEFINE r == call.req
<1>1. r.route \in {"mcp", "relay"} /\ (r.route = "mcp" => r.tool \in Tool)
  BY PlacesOfThings
<1>2. CASE r.route = "relay"
  <2> DEFINE reply == Reply(CASE got = "ok" -> 200
                              [] got = "refused" -> 502
                              [] OTHER -> 504, 0, None, None)
  <2>1. Told(call, got) = Answer(call, reply)
    BY <1>2 DEF Told
  <2>2. reply.body = None
    BY DEF Reply
  <2>3. call.paid
    BY <1>2 DEF Settled, Limited
  <2> HIDE DEF reply
  <2>4. IsRequest(r)
    BY DEF LetThrough
  <2>5. CallSound(Answer(call, reply))
    BY <1>2, <2>2, <2>3, <2>4, SilentAnswer
  <2> QED BY <2>1, <2>5
<1>3. CASE r.route = "mcp" /\ r.tool \in Stamper
  <2>1. Told(call, got) = Say(call, Stamped(call.bindings, call.failures))
    BY <1>3 DEF Told, Stamper
  <2> QED BY <1>3, <2>1, StamperIsSound
<1>4. CASE r.route = "mcp" /\ r.tool = "upgrade_ots_proof"
  <2> DEFINE word == IF call.log = <<>> THEN "error"
                     ELSE IF HeardOf(call.log) # {} THEN "completed"
                     ELSE "pending"
  <2>1. (\E i \in DOMAIN call.log : call.log[i].got = "ok")
            <=> HeardOf(call.log) # {}
    BY DEF HeardOf
  <2>2. Told(call, got) = Say(call, Outcome(word))
    BY <1>4, <2>1 DEF Told, Stamper
  <2> HIDE DEF word
  <2>3. CallSound(Say(call, Outcome(word)))
    BY <1>4, UpgradeIsSound DEF word
  <2> QED BY <2>2, <2>3
<1>5. CASE r.route = "mcp" /\ r.tool = "verify_anchor_binding"
  <2> DEFINE body == [outcome |-> "verified",
                      results |-> verifyAnchorBinding(r, call.log)]
  <2>1. Told(call, got) = Say(call, body)
    BY <1>5 DEF Told, Stamper
  <2>2. body.outcome = "verified" /\ body.results = verifyAnchorBinding(r, call.log)
    OBVIOUS
  <2>3. \A e \in Range(verifyAnchorBinding(r, call.log)) : EntrySaid(e)
    BY <1>5, ResultsAreTrue
  <2>4. r.tool \notin Stamper \cup {"upgrade_ots_proof",
                                    "verify_escalation_closure"}
    BY <1>5 DEF Stamper
  <2> HIDE DEF body
  <2>5. CallSound(Say(call, body))
    BY <1>5, <2>2, <2>3, <2>4, PlainAnswer
  <2> QED BY <2>1, <2>5
<1>6. CASE r.route = "mcp" /\ r.tool = "list_anchor_authorities"
  <2>1. Told(call, got) = Say(call, Outcome(got))
    BY <1>6 DEF Told, Stamper
  <2>2. Outcome(got).outcome \notin {"error", "stamped"}
    BY <1>6 DEF Outcome
  <2>3. r.tool \notin Stamper \cup {"upgrade_ots_proof",
                                    "verify_escalation_closure",
                                    "verify_anchor_binding"}
    BY <1>6 DEF Stamper
  <2> QED BY <1>6, <2>1, <2>2, <2>3, PlainAnswer
<1>7. CASE r.route = "mcp" /\ r.tool = "verify_signature_envelope"
  <2> DEFINE body == verifySignatureEnvelope(r.signatures)
  <2>1. Told(call, got) = Say(call, body)
    BY <1>7 DEF Told, Stamper
  <2>2. body.outcome = "verified"
    BY DEF verifySignatureEnvelope
  <2>3. r.tool \notin Stamper \cup {"upgrade_ots_proof",
                                    "verify_escalation_closure",
                                    "verify_anchor_binding"}
    BY <1>7 DEF Stamper
  <2> HIDE DEF body
  <2>4. CallSound(Say(call, body))
    BY <1>7, <2>2, <2>3, PlainAnswer
  <2> QED BY <2>1, <2>4
<1>8. CASE r.route = "mcp" /\ r.tool = "verify_escalation_closure"
  <2>1. Told(call, got) =
            Say(call, Outcome(verifyEscalationClosure(r.closure)))
    BY <1>8 DEF Told, Stamper
  <2> QED BY <1>8, <2>1, ClosureIsSound
<1> QED BY <1>1, <1>2, <1>3, <1>4, <1>5, <1>6, <1>7, <1>8 DEF Tool

\* On to the next thing somebody is asked about, over those nobody is.
LEMMA ProceedIsSound ==
    ASSUME NEW call, Shaped(call), LetThrough(call.req),
           NEW m \in Nat, Settled(call, m), NEW got,
           \/ got \in {"ok", "refused", "none"}
           \/ Ahead(call.req, m) # {}
           \/ call.req.tool # "list_anchor_authorities"
    PROVE  CallSound(Proceed(call, m, got))
<1> DEFINE r == call.req
           next == Proceed(call, m, got)
           n == Min(Ahead(r, m))
<1>1. CASE Ahead(r, m) = {}
  <2>1. next = Told(call, got)
    BY <1>1 DEF Proceed
  <2> QED BY <1>1, <2>1, ToldIsSound
<1>2. CASE Ahead(r, m) # {}
  <2>1. /\ DOMAIN Places(r) \subseteq Nat
        /\ \A j \in DOMAIN Places(r) : Places(r)[j] \in Seq(Place)
    BY PlacesOfThings
  <2>2. n \in Ahead(r, m) /\ \A j \in Ahead(r, m) : n <= j
    <3>1. Ahead(r, m) \in SUBSET Nat
      BY <2>1 DEF Ahead
    <3> QED BY <1>2, <3>1, MinIsLeast
  <2>3. next = [call EXCEPT !.at = "out", !.n = n, !.k = 1]
    BY <1>2 DEF Proceed
  <2> HIDE DEF n, next
  <2>4. /\ n \in DOMAIN Places(r) /\ n >= m /\ Places(r)[n] # <<>> /\ n \in Nat
        /\ \A j \in DOMAIN Places(r) : m <= j /\ j < n => Places(r)[j] = <<>>
    BY <2>1, <2>2 DEF Ahead
  <2>5. /\ Shaped(next) /\ next.at = "out" /\ next.n = n /\ next.k = 1
        /\ next.req = r /\ next.log = call.log /\ next.paid = call.paid
        /\ next.bindings = call.bindings /\ next.failures = call.failures
    BY <2>3 DEF Shaped
  <2>6. 1 \in 1..Len(Places(r)[n])
    <3> DEFINE s == Places(r)[n]
    <3>1. s \in Seq(Place) /\ s # <<>>
      BY <2>1, <2>4
    <3> HIDE DEF s
    <3>2. Len(s) \in Nat /\ Len(s) # 0
      BY <3>1
    <3>3. 1 \in 1..Len(s)
      BY <3>2
    <3> QED BY <3>3 DEF s
  <2>7. Outbound(next) = Outbound(call)
    BY <2>5 DEF Outbound
  <2>8. ASSUME r.route = "mcp", r.tool \in Stamper
        PROVE  /\ {j \in HeardOf(call.log) : j < m}
                      = {j \in HeardOf(call.log) : j < n}
               /\ {j \in DOMAIN authorities(r) : j < m}
                      = {j \in DOMAIN authorities(r) : j < n}
    <3>1. /\ DOMAIN authorities(r) = DOMAIN Places(r)
          /\ \A j \in DOMAIN Places(r) : Places(r)[j] # <<>>
      BY <2>8, PlacesOfThings
    <3>2. \A j \in DOMAIN Places(r) : j < m <=> j < n
      BY <2>1, <2>4, <3>1
    <3>3. HeardOf(call.log) \subseteq DOMAIN Places(r)
      BY DEF HeardOf, Settled
    <3> QED BY <3>1, <3>2, <3>3
  <2>9. ASSUME r.route = "mcp", r.tool = "upgrade_ots_proof",
               HeardOf(call.log) = {},
               NEW j \in DOMAIN r.pending, j < n,
               r.pending[j] \in Range(Calendar)
        PROVE  r.pending[j] \in Outbound(call)
    <3>1. j \in DOMAIN Places(r) /\ Places(r)[j] = <<r.pending[j]>>
      BY <2>9, PlacesOfThings
    <3>2. Places(r)[j] # <<>> /\ j \in Nat
      BY <2>1, <3>1
    <3>3. j < m
      <4>1. j \in Nat /\ m \in Nat /\ (j < m \/ m <= j)
        BY <3>2
      <4>2. m <= j => Places(r)[j] = <<>>
        BY <2>4, <2>9, <3>1
      <4> QED BY <3>2, <4>1, <4>2
    <3> QED BY <2>9, <3>3 DEF Settled
  <2>10. Settled(next, n)
    <3>1. /\ call.log \in Seq(Answered)
          /\ \A i \in DOMAIN call.log :
                /\ call.log[i].n \in DOMAIN Places(r)
                /\ call.log[i].at \in Range(Places(r)[call.log[i].n])
          /\ Limited(r) => call.paid
      BY DEF Settled
    <3>2. r.route = "mcp" /\ r.tool \in Stamper =>
              /\ call.bindings \in Seq(Nat) /\ call.failures \in Seq(Nat)
              /\ IsStrictlySorted(call.bindings)
              /\ IsStrictlySorted(call.failures)
              /\ Range(call.bindings) = {j \in HeardOf(call.log) : j < n}
              /\ Range(call.failures) =
                     {j \in DOMAIN authorities(r) : j < n} \ HeardOf(call.log)
      BY <2>8 DEF Settled
    <3> QED BY <2>5, <2>7, <2>9, <3>1, <3>2 DEF Settled
  <2>11. Out(next)
    BY <2>4, <2>5, <2>6, <2>10 DEF Out
  <2>12. CallSound(next)
    BY <2>5, <2>11 DEF CallSound
  <2> QED BY <2>12 DEF next
<1> QED BY <1>1, <1>2

\* A list in order stays so when something later is added.
LEMMA AppendSorted ==
    ASSUME NEW s \in Seq(Nat), IsStrictlySorted(s), NEW n \in Nat,
           \A j \in Range(s) : j < n
    PROVE  /\ Append(s, n) \in Seq(Nat) /\ IsStrictlySorted(Append(s, n))
           /\ Range(Append(s, n)) = Range(s) \cup {n}
<1> DEFINE t == Append(s, n)
<1>1. /\ Len(s) \in Nat /\ DOMAIN s = 1..Len(s) /\ DOMAIN t = 1..Len(s) + 1
      /\ t \in Seq(Nat) /\ t[Len(s) + 1] = n
      /\ \A i \in 1..Len(s) : t[i] = s[i]
  OBVIOUS
<1> HIDE DEF t
<1>2. \A i \in DOMAIN s : s[i] < n
  BY DEF Range
<1>3. IsStrictlySorted(t)
  <2> SUFFICES ASSUME NEW i \in DOMAIN t, NEW j \in DOMAIN t, i < j
               PROVE  t[i] < t[j]
    BY DEF IsStrictlySorted
  <2>1. i \in DOMAIN s /\ (j \in DOMAIN s \/ j = Len(s) + 1)
    BY <1>1
  <2> QED BY <1>1, <1>2, <2>1 DEF IsStrictlySorted
<1>4. Range(t) = Range(s) \cup {n}
  <2>1. ASSUME NEW x \in Range(t)
        PROVE  x \in Range(s) \cup {n}
    <3>1. PICK i \in DOMAIN t : x = t[i]
      BY DEF Range
    <3> QED BY <1>1, <3>1 DEF Range
  <2>2. ASSUME NEW x \in Range(s) \cup {n}
        PROVE  x \in Range(t)
    <3>1. CASE x = n
      <4>1. Len(s) + 1 \in DOMAIN t
        BY <1>1
      <4> QED BY <1>1, <3>1, <4>1 DEF Range
    <3>2. CASE x \in Range(s)
      <4>1. PICK i \in DOMAIN s : x = s[i]
        BY <3>2 DEF Range
      <4>2. i \in DOMAIN t /\ t[i] = x
        BY <1>1, <4>1
      <4> QED BY <4>2 DEF Range
    <3> QED BY <3>1, <3>2, <2>2
  <2> QED BY <2>1, <2>2
<1> QED BY <1>1, <1>3, <1>4 DEF t

\* What one more answer adds to what was heard.
LEMMA OneMoreAnswer ==
    ASSUME NEW old \in Seq(Answered), NEW e \in Answered
    PROVE  /\ Append(old, e) \in Seq(Answered)
           /\ \A i \in DOMAIN Append(old, e) :
                 \/ Append(old, e)[i] = e
                 \/ i \in DOMAIN old /\ Append(old, e)[i] = old[i]
           /\ \A i \in DOMAIN old :
                 i \in DOMAIN Append(old, e) /\ Append(old, e)[i] = old[i]
           /\ \E i \in DOMAIN Append(old, e) : Append(old, e)[i] = e
           /\ HeardOf(Append(old, e)) =
                  HeardOf(old) \cup (IF e.got = "ok" THEN {e.n} ELSE {})
<1> DEFINE log == Append(old, e)
<1>1. log \in Seq(Answered)
  OBVIOUS
<1>2. /\ Len(old) \in Nat /\ DOMAIN old = 1..Len(old)
      /\ DOMAIN log = 1..Len(old) + 1 /\ log[Len(old) + 1] = e
      /\ \A i \in 1..Len(old) : log[i] = old[i]
  OBVIOUS
<1> HIDE DEF log
<1>3. \A i \in DOMAIN log : \/ log[i] = e
                            \/ i \in DOMAIN old /\ log[i] = old[i]
  BY <1>2
<1>4. \A i \in DOMAIN old : i \in DOMAIN log /\ log[i] = old[i]
  BY <1>2
<1>5. \E i \in DOMAIN log : log[i] = e
  <2>1. Len(old) + 1 \in DOMAIN log
    BY <1>2
  <2> QED BY <1>2, <2>1
<1>6. HeardOf(log) = HeardOf(old) \cup (IF e.got = "ok" THEN {e.n} ELSE {})
  BY <1>3, <1>4, <1>5 DEF HeardOf
<1> QED BY <1>1, <1>3, <1>4, <1>5, <1>6 DEF log

\* One answer from outside.
LEMMA OutsideIsSound ==
    ASSUME NEW c \in Call, NEW got \in {"ok", "refused", "none"},
           CallsSound, calls[c] # Idle, Outside(c, got)
    PROVE  CallSound(calls'[c])
<1> DEFINE call == calls[c]
           r == call.req
           n == call.n
           places == Places(r)
           at == places[n][call.k]
           e == [n |-> n, at |-> at, got |-> got]
           log == Append(call.log, e)
           enough == Heard(log, n) >= Needed(r, n)
           through == enough \/ call.k = Len(places[n])
           upgraded == enough /\ r.route = "mcp" /\ r.tool = "upgrade_ots_proof"
           after == Recorded(call, log, through)
           m == IF upgraded THEN Len(places) + 1 ELSE n + 1
           next == IF ~through THEN [after EXCEPT !.k = @ + 1]
                   ELSE Proceed(after, m, got)
<1>1. calls'[c] = next
  BY DEF Outside, CallsSound
<1>2. Shaped(call) /\ Out(call)
  BY DEF CallsSound, CallSound, Outside, Waiting, Done
<1> HIDE DEF call
<1>3. /\ Len(places) \in Nat /\ DOMAIN places = 1..Len(places)
      /\ n \in DOMAIN places /\ n \in Nat /\ places[n] \in Seq(Place)
      /\ call.k \in 1..Len(places[n]) /\ call.k \in Nat
  <2>1. /\ Len(places) \in Nat /\ DOMAIN places = 1..Len(places)
        /\ \A i \in DOMAIN places : places[i] \in Seq(Place)
    BY <1>2, PlacesOfThings DEF Out
  <2>2. n \in DOMAIN places /\ call.k \in 1..Len(places[n])
    BY <1>2 DEF Out
  <2> QED BY <2>1, <2>2
<1>4. at \in Place /\ at \in Range(places[n])
  <2>1. call.k \in DOMAIN places[n]
    BY <1>3
  <2>2. at \in Place
    BY <1>3, <2>1
  <2> QED BY <2>1, <2>2 DEF Range
<1>5. e \in Answered /\ e.n = n /\ e.at = at /\ e.got = got
  BY <1>3, <1>4 DEF Answered
<1>6. call.log \in Seq(Answered)
  BY <1>2 DEF Out, Settled
<1>7. /\ log \in Seq(Answered)
      /\ \A i \in DOMAIN log :
            \/ log[i] = e
            \/ i \in DOMAIN call.log /\ log[i] = call.log[i]
      /\ \A i \in DOMAIN call.log : i \in DOMAIN log /\ log[i] = call.log[i]
      /\ \E i \in DOMAIN log : log[i] = e
      /\ HeardOf(log) =
             HeardOf(call.log) \cup (IF got = "ok" THEN {n} ELSE {})
  <2> HIDE DEF e
  <2> QED BY <1>5, <1>6, OneMoreAnswer
<1> HIDE DEF at, e, log, places
<1>8. /\ \A i \in DOMAIN log : /\ log[i].n \in DOMAIN places
                               /\ log[i].at \in Range(places[log[i].n])
      /\ {log[i].at : i \in DOMAIN log} = Outbound(call) \cup {at}
  <2>1. \A i \in DOMAIN call.log :
            /\ call.log[i].n \in DOMAIN places
            /\ call.log[i].at \in Range(places[call.log[i].n])
    BY <1>2 DEF Out, Settled, places
  <2>2. {log[i].at : i \in DOMAIN log} = Outbound(call) \cup {at}
    BY <1>5, <1>7 DEF Outbound
  <2> QED BY <1>3, <1>4, <1>5, <1>7, <2>1, <2>2
<1>9. Heard(log, n) \in Nat /\ (Heard(log, n) > 0 <=> n \in HeardOf(log))
  BY <1>7, HeardSome
<1>10. /\ Shaped(after) /\ after.at = "out" /\ after.req = r /\ after.n = n
       /\ after.k = call.k /\ after.log = log /\ after.paid = call.paid
       /\ after.bindings = IF through /\ n \in HeardOf(log)
                           THEN Append(call.bindings, n) ELSE call.bindings
       /\ after.failures = IF through /\ n \notin HeardOf(log)
                           THEN Append(call.failures, n) ELSE call.failures
  <2> HIDE DEF through
  <2>1. call.at = "out"
    BY <1>2 DEF Out
  <2> QED BY <1>2, <1>9, <2>1 DEF Recorded, Shaped
<1> HIDE DEF after
<1>11. Outbound(after) = Outbound(call) \cup {at}
  BY <1>8, <1>10 DEF Outbound
<1>12. /\ LetThrough(r) /\ Settled(call, n)
  BY <1>2 DEF Out
<1>13. /\ {j \in HeardOf(log) : j < n} = {j \in HeardOf(call.log) : j < n}
       /\ {j \in DOMAIN authorities(r) : j < n} \ HeardOf(log)
              = {j \in DOMAIN authorities(r) : j < n} \ HeardOf(call.log)
  BY <1>3, <1>7
<1>14. CASE ~through
  <2> DEFINE more == [after EXCEPT !.k = @ + 1]
  <2>1. /\ Shaped(more) /\ more.at = "out" /\ more.req = r /\ more.n = n
        /\ more.k = call.k + 1 /\ more.log = log /\ more.paid = call.paid
        /\ more.bindings = call.bindings /\ more.failures = call.failures
    <3> HIDE DEF through
    <3> QED BY <1>10, <1>14 DEF Shaped
  <2>2. more.k \in 1..Len(places[n])
    BY <1>3, <1>14, <2>1
  <2> HIDE DEF more, through
  <2>3. Outbound(more) = Outbound(call) \cup {at}
    BY <1>8, <2>1 DEF Outbound
  <2>4. Settled(more, n)
    <3>1. r.route = "mcp" /\ r.tool \in Stamper =>
              /\ call.bindings \in Seq(Nat) /\ call.failures \in Seq(Nat)
              /\ IsStrictlySorted(call.bindings)
              /\ IsStrictlySorted(call.failures)
              /\ Range(call.bindings) = {j \in HeardOf(log) : j < n}
              /\ Range(call.failures) =
                     {j \in DOMAIN authorities(r) : j < n} \ HeardOf(log)
      BY <1>12, <1>13 DEF Settled
    <3>2. r.route = "mcp" /\ r.tool = "upgrade_ots_proof" =>
              \/ HeardOf(log) # {}
              \/ \A j \in DOMAIN r.pending :
                    j < n /\ r.pending[j] \in Range(Calendar) =>
                        r.pending[j] \in Outbound(more)
      BY <1>7, <1>12, <2>3 DEF Settled
    <3>3. Limited(r) => call.paid
      BY <1>12 DEF Settled
    <3> QED BY <1>7, <1>8, <2>1, <3>1, <3>2, <3>3 DEF Settled, places
  <2>5. CallSound(more)
    BY <1>3, <1>12, <2>1, <2>2, <2>4 DEF CallSound, Out, places
  <2>6. next = more
    BY <1>14 DEF more
  <2> QED BY <1>1, <2>5, <2>6
<1>15. CASE through
  <2>1. m \in Nat
    BY <1>3
  <2>2. ASSUME r.route = "mcp", r.tool \in Stamper
        PROVE  /\ after.bindings \in Seq(Nat) /\ after.failures \in Seq(Nat)
               /\ IsStrictlySorted(after.bindings)
               /\ IsStrictlySorted(after.failures)
               /\ Range(after.bindings) = {j \in HeardOf(log) : j < m}
               /\ Range(after.failures) =
                      {j \in DOMAIN authorities(r) : j < m} \ HeardOf(log)
    <3>1. m = n + 1
      BY <2>2 DEF Stamper
    <3>2. /\ call.bindings \in Seq(Nat) /\ call.failures \in Seq(Nat)
          /\ IsStrictlySorted(call.bindings) /\ IsStrictlySorted(call.failures)
          /\ Range(call.bindings) = {j \in HeardOf(log) : j < n}
          /\ Range(call.failures) =
                 {j \in DOMAIN authorities(r) : j < n} \ HeardOf(log)
      BY <1>12, <1>13, <2>2 DEF Settled
    <3>3. DOMAIN authorities(r) = DOMAIN places
      BY <1>12, <2>2, PlacesOfThings DEF places
    <3>4. HeardOf(log) \subseteq DOMAIN places
      BY <1>8 DEF HeardOf
    <3>5. /\ {j \in HeardOf(log) : j < n + 1} =
                 {j \in HeardOf(log) : j < n}
                 \cup (IF n \in HeardOf(log) THEN {n} ELSE {})
          /\ {j \in DOMAIN authorities(r) : j < n + 1} \ HeardOf(log) =
                 ({j \in DOMAIN authorities(r) : j < n} \ HeardOf(log))
                 \cup (IF n \in HeardOf(log) THEN {} ELSE {n})
      BY <1>3, <3>3, <3>4
    <3> HIDE DEF through, m
    <3>6. CASE n \in HeardOf(log)
      <4>1. /\ after.bindings = Append(call.bindings, n)
            /\ after.failures = call.failures
        BY <1>10, <1>15, <3>6
      <4> QED BY <1>3, <3>1, <3>2, <3>5, <3>6, <4>1, AppendSorted
    <3>7. CASE n \notin HeardOf(log)
      <4>1. /\ after.bindings = call.bindings
            /\ after.failures = Append(call.failures, n)
        BY <1>10, <1>15, <3>7
      <4> QED BY <1>3, <3>1, <3>2, <3>5, <3>7, <4>1, AppendSorted
    <3> QED BY <3>6, <3>7
  <2>3. ASSUME r.route = "mcp", r.tool = "upgrade_ots_proof",
               HeardOf(log) = {},
               NEW j \in DOMAIN r.pending, j < m,
               r.pending[j] \in Range(Calendar)
        PROVE  r.pending[j] \in Outbound(after)
    <3>1. ~enough
      <4>1. Needed(r, n) = 1
        BY <2>3 DEF Needed, Stamper
      <4> QED BY <1>9, <2>3, <4>1
    <3>2. m = n + 1
      BY <3>1
    <3>3. /\ DOMAIN places = DOMAIN r.pending
          /\ places[j] = <<r.pending[j]>>
      BY <1>12, <2>3, PlacesOfThings DEF places
    <3> HIDE DEF m, enough
    <3>4. j < n \/ j = n
      BY <1>3, <2>3, <3>2, <3>3
    <3>5. CASE j = n
      <4>1. call.k = 1
        <5>1. Len(places[n]) = 1
          BY <3>3, <3>5
        <5> QED BY <1>3, <5>1
      <4>2. at = r.pending[j]
        BY <3>3, <3>5, <4>1 DEF at, places
      <4> QED BY <1>11, <4>2
    <3>6. CASE j < n
      <4>1. HeardOf(call.log) = {}
        BY <1>7, <2>3
      <4> QED BY <1>11, <1>12, <2>3, <3>6, <4>1 DEF Settled
    <3> QED BY <3>4, <3>5, <3>6
  <2> HIDE DEF m, through
  <2>4. Settled(after, m)
    <3>1. Limited(r) => call.paid
      BY <1>12 DEF Settled
    <3> QED BY <1>7, <1>8, <1>10, <2>2, <2>3, <3>1 DEF Settled, places
  <2>5. CallSound(Proceed(after, m, got))
    BY <1>10, <1>12, <2>1, <2>4, ProceedIsSound
  <2>6. next = Proceed(after, m, got)
    BY <1>15
  <2> QED BY <1>1, <2>5, <2>6
<1> QED BY <1>14, <1>15

\* A call that has done nothing yet.
Untouched(call) == /\ call.log = <<>>
                   /\ call.bindings = <<>> /\ call.failures = <<>>

LEMMA OpenedIs ==
    ASSUME NEW r
    PROVE  LET call == Opened(r)
           IN  /\ Shaped(call) /\ call.at = "limiter" /\ call.req = r
               /\ Untouched(call) /\ call.paid = FALSE
BY DEF Opened, Shaped, Untouched

LEMMA NothingIsHeard ==
    ASSUME NEW call, call.log = <<>>
    PROVE  Outbound(call) = {} /\ HeardOf(call.log) = {}
BY DEF Outbound, HeardOf

LEMMA UntouchedIsSettled ==
    ASSUME NEW call, Untouched(call), LetThrough(call.req),
           Limited(call.req) => call.paid
    PROVE  Settled(call, 1)
<1> DEFINE r == call.req
<1>1. HeardOf(call.log) = {} /\ call.log = <<>>
      /\ call.bindings = <<>> /\ call.failures = <<>>
  BY NothingIsHeard DEF Untouched
<1>2. <<>> \in Seq(Answered) /\ <<>> \in Seq(Nat) /\ IsStrictlySorted(<<>>)
      /\ Range(<<>>) = {} /\ DOMAIN <<>> = {}
  BY DEF IsStrictlySorted, Range
<1>3. r.route = "mcp" /\ r.tool \in Stamper =>
          {j \in DOMAIN authorities(r) : j < 1} = {}
  <2> SUFFICES ASSUME r.route = "mcp", r.tool \in Stamper
               PROVE  {j \in DOMAIN authorities(r) : j < 1} = {}
    OBVIOUS
  <2>1. authorities(r) \in Seq(Place)
    BY PlacesOfThings
  <2> QED BY <2>1
<1>4. r.route = "mcp" /\ r.tool = "upgrade_ots_proof" =>
          \A j \in DOMAIN r.pending : ~(j < 1)
  <2> SUFFICES ASSUME r.route = "mcp", r.tool = "upgrade_ots_proof"
               PROVE  \A j \in DOMAIN r.pending : ~(j < 1)
    OBVIOUS
  <2>1. r.pending \in Seq(Place)
    BY PlacesOfThings
  <2> QED BY <2>1
<1> QED BY <1>1, <1>2, <1>3, <1>4 DEF Settled

\* An answer given before anything is asked.
LEMMA BareAnswer ==
    ASSUME NEW call, Shaped(call), IsRequest(call.req), call.log = <<>>,
           call.req.route = "mcp", Grounds(Gate(call.req)) = {},
           NEW word \in {"error", "completed"},
           call.req.tool = "upgrade_ots_proof" =>
               (word = "completed" <=> call.req.parses /\ call.req.attested),
           call.req.tool = "verify_escalation_closure" => ~call.req.complete
    PROVE  CallSound(Say(call, Outcome(word)))
<1> DEFINE r == call.req
           body == Outcome(word)
           a == Say(call, body)
<1>1. /\ Shaped(a) /\ a.at = "done" /\ a.req = r
      /\ a.log = call.log /\ a.paid = call.paid
      /\ a.answer.body = body
      /\ AnsweredUnderItsEra(a.req, a.answer)
  BY SayIs
<1>2. body.outcome = word /\ Nothing.outcome = "stamped"
  BY DEF Outcome, Nothing, Stamped
<1> HIDE DEF a, body
<1>3. a.log = <<>> /\ Outbound(a) = {} /\ HeardOf(a.log) = {}
  BY <1>1, NothingIsHeard
<1>4. AnswersWhatItHeard(a)
  BY <1>1, <1>2, <1>3 DEF AnswersWhatItHeard, HeardOf
<1>5. CallSound(a)
  BY <1>1, <1>2, <1>4 DEF CallSound, Done
<1> QED BY <1>5 DEF a, body

\* What the relay's gate says has no body.
LEMMA RelayRefusesSilently ==
    ASSUME NEW r, Grounds(RelayRefusals(r)) # {}
    PROVE  Verdict(RelayRefusals(r)).body = None
<1> DEFINE s == RelayRefusals(r)
<1>1. DOMAIN s = 1..6
  BY DEF RelayRefusals
<1>2. \A status : Reply(status, 0, None, None).body = None
  BY DEF Reply
<1>3. \A i \in 1..6 : \E status : s[i].reply = Reply(status, 0, None, None)
  <2>1. /\ s[1].reply = Reply(404, 0, None, None)
        /\ s[2].reply = Reply(204, 0, None, None)
        /\ s[3].reply = Reply(405, 0, None, None)
        /\ s[4].reply = Reply(415, 0, None, None)
        /\ s[5].reply = Reply(400, 0, None, None)
        /\ s[6].reply = Reply(413, 0, None, None)
    BY DEF RelayRefusals
  <2> HIDE DEF s
  <2>2. \A i \in 1..6 : i = 1 \/ i = 2 \/ i = 3 \/ i = 4 \/ i = 5 \/ i = 6
    OBVIOUS
  <2> QED BY <2>1, <2>2
<1> HIDE DEF s
<1>4. PICK i \in 1..6 : Verdict(s) = s[i].reply
  BY <1>1, FirstGroundDecides DEF s
<1> QED BY <1>2, <1>3, <1>4 DEF s

LEMMA RefusalIsSound ==
    ASSUME NEW r, IsRequest(r), Grounds(Gate(r)) # {}
    PROVE  CallSound(Answer(Opened(r), Verdict(Gate(r))))
<1>1. r.route \in {"mcp", "relay"}
  BY DEF IsRequest
<1>2. Verdict(Gate(r)).body = None
      /\ (r.route = "mcp" => AnsweredUnderItsEra(r, Verdict(Gate(r))))
  <2>1. CASE r.route = "relay"
    BY <2>1, RelayRefusesSilently DEF Gate
  <2>2. CASE r.route = "mcp"
    <3>1. Gate(r) = Refusals(r)
      BY <2>2 DEF Gate
    <3> QED BY <3>1, RefusalsOfTheEndpoint, RefusedUnderItsEra
  <2> QED BY <1>1, <2>1, <2>2
<1> DEFINE call == Opened(r)
<1>3. Shaped(call) /\ call.req = r /\ call.log = <<>>
  BY OpenedIs DEF Untouched
<1> HIDE DEF call
<1>4. Outbound(call) = {}
  BY <1>3, NothingIsHeard
<1>5. CallSound(Answer(call, Verdict(Gate(r))))
  BY <1>2, <1>3, <1>4, SilentAnswer
<1> QED BY <1>5 DEF call

\* handleMcp and handleRelay up to their first wait.
LEMMA ReceiveIsSound ==
    ASSUME CallsSound, NEW c \in Call, NEW r, IsRequest(r), Receive(c, r)
    PROVE  CallSound(calls'[c])
<1> DEFINE call == Opened(r)
<1>1. /\ Shaped(call) /\ call.at = "limiter" /\ call.req = r
      /\ Untouched(call) /\ call.paid = FALSE
  BY OpenedIs
<1>2. calls'[c] =
          IF Grounds(Gate(r)) # {} THEN Answer(call, Verdict(Gate(r)))
          ELSE IF r.route = "mcp" /\ Spared(r) # None
               THEN Say(call, Outcome(Spared(r)))
          ELSE IF Limited(r) THEN call
          ELSE Proceed(call, 1, None)
  BY DEF Receive, CallsSound
<1>3. CASE Grounds(Gate(r)) # {}
  BY <1>2, <1>3, RefusalIsSound
<1> HIDE DEF call
<1>4. CASE Grounds(Gate(r)) = {} /\ r.route = "mcp" /\ Spared(r) # None
  <2> DEFINE word == Spared(r)
  <2>1. r.tool \in Tool
    <3>1. Gate(r) = Refusals(r)
      BY <1>4 DEF Gate
    <3> QED BY <1>4, <3>1, PassesTheEndpoint
  <2>2. /\ word \in {"error", "completed"}
        /\ r.tool = "upgrade_ots_proof" =>
               (word = "completed" <=> r.parses /\ r.attested)
        /\ r.tool = "verify_escalation_closure" => ~r.complete
    <3>1. CASE r.tool \in Stamper
      BY <1>4, <3>1 DEF Spared, Stamper
    <3>2. CASE r.tool = "upgrade_ots_proof"
      <4>1. word = IF ~r.parses THEN "error"
                   ELSE IF r.attested THEN "completed"
                   ELSE IF r.pending = <<>> THEN "error" ELSE None
        BY <3>2 DEF Spared, Stamper
      <4> HIDE DEF word
      <4>2. word # None
        BY <1>4 DEF word
      <4> QED BY <3>2, <4>1, <4>2
    <3>3. CASE r.tool = "verify_escalation_closure"
      BY <1>4, <3>3 DEF Spared, Stamper
    <3>4. CASE r.tool \in {"verify_anchor_binding",
                           "verify_signature_envelope",
                           "list_anchor_authorities"}
      BY <1>4, <3>4 DEF Spared, Stamper
    <3> QED BY <2>1, <3>1, <3>2, <3>3, <3>4 DEF Tool
  <2>3. calls'[c] = Say(call, Outcome(word))
    BY <1>2, <1>4
  <2> HIDE DEF word
  <2> QED BY <1>1, <1>4, <2>2, <2>3, BareAnswer DEF Untouched
<1>5. CASE /\ Grounds(Gate(r)) = {} /\ ~(r.route = "mcp" /\ Spared(r) # None)
  <2>1. LetThrough(r)
    BY <1>5 DEF LetThrough
  <2>2. CASE Limited(r)
    <3>1. calls'[c] = call
      BY <1>2, <1>5, <2>2
    <3> QED BY <1>1, <2>1, <2>2, <3>1 DEF CallSound, Waiting, Untouched
  <2>3. CASE ~Limited(r)
    <3>1. calls'[c] = Proceed(call, 1, None)
      BY <1>2, <1>5, <2>3
    <3>2. Settled(call, 1)
      BY <1>1, <2>1, <2>3, UntouchedIsSettled
    <3>3. r.tool = "list_anchor_authorities" => Ahead(r, 1) # {}
      <4> SUFFICES ASSUME r.tool = "list_anchor_authorities"
                   PROVE  1 \in Ahead(r, 1)
        OBVIOUS
      <4>1. r.route = "mcp"
        BY <2>1, <2>3, PlacesOfThings DEF Limited
      <4>2. Places(r) = << <<"assets">> >>
        BY <2>1, <4>1, PlacesOfThings
      <4>3. 1 \in DOMAIN Places(r) /\ Places(r)[1] # <<>>
        BY <4>2
      <4>4. 1 >= 1
        OBVIOUS
      <4> QED BY <4>3, <4>4, Zenon DEF Ahead
    <3> QED BY <1>1, <2>1, <3>1, <3>2, <3>3, ProceedIsSound
  <2> QED BY <2>2, <2>3
<1> QED BY <1>3, <1>4, <1>5

\* The limiter's two answers.
LEMMA AdmittedIsSound ==
    ASSUME CallsSound, NEW c \in Call, calls[c] # Idle, Admitted(c)
    PROVE  CallSound(calls'[c])
<1> DEFINE call == calls[c]
           paid == [call EXCEPT !.paid = TRUE]
<1>1. Shaped(call) /\ Waiting(call)
  BY DEF CallsSound, CallSound, Admitted, Out, Done
<1>2. calls'[c] = Proceed(paid, 1, None)
  BY DEF Admitted, CallsSound
<1> HIDE DEF call
<1>3. /\ Shaped(paid) /\ paid.paid = TRUE /\ paid.req = call.req
      /\ Untouched(paid)
  BY <1>1 DEF Shaped, Waiting, Untouched
<1> HIDE DEF paid
<1>4. LetThrough(paid.req) /\ Limited(paid.req)
  BY <1>1, <1>3 DEF Waiting
<1>5. Settled(paid, 1)
  BY <1>3, <1>4, UntouchedIsSettled
<1>6. \/ paid.req.tool # "list_anchor_authorities"
      \/ Ahead(paid.req, 1) # {}
  <2> DEFINE r == paid.req
  <2>1. r.route = "relay" \/ r.tool # "list_anchor_authorities"
    BY <1>4 DEF Limited, Stamper
  <2>2. ASSUME r.route = "relay"
        PROVE  1 \in Ahead(r, 1)
    <3>1. Places(r) = << <<r.upstream>> >>
      BY <2>2 DEF Places
    <3>2. 1 \in DOMAIN Places(r) /\ Places(r)[1] = <<r.upstream>>
      BY <3>1
    <3> QED BY <3>2 DEF Ahead
  <2> QED BY <2>1, <2>2
<1> QED BY <1>2, <1>3, <1>4, <1>5, <1>6, ProceedIsSound

LEMMA RefusedIsSound ==
    ASSUME CallsSound, NEW c \in Call, calls[c] # Idle, Refused(c)
    PROVE  CallSound(calls'[c])
<1> DEFINE call == calls[c]
           r == call.req
<1>1. Shaped(call) /\ Waiting(call)
  BY DEF CallsSound, CallSound, Refused, Out, Done
<1>2. calls'[c] = IF r.route = "relay"
                  THEN Answer(call, Reply(429, 0, None, None))
                  ELSE IF r.tool = "create_signature_envelope"
                       THEN Say(call, Nothing)
                  ELSE Say(call, Outcome("error"))
  BY DEF Refused, CallsSound
<1> HIDE DEF call
<1>3. /\ IsRequest(r) /\ LetThrough(r) /\ Grounds(Gate(r)) = {}
      /\ r.route \in {"mcp", "relay"} /\ call.log = <<>> /\ call.paid = FALSE
      /\ Outbound(call) = {}
  BY <1>1, NothingIsHeard DEF Waiting, LetThrough, IsRequest
<1>4. CASE r.route = "relay"
  <2>1. Reply(429, 0, None, None).body = None
    BY DEF Reply
  <2> QED BY <1>1, <1>2, <1>3, <1>4, <2>1, SilentAnswer
<1>5. CASE r.route = "mcp" /\ r.tool = "create_signature_envelope"
  <2> DEFINE a == Say(call, Nothing)
  <2>1. /\ Shaped(a) /\ a.at = "done" /\ a.req = r
        /\ a.log = call.log /\ a.paid = call.paid
        /\ a.answer.body = Nothing
        /\ AnsweredUnderItsEra(a.req, a.answer)
    BY <1>1, <1>3, <1>5, SayIs
  <2>2. calls'[c] = a
    BY <1>2, <1>5
  <2> HIDE DEF a
  <2>3. Outbound(a) = {}
    BY <1>3, <2>1, NothingIsHeard
  <2>4. AnswersWhatItHeard(a)
    BY <1>3, <1>5, <2>1, <2>3 DEF AnswersWhatItHeard
  <2> QED BY <1>3, <1>5, <2>1, <2>2, <2>4 DEF CallSound, Done
<1>6. CASE r.route = "mcp" /\ r.tool # "create_signature_envelope"
  <2>1. r.tool \in Stamper \cup {"upgrade_ots_proof"}
    BY <1>1, <1>6 DEF Waiting, Limited
  <2>2. r.tool = "upgrade_ots_proof" => ~(r.parses /\ r.attested)
    <3>1. None # "completed" /\ (r.route = "mcp" => Spared(r) = None)
      BY <1>3, ServerAssumption DEF LetThrough
    <3> QED BY <1>6, <3>1 DEF Spared, Stamper
  <2>3. r.tool # "verify_escalation_closure"
    BY <2>1 DEF Stamper
  <2>4. calls'[c] = Say(call, Outcome("error"))
    BY <1>2, <1>6
  <2> QED BY <1>1, <1>3, <1>6, <2>2, <2>3, <2>4, BareAnswer
<1> QED BY <1>3, <1>4, <1>5, <1>6

-----------------------------------------------------------------------------
(***************************************************************************)
(* All calls at once.                                                      *)
(***************************************************************************)
LEMMA CallsSoundInit == ServerInit => CallsSound
BY ServerAssumption DEF ServerInit, CallsSound

\* A step of one call leaves the others as they are.
LEMMA OneCallMoves ==
    ASSUME CallsSound, NEW c \in Call, NEW call,
           calls' = [calls EXCEPT ![c] = call], CallSound(calls'[c]),
           tokens' \in 0..Limit
    PROVE  CallsSound'
<1>1. DOMAIN calls' = Call /\ \A b \in Call : b # c => calls'[b] = calls[b]
  BY DEF CallsSound
<1>2. ASSUME NEW b \in Call
      PROVE  calls'[b] = Idle \/ CallSound(calls'[b])
  <2>1. CASE b = c
    BY <2>1
  <2>2. CASE b # c
    BY <1>1, <2>2 DEF CallsSound
  <2> QED BY <2>1, <2>2
<1> QED BY <1>1, <1>2 DEF CallsSound

LEMMA CallsSoundReceive ==
    ASSUME CallsSound, NEW c \in Call, NEW r, IsRequest(r), Receive(c, r)
    PROVE  CallsSound'
<1>1. CallSound(calls'[c])
  BY ReceiveIsSound
<1>2. tokens' \in 0..Limit
  BY DEF CallsSound, Receive
<1>3. \E call : calls' = [calls EXCEPT ![c] = call]
  BY DEF Receive
<1> QED BY <1>1, <1>2, <1>3, OneCallMoves

LEMMA CallsSoundStep == CallsSound /\ ServerStep => CallsSound'
<1> SUFFICES ASSUME CallsSound, ServerStep
             PROVE  CallsSound'
  OBVIOUS
<1>1. ASSUME NEW c \in Call, Admitted(c)
      PROVE  CallsSound'
  <2>1. calls[c] # Idle
    BY <1>1 DEF Admitted, Idle
  <2>2. CallSound(calls'[c])
    BY <1>1, <2>1, AdmittedIsSound
  <2>3. tokens' \in 0..Limit
    BY <1>1, ServerAssumption DEF CallsSound, Admitted
  <2>4. \E call : calls' = [calls EXCEPT ![c] = call]
    BY <1>1 DEF Admitted
  <2> QED BY <2>2, <2>3, <2>4, OneCallMoves
<1>2. ASSUME NEW c \in Call, Refused(c)
      PROVE  CallsSound'
  <2>1. calls[c] # Idle
    BY <1>2 DEF Refused, Idle
  <2>2. CallSound(calls'[c])
    BY <1>2, <2>1, RefusedIsSound
  <2>3. tokens' \in 0..Limit
    BY <1>2 DEF CallsSound, Refused
  <2>4. \E call : calls' = [calls EXCEPT ![c] = call]
    BY <1>2 DEF Refused
  <2> QED BY <2>2, <2>3, <2>4, OneCallMoves
<1>3. ASSUME NEW c \in Call, NEW got \in {"ok", "refused", "none"},
             Outside(c, got)
      PROVE  CallsSound'
  <2>1. /\ calls[c].at = "out" /\ tokens' = tokens
        /\ \E call : calls' = [calls EXCEPT ![c] = call]
    BY <1>3, Zenon DEF Outside
  <2>2. calls[c] # Idle
    BY <2>1 DEF Idle
  <2>3. CallSound(calls'[c])
    BY <1>3, <2>2, OutsideIsSound, Zenon
  <2>4. tokens' \in 0..Limit
    BY <2>1 DEF CallsSound
  <2> QED BY <2>1, <2>3, <2>4, OneCallMoves
<1>4. CASE Minute
  BY <1>4, ServerAssumption DEF CallsSound, Minute
<1> QED BY <1>1, <1>2, <1>3, <1>4 DEF ServerStep

-----------------------------------------------------------------------------
(***************************************************************************)
(* The page: that all it shows is of a file that was dropped, and true of  *)
(* it; and, as long as nothing has overlapped, that the cards are in step  *)
(* with the one run there is.                                              *)
(***************************************************************************)
Stage == {"read", "hash", "sig", "binding", "ots", "der", "done"}
Run == [file : File, at : Stage, n : Nat]
OfABinding == {"pending", "binding", "proof"}
Shown == [of : Nat, part : OfABinding \cup {"json", "hash", "sig", "seal",
                                            "der", "ots"},
          n : Nat, status : {"ok", "pending", "fail"}]
Click == [of : Nat, n : Nat, at : {"asked", "proved"}]

RunTyped(run) ==
    /\ run.at = "hash" => run.file.hash # "none"
    /\ run.at = "sig" => run.file.sig # "none"
    /\ run.at = "binding" => run.n \in DOMAIN run.file.bindings

\* A card and a click, with the files dropped so far.
CardTyped(ds, card) ==
    LET bs == ds[card.of].file.bindings
    IN  /\ card.of \in DOMAIN ds
        /\ card.n > 0 <=> card.part \in OfABinding
        /\ card.n > 0 =>
              /\ card.n \in DOMAIN bs
              /\ CardSaid(IF card.part = "proof" THEN Upgrade[bs[card.n]]
                            ELSE bs[card.n], card.status)
CardsTyped(ds, cs) == cs \in Seq(Shown)
                      /\ \A i \in DOMAIN cs : CardTyped(ds, cs[i])
ClickTyped(ds, k) ==
    /\ k \in Click /\ k.of \in DOMAIN ds
    /\ k.n \in DOMAIN ds[k.of].file.bindings
    /\ k.at = "proved" => ds[k.of].file.bindings[k.n] \in DOMAIN Upgrade

PageTyped ==
    /\ drops \in Seq(Run) /\ \A d \in DOMAIN drops : RunTyped(drops[d])
    /\ CardsTyped(drops, cards)
    /\ \A k \in checks : ClickTyped(drops, k)
    /\ \A d \in saved : d \in DOMAIN drops /\ drops[d].at = "done"
    /\ \A n \in DOMAIN badges : BadgeSaid(badges[n].binding, badges[n].status)

\* The cards of a run at each of its stages. A binding of a run that was
\* saved has one card, or is between the two of a check.
CardsAbout(cs, m) == {i \in DOMAIN cs : cs[i].n = m}
Once(m, cs, ks) ==
    \/ /\ \E k \in ks : k.n = m /\ k.at = "proved"
       /\ CardsAbout(cs, m) = {}
    \/ /\ \A k \in ks : k.n = m => k.at = "asked"
       /\ \E i \in DOMAIN cs :
             /\ CardsAbout(cs, m) = {i}
             /\ (\E k \in ks : k.n = m) => cs[i].part = "pending"
InStep(run, cs, ks, kept) ==
    /\ run.at \in {"read", "hash", "ots", "der"} => cs = <<>>
    /\ run.at = "sig" => \A i \in DOMAIN cs : cs[i].n = 0
    /\ run.at = "binding" =>
           Len(cs) = run.n - 1 /\ \A i \in DOMAIN cs : cs[i].n = i
    /\ run.at = "done" /\ kept =>
           \A m \in DOMAIN run.file.bindings : Once(m, cs, ks)
    /\ run.at = "done" /\ ~kept =>
           Len(cs) <= 1 /\ \A i \in DOMAIN cs : cs[i].n = 0

\* As long as nothing has overlapped there is one run, and the checks are of
\* its file and come after it.
Alone ==
    ~overlapped =>
        /\ \A d \in DOMAIN drops : d # Here => drops[d].at = "done"
        /\ checks # {} => drops[Here].at = "done" /\ Here \in saved
        /\ \A k \in checks : k.of = Here
        /\ \A k, l \in checks : k.n = l.n => k = l
        /\ \A i \in DOMAIN cards : cards[i].of = Here
        /\ drops # <<>> => InStep(drops[Here], cards, checks, Here \in saved)

PageSound == PageTyped /\ Alone

LEMMA PageSoundInit == PageInit => PageSound
<1> SUFFICES ASSUME PageInit
             PROVE  PageSound
  OBVIOUS
<1>1. /\ drops = <<>> /\ cards = <<>> /\ checks = {} /\ saved = {}
      /\ badges = <<>>
  BY DEF PageInit
<1>2. PageTyped
  BY <1>1 DEF PageTyped, CardsTyped
<1>3. Alone
  BY <1>1 DEF Alone
<1> QED BY <1>2, <1>3 DEF PageSound

\* Files stay where they were dropped.
SameFiles(ds, es) ==
    \A d \in DOMAIN ds : d \in DOMAIN es /\ es[d].file = ds[d].file

LEMMA TypedWithSameFiles ==
    ASSUME NEW ds, NEW es, SameFiles(ds, es)
    PROVE  /\ \A cs : CardsTyped(ds, cs) => CardsTyped(es, cs)
           /\ \A k : ClickTyped(ds, k) => ClickTyped(es, k)
<1>1. ASSUME NEW card, CardTyped(ds, card)
      PROVE  CardTyped(es, card)
  <2>1. card.of \in DOMAIN es /\ es[card.of].file = ds[card.of].file
    BY <1>1 DEF CardTyped, SameFiles
  <2> QED BY <1>1, <2>1 DEF CardTyped
<1>2. ASSUME NEW cs, CardsTyped(ds, cs)
      PROVE  CardsTyped(es, cs)
  BY <1>1, <1>2 DEF CardsTyped
<1>3. ASSUME NEW k, ClickTyped(ds, k)
      PROVE  ClickTyped(es, k)
  <2>1. k.of \in DOMAIN es /\ es[k.of].file = ds[k.of].file
    BY <1>3 DEF ClickTyped, SameFiles
  <2> QED BY <1>3, <2>1 DEF ClickTyped
<1> QED BY <1>2, <1>3

\* One more element, and one fewer.
LEMMA AppendedElements ==
    ASSUME NEW S, NEW s \in Seq(S), NEW x \in S
    PROVE  /\ Append(s, x) \in Seq(S) /\ Len(Append(s, x)) = Len(s) + 1
           /\ Len(s) \in Nat /\ DOMAIN s = 1..Len(s)
           /\ DOMAIN Append(s, x) = 1..Len(s) + 1
           /\ Append(s, x)[Len(s) + 1] = x
           /\ \A i \in DOMAIN s : Append(s, x)[i] = s[i]
OBVIOUS

LEMMA RemovedElements ==
    ASSUME NEW S, NEW s \in Seq(S), NEW i \in DOMAIN s
    PROVE  /\ RemoveAt(s, i) \in Seq(S) /\ Len(RemoveAt(s, i)) = Len(s) - 1
           /\ Len(s) \in Nat /\ DOMAIN s = 1..Len(s) /\ i \in Nat
           /\ DOMAIN RemoveAt(s, i) = 1..Len(s) - 1
           /\ \A j \in 1..Len(s) - 1 :
                 RemoveAt(s, i)[j] = IF j < i THEN s[j] ELSE s[j + 1]
<1> DEFINE a == SubSeq(s, 1, i - 1)
           b == SubSeq(s, i + 1, Len(s))
<1>1. Len(s) \in Nat /\ DOMAIN s = 1..Len(s) /\ i \in 1..Len(s)
  OBVIOUS
<1>2. a \in Seq(S) /\ Len(a) = i - 1 /\ \A j \in 1..i - 1 : a[j] = s[j]
  BY <1>1
<1>3. b \in Seq(S) /\ Len(b) = Len(s) - i
      /\ \A j \in 1..Len(s) - i : b[j] = s[i + j]
  BY <1>1
<1> HIDE DEF a, b
<1> DEFINE t == a \o b
<1>4. /\ t \in Seq(S) /\ Len(t) = Len(s) - 1
      /\ \A j \in 1..Len(s) - 1 :
            t[j] = IF j <= i - 1 THEN a[j] ELSE b[j - (i - 1)]
  <2>1. Len(a) + Len(b) = Len(s) - 1
    BY <1>1, <1>2, <1>3
  <2>2. /\ a \o b \in Seq(S) /\ Len(a \o b) = Len(a) + Len(b)
        /\ \A j \in 1..Len(a) + Len(b) :
              (a \o b)[j] = IF j <= Len(a) THEN a[j] ELSE b[j - Len(a)]
    BY <1>2, <1>3, ConcatProperties
  <2>3. Len(a) = i - 1
    BY <1>2
  <2> HIDE DEF t
  <2> QED BY <2>1, <2>2, <2>3 DEF t
<1> HIDE DEF t
<1>5. ASSUME NEW j \in 1..Len(s) - 1
      PROVE  t[j] = IF j < i THEN s[j] ELSE s[j + 1]
  <2>1. CASE j < i
    <3>1. j <= i - 1 /\ j \in 1..i - 1
      BY <1>1, <2>1
    <3> QED BY <1>2, <1>4, <2>1, <3>1
  <2>2. CASE ~(j < i)
    <3>1. /\ ~(j <= i - 1) /\ j - (i - 1) \in 1..Len(s) - i
          /\ i + (j - (i - 1)) = j + 1
      BY <1>1, <2>2
    <3> QED BY <1>3, <1>4, <2>2, <3>1
  <2> QED BY <2>1, <2>2
<1>6. RemoveAt(s, i) = t
  BY DEF RemoveAt, a, b, t
<1>7. DOMAIN t = 1..Len(s) - 1
  BY <1>1, <1>4
<1>8. t \in Seq(S) /\ Len(t) = Len(s) - 1
  BY <1>4
<1>9. i \in Nat
  BY <1>1
<1> QED BY <1>1, <1>5, <1>6, <1>7, <1>8, <1>9, Zenon

LEMMA CardsTypedMoves ==
    ASSUME NEW ds, NEW cs, CardsTyped(ds, cs)
    PROVE  /\ CardsTyped(ds, <<>>)
           /\ \A card \in Shown : CardTyped(ds, card) =>
                                      CardsTyped(ds, Append(cs, card))
           /\ \A i \in DOMAIN cs : CardsTyped(ds, RemoveAt(cs, i))
<1>1. CardsTyped(ds, <<>>)
  BY DEF CardsTyped
<1>2. cs \in Seq(Shown) /\ \A i \in DOMAIN cs : CardTyped(ds, cs[i])
  BY DEF CardsTyped
<1>3. ASSUME NEW card \in Shown, CardTyped(ds, card)
      PROVE  CardsTyped(ds, Append(cs, card))
  <2> DEFINE t == Append(cs, card)
  <2>1. /\ t \in Seq(Shown) /\ DOMAIN cs = 1..Len(cs) /\ Len(cs) \in Nat
        /\ DOMAIN t = 1..Len(cs) + 1 /\ t[Len(cs) + 1] = card
        /\ \A i \in DOMAIN cs : t[i] = cs[i]
    BY <1>2, AppendedElements
  <2> HIDE DEF t
  <2>2. ASSUME NEW i \in DOMAIN t
        PROVE  CardTyped(ds, t[i])
    <3>1. i = Len(cs) + 1 \/ i \in DOMAIN cs
      BY <2>1
    <3> QED BY <1>2, <1>3, <2>1, <3>1
  <2>3. CardsTyped(ds, t)
    BY <2>1, <2>2 DEF CardsTyped
  <2> QED BY <2>3 DEF t
<1>4. ASSUME NEW i \in DOMAIN cs
      PROVE  CardsTyped(ds, RemoveAt(cs, i))
  <2> DEFINE t == RemoveAt(cs, i)
  <2>1. /\ t \in Seq(Shown) /\ DOMAIN cs = 1..Len(cs) /\ Len(cs) \in Nat
        /\ DOMAIN t = 1..Len(cs) - 1
        /\ \A j \in 1..Len(cs) - 1 :
              t[j] = IF j < i THEN cs[j] ELSE cs[j + 1]
    BY <1>2, RemovedElements
  <2> HIDE DEF t
  <2>2. ASSUME NEW j \in DOMAIN t
        PROVE  CardTyped(ds, t[j])
    <3>1. j \in DOMAIN cs /\ j + 1 \in DOMAIN cs
      BY <2>1
    <3> QED BY <1>2, <2>1, <3>1
  <2>3. CardsTyped(ds, t)
    BY <2>1, <2>2 DEF CardsTyped
  <2> QED BY <2>3 DEF t
<1> QED BY <1>1, <1>3, <1>4

\* A run that is under way, as long as nothing has overlapped.
LEMMA RunAlone ==
    ASSUME PageSound, NEW d \in DOMAIN drops, drops[d].at # "done"
    PROVE  /\ d \notin saved
           /\ ~overlapped => /\ d = Here /\ checks = {}
                             /\ InStep(drops[d], cards, {}, FALSE)
                             /\ \A i \in DOMAIN cards : cards[i].of = d
<1>1. d \notin saved
  BY DEF PageSound, PageTyped
<1>2. ASSUME ~overlapped
      PROVE  /\ d = Here /\ checks = {}
             /\ InStep(drops[d], cards, {}, FALSE)
             /\ \A i \in DOMAIN cards : cards[i].of = d
  <2>1. d = Here
    BY <1>2 DEF PageSound, Alone
  <2>2. checks = {}
    BY <1>2, <2>1 DEF PageSound, Alone
  <2>3. drops # <<>>
    OBVIOUS
  <2>4. (Here \in saved) = FALSE
    BY <1>1, <2>1
  <2>5. /\ InStep(drops[Here], cards, checks, Here \in saved)
        /\ \A i \in DOMAIN cards : cards[i].of = Here
    BY <1>2, <2>3 DEF PageSound, Alone
  <2>6. InStep(drops[d], cards, {}, FALSE)
    BY <1>1, <2>1, <2>2, <2>5 DEF InStep
  <2> QED BY <2>1, <2>2, <2>5, <2>6
<1> QED BY <1>1, <1>2

\* A step of a run: its new stage, the new cards, and that both are in step
\* if they were.
LEMMA RunMoves ==
    ASSUME PageSound, NEW d \in DOMAIN drops, drops[d].at # "done",
           NEW at \in Stage, NEW n \in Nat, At(d, at, n),
           CardsTyped(drops, cards'), UNCHANGED <<checks, badges, overlapped>>,
           \/ saved' = saved
           \/ at = "done" /\ saved' = saved \cup {d},
           RunTyped([file |-> drops[d].file, at |-> at, n |-> n]),
           ~overlapped =>
               /\ \A i \in DOMAIN cards' : cards'[i].of = d
               /\ InStep([file |-> drops[d].file, at |-> at, n |-> n],
                         cards', {}, d \in saved')
    PROVE  PageSound'
<1> DEFINE run == [file |-> drops[d].file, at |-> at, n |-> n]
<1>1. drops \in Seq(Run) /\ \A e \in DOMAIN drops : RunTyped(drops[e])
  BY DEF PageSound, PageTyped
<1>2. drops[d] \in Run
  BY <1>1
<1>3. drops' = [drops EXCEPT ![d] = run]
  <2> DEFINE x == [drops[d] EXCEPT !.at = at, !.n = n]
  <2>1. x \in Run /\ x.file = drops[d].file /\ x.at = at /\ x.n = n
    BY <1>2 DEF Run
  <2>2. drops' = [drops EXCEPT ![d] = x]
    BY DEF At
  <2> HIDE DEF x
  <2>3. x = run
    BY <2>1 DEF Run
  <2> QED BY <2>2, <2>3
<1>4. run \in Run /\ run.file = drops[d].file /\ run.at = at
  BY <1>2 DEF Run
<1> HIDE DEF run
<1>5. /\ drops' \in Seq(Run) /\ Len(drops') = Len(drops)
      /\ DOMAIN drops' = DOMAIN drops /\ drops'[d] = run
      /\ \A e \in DOMAIN drops : e # d => drops'[e] = drops[e]
  BY <1>1, <1>3, <1>4
<1>6. SameFiles(drops, drops')
  BY <1>4, <1>5 DEF SameFiles
<1>7. PageTyped'
  <2>1. \A e \in DOMAIN drops' : RunTyped(drops'[e])
    BY <1>1, <1>5 DEF run
  <2>2. CardsTyped(drops', cards')
    BY <1>6, TypedWithSameFiles
  <2>3. \A k \in checks' : ClickTyped(drops', k)
    BY <1>6, TypedWithSameFiles DEF PageSound, PageTyped
  <2>4. \A e \in saved' : e \in DOMAIN drops' /\ drops'[e].at = "done"
    BY <1>4, <1>5, RunAlone DEF PageSound, PageTyped
  <2>5. \A m \in DOMAIN badges' :
            BadgeSaid(badges'[m].binding, badges'[m].status)
    BY DEF PageSound, PageTyped
  <2> QED BY <1>5, <2>1, <2>2, <2>3, <2>4, <2>5 DEF PageTyped
<1>8. Alone'
  <2> SUFFICES ASSUME ~overlapped'
               PROVE  /\ \A e \in DOMAIN drops' : e # Here' =>
                                                  drops'[e].at = "done"
                      /\ checks' = {}
                      /\ \A i \in DOMAIN cards' : cards'[i].of = Here'
                      /\ InStep(drops'[Here'], cards', checks',
                                Here' \in saved')
    BY DEF Alone
  <2>1. ~overlapped /\ Here' = Here
    BY <1>5 DEF Here
  <2>2. d = Here /\ checks' = {}
    BY <2>1, RunAlone
  <2>3. \A e \in DOMAIN drops' : e # Here' => drops'[e].at = "done"
    BY <1>5, <2>1, <2>2 DEF PageSound, Alone
  <2>4. /\ \A i \in DOMAIN cards' : cards'[i].of = Here'
        /\ InStep(drops'[Here'], cards', checks', Here' \in saved')
    BY <1>5, <2>1, <2>2 DEF run
  <2> QED BY <2>2, <2>3, <2>4
<1> QED BY <1>7, <1>8 DEF PageSound

\* A file a user has dropped.
LEMMA DroppedFile ==
    ASSUME PageSound, NEW d \in DOMAIN drops
    PROVE  LET f == drops[d].file
           IN  /\ d \in Nat /\ d > 0 /\ IsFile(f)
               /\ Len(f.bindings) \in Nat
               /\ DOMAIN f.bindings = 1..Len(f.bindings)
               /\ f.bindings # <<>> => 1 \in DOMAIN f.bindings
<1> DEFINE bs == drops[d].file.bindings
<1>1. drops \in Seq(Run)
  BY DEF PageSound, PageTyped
<1>2. drops[d].file \in File /\ d \in Nat /\ d > 0
  <2>1. DOMAIN drops = 1..Len(drops) /\ Len(drops) \in Nat
    BY <1>1
  <2>2. drops[d] \in Run /\ d \in 1..Len(drops)
    BY <1>1, <2>1
  <2> QED BY <2>1, <2>2 DEF Run
<1>3. IsFile(drops[d].file)
  BY <1>2, PageAssumption
<1>4. bs \in Seq(Range(bs))
  BY <1>3 DEF IsFile
<1> HIDE DEF bs
<1>5. Len(bs) \in Nat /\ DOMAIN bs = 1..Len(bs)
  BY <1>4
<1>6. bs # <<>> => 1 \in DOMAIN bs
  BY <1>4
<1> QED BY <1>2, <1>3, <1>5, <1>6 DEF bs

\* A card that is not of a binding.
LEMMA PlainCard ==
    ASSUME PageSound, NEW d \in DOMAIN drops,
           NEW part \in {"json", "hash", "sig", "seal", "der", "ots"},
           NEW status \in {"ok", "pending", "fail"},
           NEW cs, CardsTyped(drops, cs)
    PROVE  LET t == Append(cs, Card(d, part, 0, status))
           IN  /\ CardsTyped(drops, t)
               /\ cs = <<>> => Len(t) <= 1
               /\ (\A i \in DOMAIN cs : cs[i].of = d) =>
                      \A i \in DOMAIN t : t[i].of = d
               /\ (\A i \in DOMAIN cs : cs[i].n = 0) =>
                      \A i \in DOMAIN t : t[i].n = 0
<1> DEFINE card == Card(d, part, 0, status)
           t == Append(cs, card)
<1>1. card \in Shown /\ card.of = d /\ card.n = 0 /\ card.part = part
  BY DroppedFile DEF Card, Shown
<1> HIDE DEF card
<1>2. CardTyped(drops, card)
  BY <1>1 DEF CardTyped, OfABinding
<1>3. cs \in Seq(Shown)
  BY DEF CardsTyped
<1>4. CardsTyped(drops, t)
  BY <1>1, <1>2, CardsTypedMoves
<1>5. /\ Len(cs) \in Nat /\ DOMAIN cs = 1..Len(cs) /\ Len(t) = Len(cs) + 1
      /\ DOMAIN t = 1..Len(cs) + 1 /\ t[Len(cs) + 1] = card
      /\ \A i \in DOMAIN cs : t[i] = cs[i]
  BY <1>1, <1>3, AppendedElements
<1> HIDE DEF t
<1>6. \A i \in DOMAIN t : i \in DOMAIN cs \/ i = Len(cs) + 1
  BY <1>5
<1>7. cs = <<>> => Len(t) <= 1
  BY <1>5
<1>8. /\ (\A i \in DOMAIN cs : cs[i].of = d) =>
             \A i \in DOMAIN t : t[i].of = d
      /\ (\A i \in DOMAIN cs : cs[i].n = 0) =>
             \A i \in DOMAIN t : t[i].n = 0
  BY <1>1, <1>5, <1>6
<1> QED BY <1>4, <1>7, <1>8 DEF t, card

\* Clearing the results, and on to the bindings.
LEMMA BeginBindingsIsSound ==
    ASSUME PageSound, NEW d \in DOMAIN drops, drops[d].at # "done",
           BeginBindings(d), UNCHANGED <<checks, badges, overlapped>>
    PROVE  PageSound'
<1> DEFINE run(at, n) == [file |-> drops[d].file, at |-> at, n |-> n]
<1>1. cards' = <<>> /\ CardsTyped(drops, cards')
  BY DEF BeginBindings, CardsTyped
<1>2. CASE Bindings(d) = <<>>
  <2>1. At(d, "done", 0) /\ saved' = saved \cup {d}
    BY <1>2 DEF BeginBindings, Finish
  <2>2. InStep(run("done", 0), <<>>, {}, d \in saved')
    BY <1>2, <2>1 DEF InStep, Bindings
  <2>3. RunTyped(run("done", 0)) /\ "done" \in Stage
    BY DEF RunTyped, Stage
  <2> QED BY <1>1, <2>1, <2>2, <2>3, RunMoves
<1>3. CASE Bindings(d) # <<>>
  <2>1. At(d, "binding", 1) /\ saved' = saved
    BY <1>3 DEF BeginBindings
  <2>2. InStep(run("binding", 1), <<>>, {}, d \in saved')
    BY DEF InStep
  <2>3. RunTyped(run("binding", 1)) /\ "binding" \in Stage
    BY <1>3, DroppedFile DEF RunTyped, Stage, Bindings
  <2> QED BY <1>1, <2>1, <2>2, <2>3, RunMoves
<1> QED BY <1>2, <1>3

LEMMA RestIsSound ==
    ASSUME PageSound, NEW d \in DOMAIN drops, drops[d].at # "done",
           NEW sofar, CardsTyped(drops, sofar),
           ~overlapped => \A i \in DOMAIN sofar : sofar[i].of = d,
           Rest(d, sofar), UNCHANGED <<checks, badges, overlapped>>
    PROVE  PageSound'
<1> DEFINE run == [file |-> drops[d].file, at |-> "done", n |-> 0]
<1>1. CASE Bindings(d) # <<>>
  BY <1>1, BeginBindingsIsSound DEF Rest
<1>2. CASE Bindings(d) = <<>>
  <2>1. At(d, "done", 0) /\ saved' = saved \cup {d}
    BY <1>2 DEF Rest, Finish
  <2>2. CardsTyped(drops, cards')
        /\ (~overlapped => \A i \in DOMAIN cards' : cards'[i].of = d)
    <3>1. CASE drops[d].file.seal = "none"
      BY <1>2, <3>1 DEF Rest
    <3>2. CASE drops[d].file.seal # "none"
      <4>1. drops[d].file.seal \in {"ok", "pending", "fail"}
        BY <3>2, DroppedFile DEF IsFile
      <4>2. cards' = Append(sofar, Card(d, "seal", 0, drops[d].file.seal))
        BY <1>2, <3>2 DEF Rest
      <4> QED BY <4>1, <4>2, PlainCard
    <3> QED BY <3>1, <3>2
  <2>3. InStep(run, cards', {}, d \in saved')
    BY <1>2, <2>1 DEF InStep, Bindings
  <2>4. RunTyped(run) /\ "done" \in Stage
    BY DEF RunTyped, Stage
  <2> QED BY <2>1, <2>2, <2>3, <2>4, RunMoves
<1> QED BY <1>1, <1>2

LEMMA HashedIsSound ==
    ASSUME PageSound, NEW d \in DOMAIN drops, Hashed(d)
    PROVE  PageSound'
<1> DEFINE sofar == Append(cards, Card(d, "hash", 0, drops[d].file.hash))
           run == [file |-> drops[d].file, at |-> "sig", n |-> 0]
<1>1. drops[d].at = "hash" /\ UNCHANGED <<checks, badges, overlapped>>
  BY DEF Hashed
<1>2. drops[d].file.hash \in {"ok", "pending", "fail"}
  <2>1. RunTyped(drops[d])
    BY DEF PageSound, PageTyped
  <2> QED BY <1>1, <2>1, DroppedFile DEF IsFile, RunTyped
<1>3. CardsTyped(drops, cards)
  BY DEF PageSound, PageTyped
<1>4. ~overlapped => cards = <<>>
  BY <1>1, RunAlone DEF InStep
<1>5. /\ CardsTyped(drops, sofar)
      /\ ~overlapped => /\ \A i \in DOMAIN sofar : sofar[i].of = d
                        /\ \A i \in DOMAIN sofar : sofar[i].n = 0
  BY <1>2, <1>3, <1>4, PlainCard
<1> HIDE DEF sofar
<1>6. CASE drops[d].file.sig = "none"
  <2>1. Rest(d, sofar)
    BY <1>6 DEF Hashed, sofar
  <2> QED BY <1>1, <1>5, <2>1, RestIsSound
<1>7. CASE drops[d].file.sig # "none"
  <2>1. cards' = sofar /\ At(d, "sig", 0) /\ saved' = saved
    BY <1>7 DEF Hashed, sofar
  <2>2. RunTyped(run) /\ "sig" \in Stage
    BY <1>7 DEF RunTyped, Stage
  <2>3. ~overlapped => InStep(run, cards', {}, d \in saved')
    BY <1>5, <2>1 DEF InStep
  <2> QED BY <1>1, <1>5, <2>1, <2>2, <2>3, RunMoves
<1> QED BY <1>6, <1>7

LEMMA SignedIsSound ==
    ASSUME PageSound, NEW d \in DOMAIN drops, Signed(d)
    PROVE  PageSound'
<1> DEFINE sofar == Append(cards, Card(d, "sig", 0, drops[d].file.sig))
<1>1. drops[d].at = "sig" /\ UNCHANGED <<checks, badges, overlapped>>
  BY DEF Signed
<1>2. drops[d].file.sig \in {"ok", "pending", "fail"}
  <2>1. RunTyped(drops[d])
    BY DEF PageSound, PageTyped
  <2> QED BY <1>1, <2>1, DroppedFile DEF IsFile, RunTyped
<1>3. CardsTyped(drops, cards)
  BY DEF PageSound, PageTyped
<1>4. ~overlapped => \A i \in DOMAIN cards : cards[i].of = d
  BY <1>1, RunAlone
<1>5. /\ CardsTyped(drops, sofar)
      /\ ~overlapped => \A i \in DOMAIN sofar : sofar[i].of = d
  BY <1>2, <1>3, <1>4, PlainCard
<1>6. Rest(d, sofar)
  BY DEF Signed
<1> HIDE DEF sofar
<1> QED BY <1>1, <1>5, <1>6, RestIsSound

\* A run that ends with one card of what its file was taken for, or none.
LEMMA GivenUpIsSound ==
    ASSUME PageSound, NEW d \in DOMAIN drops,
           drops[d].at \in {"read", "der", "ots"}, At(d, "done", 0),
           UNCHANGED <<checks, saved, badges, overlapped>>,
           \/ cards' = cards
           \/ \E part \in {"json", "der", "ots"},
                 status \in {"ok", "pending", "fail"} :
                 cards' = Append(cards, Card(d, part, 0, status))
    PROVE  PageSound'
<1> DEFINE run == [file |-> drops[d].file, at |-> "done", n |-> 0]
<1>1. CardsTyped(drops, cards)
  BY DEF PageSound, PageTyped
<1>2. ~overlapped => cards = <<>>
  BY RunAlone DEF InStep
<1>3. /\ CardsTyped(drops, cards')
      /\ ~overlapped => /\ Len(cards') <= 1
                        /\ \A i \in DOMAIN cards' : cards'[i].of = d
                        /\ \A i \in DOMAIN cards' : cards'[i].n = 0
  <2>1. CASE cards' = cards
    BY <1>1, <1>2, <2>1
  <2>2. CASE cards' # cards
    <3>1. PICK part \in {"json", "der", "ots"},
               status \in {"ok", "pending", "fail"} :
                   cards' = Append(cards, Card(d, part, 0, status))
      BY <2>2
    <3> QED BY <1>1, <1>2, <3>1, PlainCard
  <2> QED BY <2>1, <2>2
<1>4. d \notin saved'
  BY RunAlone
<1>5. ~overlapped => InStep(run, cards', {}, d \in saved')
  BY <1>3, <1>4 DEF InStep
<1>6. RunTyped(run) /\ "done" \in Stage
  BY DEF RunTyped, Stage
<1> QED BY <1>3, <1>5, <1>6, RunMoves

LEMMA ReadIsSound ==
    ASSUME PageSound, NEW d \in DOMAIN drops, Read(d)
    PROVE  PageSound'
<1> DEFINE run(at) == [file |-> drops[d].file, at |-> at, n |-> 0]
<1>1. drops[d].at = "read" /\ UNCHANGED <<checks, badges, overlapped>>
  BY DEF Read
<1>2. CardsTyped(drops, cards) /\ CardsTyped(drops, <<>>)
  BY DEF PageSound, PageTyped, CardsTyped
<1>3. ~overlapped => cards = <<>>
  BY <1>1, RunAlone DEF InStep
<1>4. CASE /\ cards' = Append(cards, Card(d, "json", 0, "fail"))
           /\ At(d, "done", 0) /\ UNCHANGED saved
  BY <1>1, <1>4, GivenUpIsSound
<1>5. CASE BeginBindings(d)
  BY <1>1, <1>5, BeginBindingsIsSound
<1>6. CASE /\ drops[d].file.kind = "artifact" /\ cards' = <<>>
           /\ At(d, "hash", 0) /\ UNCHANGED saved
  <2>1. RunTyped(run("hash")) /\ "hash" \in Stage
    BY <1>6, DroppedFile DEF RunTyped, Stage, IsFile
  <2>2. InStep(run("hash"), cards', {}, d \in saved')
    BY <1>6 DEF InStep
  <2> QED BY <1>1, <1>2, <1>6, <2>1, <2>2, RunMoves
<1>7. CASE At(d, "ots", 0) /\ UNCHANGED <<cards, saved>>
  <2>1. RunTyped(run("ots")) /\ "ots" \in Stage
    BY DEF RunTyped, Stage
  <2>2. ~overlapped => InStep(run("ots"), cards', {}, d \in saved')
    BY <1>3, <1>7 DEF InStep
  <2> QED BY <1>1, <1>2, <1>3, <1>7, <2>1, <2>2, RunMoves
<1>8. CASE cards' = <<>> /\ At(d, "der", 0) /\ UNCHANGED saved
  <2>1. RunTyped(run("der")) /\ "der" \in Stage
    BY DEF RunTyped, Stage
  <2>2. InStep(run("der"), cards', {}, d \in saved')
    BY <1>8 DEF InStep
  <2> QED BY <1>1, <1>2, <1>8, <2>1, <2>2, RunMoves
<1> QED BY <1>4, <1>5, <1>6, <1>7, <1>8 DEF Read

\* The card of a binding.
LEMMA BindingCard ==
    ASSUME PageSound, NEW d \in DOMAIN drops,
           NEW n \in DOMAIN drops[d].file.bindings,
           NEW part \in OfABinding, NEW status \in {"ok", "pending", "fail"},
           CardSaid(IF part = "proof"
                      THEN Upgrade[drops[d].file.bindings[n]]
                      ELSE drops[d].file.bindings[n], status),
           NEW cs, CardsTyped(drops, cs)
    PROVE  LET t == Append(cs, Card(d, part, n, status))
           IN  /\ CardsTyped(drops, t)
               /\ Len(cs) \in Nat /\ DOMAIN cs = 1..Len(cs)
               /\ Len(t) = Len(cs) + 1 /\ DOMAIN t = 1..Len(cs) + 1
               /\ t[Len(cs) + 1] = Card(d, part, n, status)
               /\ \A i \in DOMAIN cs : t[i] = cs[i]
               /\ n \in Nat /\ n > 0
<1> DEFINE card == Card(d, part, n, status)
           bs == drops[d].file.bindings
<1>1. n \in Nat /\ n > 0
  BY DroppedFile
<1>2. /\ card \in Shown /\ card.of = d /\ card.n = n /\ card.part = part
      /\ card.status = status
  BY <1>1, DroppedFile DEF Card, Shown
<1> HIDE DEF card
<1>3. CardTyped(drops, card)
  BY <1>1, <1>2 DEF CardTyped
<1>4. cs \in Seq(Shown)
  BY DEF CardsTyped
<1>5. CardsTyped(drops, Append(cs, card))
  BY <1>2, <1>3, CardsTypedMoves
<1>6. LET t == Append(cs, card)
      IN  /\ Len(cs) \in Nat /\ DOMAIN cs = 1..Len(cs)
          /\ Len(t) = Len(cs) + 1 /\ DOMAIN t = 1..Len(cs) + 1
          /\ t[Len(cs) + 1] = card /\ \A i \in DOMAIN cs : t[i] = cs[i]
  BY <1>2, <1>4, AppendedElements
<1> QED BY <1>1, <1>5, <1>6 DEF card

LEMMA VerifiedIsSound ==
    ASSUME PageSound, NEW d \in DOMAIN drops, NEW rpc \in BOOLEAN,
           NEW got \in {"ok", "refused", "none"}, Verified(d, rpc, got)
    PROVE  PageSound'
<1> DEFINE run(at, n) == [file |-> drops[d].file, at |-> at, n |-> n]
           m == drops[d].n
           bs == drops[d].file.bindings
           b == bs[m]
           part == IF b.type = "c2sp-tlog-pending-v1" THEN "pending"
                   ELSE "binding"
           status == CardStatus(b, rpc, got)
           t == Append(cards, Card(d, part, m, status))
<1>1. drops[d].at = "binding" /\ UNCHANGED <<checks, badges, overlapped>>
  BY DEF Verified
<1>2. m \in DOMAIN bs
  <2>1. RunTyped(drops[d])
    BY DEF PageSound, PageTyped
  <2> QED BY <1>1, <2>1 DEF RunTyped
<1>3. /\ Len(bs) \in Nat /\ DOMAIN bs = 1..Len(bs) /\ m \in Nat
      /\ IsBinding(b)
  BY <1>2, DroppedFile DEF IsFile
<1>4. CardsTyped(drops, cards) /\ CardsTyped(drops, <<>>)
  BY DEF PageSound, PageTyped, CardsTyped
<1>5. CASE Throws(b)
  <2>1. cards' = <<>> /\ At(d, "der", 0) /\ saved' = saved
    BY <1>5 DEF Verified, Bindings
  <2>2. RunTyped(run("der", 0)) /\ "der" \in Stage
    BY DEF RunTyped, Stage
  <2>3. InStep(run("der", 0), cards', {}, d \in saved')
    BY <2>1 DEF InStep
  <2> QED BY <1>1, <1>4, <2>1, <2>2, <2>3, RunMoves
<1>6. CASE ~Throws(b)
  <2>1. cards' = t
    BY <1>6 DEF Verified, Bindings
  <2>2. status \in {"ok", "pending", "fail"} /\ CardSaid(b, status)
    BY <1>3, <1>6, CardsAreTrue
  <2>3. part \in {"pending", "binding"}
    OBVIOUS
  <2> HIDE DEF status, part
  <2>4. /\ CardsTyped(drops, t)
        /\ Len(cards) \in Nat /\ DOMAIN cards = 1..Len(cards)
        /\ Len(t) = Len(cards) + 1 /\ DOMAIN t = 1..Len(cards) + 1
        /\ t[Len(cards) + 1] = Card(d, part, m, status)
        /\ \A i \in DOMAIN cards : t[i] = cards[i]
        /\ m > 0
    <3>1. part \in OfABinding /\ part # "proof"
      BY <2>3 DEF OfABinding
    <3> QED BY <1>2, <1>4, <2>2, <3>1, BindingCard
  <2> HIDE DEF t
  <2>5. ASSUME ~overlapped
        PROVE  /\ Len(t) = m /\ \A i \in DOMAIN t : t[i].of = d
               /\ \A i \in DOMAIN t : t[i].n = i
    <3>1. /\ Len(cards) = m - 1
          /\ \A i \in DOMAIN cards : cards[i].n = i /\ cards[i].of = d
      BY <1>1, <2>5, RunAlone DEF InStep
    <3>2. \A i \in DOMAIN t : i \in DOMAIN cards \/ i = Len(cards) + 1
      BY <2>4
    <3>3. t[Len(cards) + 1].of = d /\ t[Len(cards) + 1].n = m
      BY <2>4 DEF Card
    <3>4. Len(cards) + 1 = m /\ Len(t) = m
      BY <1>3, <2>4, <3>1
    <3>5. ASSUME NEW i \in DOMAIN t
          PROVE  t[i].of = d /\ t[i].n = i
      BY <2>4, <3>1, <3>2, <3>3, <3>4, <3>5
    <3> QED BY <3>4, <3>5
  <2>6. CASE m = Len(bs)
    <3>1. At(d, "done", 0) /\ saved' = saved \cup {d}
      BY <1>6, <2>6 DEF Verified, Bindings, Finish
    <3>2. ASSUME ~overlapped
          PROVE  InStep(run("done", 0), cards', {}, d \in saved')
      <4>1. ASSUME NEW i \in DOMAIN bs
            PROVE  Once(i, t, {})
        <5>1. i \in DOMAIN t
          BY <1>3, <2>4, <2>5, <2>6, <3>2
        <5>2. CardsAbout(t, i) = {i}
          BY <2>5, <3>2, <5>1 DEF CardsAbout
        <5> QED BY <5>1, <5>2 DEF Once
      <4> QED BY <2>1, <3>1, <4>1 DEF InStep
    <3>3. RunTyped(run("done", 0)) /\ "done" \in Stage
      BY DEF RunTyped, Stage
    <3> QED BY <1>1, <2>1, <2>4, <2>5, <3>1, <3>2, <3>3, RunMoves
  <2>7. CASE m # Len(bs)
    <3>1. At(d, "binding", m + 1) /\ saved' = saved
      BY <1>6, <2>7 DEF Verified, Bindings
    <3>2. ~overlapped =>
              InStep(run("binding", m + 1), cards', {}, d \in saved')
      BY <1>3, <2>1, <2>5 DEF InStep
    <3>3. RunTyped(run("binding", m + 1)) /\ "binding" \in Stage
          /\ m + 1 \in Nat
      BY <1>2, <1>3, <2>7 DEF RunTyped, Stage
    <3> QED BY <1>1, <2>1, <2>4, <2>5, <3>1, <3>2, <3>3, RunMoves
  <2> QED BY <2>6, <2>7
<1> QED BY <1>5, <1>6

LEMMA GivenUpSteps ==
    ASSUME PageSound, NEW d \in DOMAIN drops,
           Unreadable(d) \/ DerParsed(d) \/ OtsVerified(d)
    PROVE  PageSound'
<1>1. CASE Unreadable(d)
  BY <1>1, GivenUpIsSound DEF Unreadable
<1>2. CASE DerParsed(d)
  <2>1. PICK status \in {"ok", "pending", "fail"} :
            cards' = Append(cards, Card(d, "der", 0, status))
    BY <1>2 DEF DerParsed
  <2> QED BY <1>2, <2>1, GivenUpIsSound DEF DerParsed
<1>3. CASE OtsVerified(d)
  <2>1. PICK status \in {"ok", "pending", "fail"} :
            cards' = Append(cards, Card(d, "ots", 0, status))
    <3> DEFINE s == verifyOts(Bindings(d)[1], Zero)
               e == CASE s = "complete" -> "ok"
                      [] s = "pending"  -> "pending"
                      [] OTHER          -> "fail"
    <3>1. cards' = Append(cards, Card(d, "ots", 0, e))
      BY <1>3 DEF OtsVerified
    <3> HIDE DEF s
    <3>2. e \in {"ok", "pending", "fail"}
      OBVIOUS
    <3> HIDE DEF e
    <3> QED BY <3>1, <3>2
  <2> QED BY <1>3, <2>1, GivenUpIsSound DEF OtsVerified
<1> QED BY <1>1, <1>2, <1>3

-----------------------------------------------------------------------------
\* Where nothing overlaps, the next run and the next check begin when there is
\* nothing under way.
LEMMA ChooseIsSound ==
    ASSUME PageSound, NEW f \in File, Choose(f)
    PROVE  PageSound'
<1> DEFINE run == [file |-> f, at |-> "read", n |-> 0]
<1>1. /\ cards' = <<>> /\ drops' = Append(drops, run)
      /\ overlapped' = (overlapped \/ checks # {}
                        \/ \E d \in DOMAIN drops : drops[d].at # "done")
      /\ UNCHANGED <<checks, saved, badges>>
  BY DEF Choose, Drop
<1>2. drops \in Seq(Run) /\ \A e \in DOMAIN drops : RunTyped(drops[e])
  BY DEF PageSound, PageTyped
<1>3. run \in Run /\ run.at = "read" /\ RunTyped(run)
  BY DEF Run, Stage, RunTyped
<1> HIDE DEF run
<1>4. /\ drops' \in Seq(Run) /\ Len(drops') = Len(drops) + 1
      /\ Len(drops) \in Nat /\ DOMAIN drops = 1..Len(drops)
      /\ DOMAIN drops' = 1..Len(drops) + 1
      /\ drops'[Len(drops) + 1] = run
      /\ \A e \in DOMAIN drops : drops'[e] = drops[e]
  BY <1>1, <1>2, <1>3, AppendedElements
<1>5. \A e \in DOMAIN drops' : e \in DOMAIN drops \/ e = Len(drops) + 1
  BY <1>4
<1>6. SameFiles(drops, drops')
  <2>1. \A e \in DOMAIN drops : e \in DOMAIN drops'
    BY <1>4
  <2> QED BY <1>4, <2>1 DEF SameFiles
<1>7. PageTyped'
  <2>1. \A e \in DOMAIN drops' : RunTyped(drops'[e])
    BY <1>2, <1>3, <1>4, <1>5
  <2>2. CardsTyped(drops', cards')
    BY <1>1 DEF CardsTyped
  <2>3. \A k \in checks' : ClickTyped(drops', k)
    BY <1>1, <1>6, TypedWithSameFiles DEF PageSound, PageTyped
  <2>4. \A e \in saved' : e \in DOMAIN drops' /\ drops'[e].at = "done"
    <3>1. \A e \in saved : e \in DOMAIN drops /\ drops[e].at = "done"
      BY DEF PageSound, PageTyped
    <3> QED BY <1>1, <1>4, <1>6, <3>1 DEF SameFiles
  <2>5. \A m \in DOMAIN badges' :
            BadgeSaid(badges'[m].binding, badges'[m].status)
    BY <1>1 DEF PageSound, PageTyped
  <2> QED BY <1>4, <2>1, <2>2, <2>3, <2>4, <2>5 DEF PageTyped
<1>8. Alone'
  <2> SUFFICES ASSUME ~overlapped'
               PROVE  /\ \A e \in DOMAIN drops' : e # Here' =>
                                                  drops'[e].at = "done"
                      /\ checks' = {}
                      /\ \A i \in DOMAIN cards' : cards'[i].of = Here'
                      /\ InStep(drops'[Here'], cards', checks',
                                Here' \in saved')
    BY DEF Alone
  <2>1. checks' = {} /\ \A e \in DOMAIN drops : drops[e].at = "done"
    BY <1>1
  <2>2. Here' = Len(drops) + 1
    BY <1>4 DEF Here
  <2>3. \A e \in DOMAIN drops' : e # Here' => drops'[e].at = "done"
    BY <1>4, <1>5, <2>1, <2>2
  <2>4. InStep(drops'[Here'], cards', checks', Here' \in saved')
    BY <1>1, <1>3, <1>4, <2>2 DEF InStep
  <2>5. \A i \in DOMAIN cards' : cards'[i].of = Here'
    BY <1>1
  <2> QED BY <2>1, <2>3, <2>4, <2>5
<1> QED BY <1>7, <1>8 DEF PageSound

LEMMA ReVerifyIsSound ==
    ASSUME PageSound, NEW f \in File, NEW late \in SUBSET DOMAIN f.bindings,
           ReVerify(f, late)
    PROVE  PageSound'
<1> DEFINE bs == Collected(f.bindings, late)
<1>1. /\ UNCHANGED <<drops, cards, checks, saved, overlapped>>
      /\ \A n \in late : f.bindings[n] \in DOMAIN Upgrade
      /\ badges' = badges \/ \E types : badges' = Graded(bs, types)
  BY DEF ReVerify
<1>2. ASSUME NEW n \in DOMAIN bs
      PROVE  IsBinding(bs[n])
  <2>1. n \in DOMAIN f.bindings
        /\ bs[n] = IF n \in late THEN Upgrade[f.bindings[n]]
                   ELSE f.bindings[n]
    BY <1>2 DEF Collected
  <2>2. IsFile(f)
    BY PageAssumption
  <2> QED BY <1>1, <2>1, <2>2, PageAssumption DEF IsFile
<1> HIDE DEF bs
<1>3. ASSUME NEW n \in DOMAIN badges'
      PROVE  BadgeSaid(badges'[n].binding, badges'[n].status)
  <2>1. CASE badges' = badges
    BY <1>3, <2>1 DEF PageSound, PageTyped
  <2>2. CASE badges' # badges
    <3>1. PICK types : badges' = Graded(bs, types)
      BY <1>1, <2>2
    <3>2. n \in DOMAIN bs /\ badges'[n].binding = bs[n]
          /\ badges'[n].status = BadgeStatus(bs[n])
      BY <1>3, <3>1 DEF Graded
    <3> QED BY <1>2, <3>2, BadgesAreTrue
  <2> QED BY <2>1, <2>2
<1>4. PageTyped'
  BY <1>1, <1>3 DEF PageSound, PageTyped
<1>5. Alone'
  BY <1>1 DEF PageSound, Alone, Here
<1> QED BY <1>4, <1>5 DEF PageSound

\* A step of a check: the new cards and checks, and that each binding still
\* has one card if it had.
LEMMA CheckMoves ==
    ASSUME PageSound, UNCHANGED <<drops, saved, badges>>,
           CardsTyped(drops, cards'),
           \A k \in checks' : ClickTyped(drops, k),
           ~overlapped' =>
               /\ ~overlapped /\ drops # <<>>
               /\ drops[Here].at = "done" /\ Here \in saved
               /\ \A k \in checks' : k.of = Here
               /\ \A k, l \in checks' : k.n = l.n => k = l
               /\ \A i \in DOMAIN cards' : cards'[i].of = Here
               /\ \A m \in DOMAIN drops[Here].file.bindings :
                      Once(m, cards', checks')
    PROVE  PageSound'
<1>1. PageTyped'
  BY DEF PageSound, PageTyped
<1>2. Alone'
  <2>1. ASSUME ~overlapped'
        PROVE  /\ \A d \in DOMAIN drops : d # Here => drops[d].at = "done"
               /\ InStep(drops[Here], cards', checks', Here \in saved)
    BY <2>1 DEF PageSound, Alone, InStep
  <2> QED BY <2>1 DEF Alone, Here
<1> QED BY <1>1, <1>2 DEF PageSound

\* A check, as long as nothing has overlapped, finds its file verified.
LEMMA CheckAlone ==
    ASSUME PageSound, NEW k \in checks, ~overlapped
    PROVE  /\ drops # <<>> /\ drops[Here].at = "done" /\ Here \in saved
           /\ k.of = Here /\ Here \in DOMAIN drops
           /\ \A l \in checks : l.of = Here
           /\ \A j, l \in checks : j.n = l.n => j = l
           /\ \A i \in DOMAIN cards : cards[i].of = Here
           /\ \A m \in DOMAIN drops[Here].file.bindings :
                  Once(m, cards, checks)
<1>1. /\ drops[Here].at = "done" /\ Here \in saved
      /\ \A l \in checks : l.of = Here
      /\ \A j, l \in checks : j.n = l.n => j = l
      /\ \A i \in DOMAIN cards : cards[i].of = Here
  BY DEF PageSound, Alone
<1>2. Here \in DOMAIN drops
  BY <1>1 DEF PageSound, PageTyped
<1>3. drops # <<>>
  BY <1>2
<1>4. InStep(drops[Here], cards, checks, Here \in saved)
  BY <1>3 DEF PageSound, Alone
<1>5. \A m \in DOMAIN drops[Here].file.bindings : Once(m, cards, checks)
  BY <1>1, <1>4 DEF InStep
<1> QED BY <1>1, <1>2, <1>3, <1>5

LEMMA CheckIsSound ==
    ASSUME PageSound, NEW d \in DOMAIN drops, NEW n \in DOMAIN Bindings(d),
           Check(d, n)
    PROVE  PageSound'
<1> DEFINE new == [of |-> d, n |-> n, at |-> "asked"]
<1>1. /\ checks' = checks \cup {new}
      /\ \A k \in checks : k.of # d \/ k.n # n
      /\ overlapped' = (overlapped
                        \/ \E e \in DOMAIN drops : drops[e].at # "done")
      /\ UNCHANGED <<drops, cards, saved, badges>>
  BY DEF Check, Drop
<1>2. PICK i \in DOMAIN cards :
          cards[i].of = d /\ cards[i].n = n /\ cards[i].part = "pending"
  BY DEF Check
<1>3. CardsTyped(drops, cards) /\ CardTyped(drops, cards[i])
  BY DEF PageSound, PageTyped, CardsTyped
<1>4. d \in Nat /\ n \in Nat /\ n > 0 /\ n \in DOMAIN drops[d].file.bindings
  BY DroppedFile DEF Bindings
<1>5. new.of = d /\ new.n = n /\ new.at = "asked" /\ new \in Click
  BY <1>4 DEF Click
<1> HIDE DEF new
<1>6. \A k \in checks' : ClickTyped(drops, k)
  <2>1. ClickTyped(drops, new)
    BY <1>4, <1>5 DEF ClickTyped
  <2> QED BY <1>1, <2>1 DEF PageSound, PageTyped
<1>7. ASSUME ~overlapped'
      PROVE  /\ ~overlapped /\ drops # <<>>
             /\ drops[Here].at = "done" /\ Here \in saved
             /\ \A k \in checks' : k.of = Here
             /\ \A k, l \in checks' : k.n = l.n => k = l
             /\ \A j \in DOMAIN cards' : cards'[j].of = Here
             /\ \A m \in DOMAIN drops[Here].file.bindings :
                    Once(m, cards', checks')
  <2>1. ~overlapped /\ \A e \in DOMAIN drops : drops[e].at = "done"
    BY <1>1, <1>7
  <2>2. /\ \A k \in checks : k.of = Here
        /\ \A k, l \in checks : k.n = l.n => k = l
        /\ \A j \in DOMAIN cards : cards[j].of = Here
    BY <2>1 DEF PageSound, Alone
  <2>3. d = Here /\ drops # <<>>
    BY <1>2, <2>2
  <2>4. InStep(drops[Here], cards, checks, Here \in saved)
    BY <2>1, <2>3 DEF PageSound, Alone
  <2>5. Here \in saved
    <3>1. Here \notin saved => cards[i].n = 0
      BY <1>2, <2>1, <2>3, <2>4 DEF InStep
    <3> QED BY <1>2, <1>4, <3>1
  <2>6. drops[Here].at = "done"
    BY <2>1, <2>3
  <2>7. \A m \in DOMAIN drops[Here].file.bindings : Once(m, cards, checks)
    BY <2>4, <2>5, <2>6 DEF InStep
  <2>8. /\ \A k \in checks' : k.of = Here
        /\ \A k, l \in checks' : k.n = l.n => k = l
    <3>1. \A k \in checks : k.n # n
      BY <1>1, <2>2, <2>3
    <3> QED BY <1>1, <1>5, <2>2, <2>3, <3>1
  <2>9. ASSUME NEW m \in DOMAIN drops[Here].file.bindings
        PROVE  Once(m, cards', checks')
    <3>1. Once(m, cards, checks)
      BY <2>7
    <3>2. CASE m = n
      <4>1. i \in CardsAbout(cards, n)
        BY <1>2 DEF CardsAbout
      <4>2. CardsAbout(cards, n) = {i}
        BY <3>1, <3>2, <4>1 DEF Once
      <4>3. \A k \in checks' : k.n = n => k.at = "asked"
        BY <1>1, <1>5, <3>1, <3>2, <4>1 DEF Once
      <4> QED BY <1>1, <1>2, <3>2, <4>2, <4>3 DEF Once
    <3>3. CASE m # n
      <4>1. \A k : k \in checks' /\ k.n = m <=> k \in checks /\ k.n = m
        BY <1>1, <1>5, <3>3
      <4> QED BY <1>1, <3>1, <4>1 DEF Once
    <3> QED BY <3>2, <3>3
  <2> QED BY <1>1, <2>1, <2>2, <2>3, <2>5, <2>6, <2>8, <2>9
<1> QED BY <1>1, <1>3, <1>6, <1>7, CheckMoves

LEMMA NotSequencedIsSound ==
    ASSUME PageSound, NEW k \in checks, NotSequenced(k)
    PROVE  PageSound'
<1>1. k.at = "asked" /\ checks' = checks \ {k}
      /\ UNCHANGED <<drops, cards, saved, badges, overlapped>>
  BY DEF NotSequenced
<1>2. /\ CardsTyped(drops, cards)
      /\ \A l \in checks' : ClickTyped(drops, l)
  BY <1>1 DEF PageSound, PageTyped
<1>3. ASSUME ~overlapped,
             NEW m \in DOMAIN drops[Here].file.bindings
      PROVE  Once(m, cards', checks')
  <2>1. Once(m, cards, checks)
    BY <1>3, CheckAlone
  <2>2. CASE CardsAbout(cards, m) = {}
    BY <1>1, <2>1, <2>2 DEF Once
  <2>3. CASE CardsAbout(cards, m) # {}
    BY <1>1, <2>1, <2>3 DEF Once
  <2> QED BY <2>2, <2>3
<1>4. ~overlapped =>
          /\ drops # <<>> /\ drops[Here].at = "done" /\ Here \in saved
          /\ \A l \in checks' : l.of = Here
          /\ \A j, l \in checks' : j.n = l.n => j = l
          /\ \A i \in DOMAIN cards' : cards'[i].of = Here
  BY <1>1, CheckAlone
<1> QED BY <1>1, <1>2, <1>3, <1>4, CheckMoves

LEMMA SequencedIsSound ==
    ASSUME PageSound, NEW k \in checks, Sequenced(k)
    PROVE  PageSound'
<1> DEFINE shown == {i \in DOMAIN cards : cards[i].of = k.of /\ cards[i].n = k.n
                                          /\ cards[i].part = "pending"}
           new == [k EXCEPT !.at = "proved"]
           bs == drops[k.of].file.bindings
<1>1. /\ k.at = "asked" /\ bs[k.n] \in DOMAIN Upgrade
      /\ checks' = (checks \ {k}) \cup {new}
      /\ cards' = IF shown = {} THEN cards ELSE RemoveAt(cards, Min(shown))
      /\ UNCHANGED <<drops, saved, badges, overlapped>>
  BY DEF Sequenced, Bindings
<1>2. ClickTyped(drops, k) /\ CardsTyped(drops, cards) /\ cards \in Seq(Shown)
  BY DEF PageSound, PageTyped, CardsTyped
<1>3. new \in Click /\ new.of = k.of /\ new.n = k.n /\ new.at = "proved"
  BY <1>2 DEF ClickTyped, Click
<1> HIDE DEF new
<1>4. \A l \in checks' : ClickTyped(drops, l)
  <2>1. ClickTyped(drops, new)
    BY <1>1, <1>2, <1>3 DEF ClickTyped
  <2> QED BY <1>1, <2>1 DEF PageSound, PageTyped
<1>5. shown # {} => Min(shown) \in shown
  <2>1. shown \in SUBSET Nat
    BY <1>2
  <2> HIDE DEF shown
  <2> QED BY <2>1, MinIsLeast
<1>6. CardsTyped(drops, cards')
  <2>1. shown # {} => Min(shown) \in DOMAIN cards
    BY <1>5
  <2> HIDE DEF shown
  <2> QED BY <1>1, <1>2, <2>1, CardsTypedMoves
<1>7. ASSUME ~overlapped
      PROVE  /\ \A l \in checks' : l.of = Here
             /\ \A j, l \in checks' : j.n = l.n => j = l
             /\ \A i \in DOMAIN cards' : cards'[i].of = Here
             /\ \A m \in DOMAIN drops[Here].file.bindings :
                    Once(m, cards', checks')
  <2>1. /\ k.of = Here /\ k.n \in DOMAIN drops[Here].file.bindings
        /\ \A l \in checks : l.of = Here
        /\ \A j, l \in checks : j.n = l.n => j = l
        /\ \A i \in DOMAIN cards : cards[i].of = Here
        /\ \A m \in DOMAIN drops[Here].file.bindings : Once(m, cards, checks)
    BY <1>2, <1>7, CheckAlone DEF ClickTyped
  <2>2. \A l \in checks \ {k} : l.n # k.n
    BY <2>1
  <2>3. /\ \A l \in checks' : l.of = Here
        /\ \A j, l \in checks' : j.n = l.n => j = l
    BY <1>1, <1>3, <2>1, <2>2
  <2>4. Once(k.n, cards, checks)
    BY <2>1
  <2>5. PICK i \in DOMAIN cards :
            CardsAbout(cards, k.n) = {i} /\ cards[i].part = "pending"
    <3>1. \A l \in checks : l.n = k.n => l = k
      BY <2>2
    <3>2. ~\E l \in checks : l.n = k.n /\ l.at = "proved"
      BY <1>1, <3>1
    <3>3. \E i \in DOMAIN cards :
              /\ CardsAbout(cards, k.n) = {i}
              /\ (\E l \in checks : l.n = k.n) => cards[i].part = "pending"
      BY <2>4, <3>2, Zenon DEF Once
    <3> QED BY <3>3
  <2>6. shown = {i}
    <3>1. i \in shown
      BY <2>1, <2>5 DEF CardsAbout
    <3>2. \A j \in shown : j \in CardsAbout(cards, k.n)
      BY DEF CardsAbout
    <3> HIDE DEF shown
    <3> QED BY <2>5, <3>1, <3>2
  <2>7. Min(shown) = i /\ shown # {}
    BY <1>5, <2>6
  <2>8. cards' = RemoveAt(cards, i)
    <3> HIDE DEF shown
    <3> QED BY <1>1, <2>7
  <2>9. /\ Len(cards) \in Nat /\ DOMAIN cards = 1..Len(cards) /\ i \in Nat
        /\ DOMAIN cards' = 1..Len(cards) - 1
        /\ \A j \in 1..Len(cards) - 1 :
              cards'[j] = IF j < i THEN cards[j] ELSE cards[j + 1]
    BY <1>2, <2>8, RemovedElements
  <2> HIDE DEF shown
  <2>10. \A j \in DOMAIN cards' : cards'[j].of = Here
    <3>1. ASSUME NEW j \in DOMAIN cards'
          PROVE  cards'[j] = cards[j] \/ cards'[j] = cards[j + 1]
      BY <2>9, <3>1
    <3>2. ASSUME NEW j \in DOMAIN cards'
          PROVE  j \in DOMAIN cards /\ j + 1 \in DOMAIN cards
      BY <2>9, <3>2
    <3> QED BY <2>1, <3>1, <3>2
  <2>11. CardsAbout(cards', k.n) = {}
    <3>1. ASSUME NEW j \in DOMAIN cards', cards'[j].n = k.n
          PROVE  FALSE
      <4>1. /\ j \in 1..Len(cards) - 1 /\ j \in DOMAIN cards
            /\ j + 1 \in DOMAIN cards
        BY <2>9, <3>1
      <4>2. CASE j < i
        <5>1. j \in CardsAbout(cards, k.n)
          BY <2>9, <3>1, <4>1, <4>2 DEF CardsAbout
        <5> QED BY <2>5, <2>9, <4>1, <4>2, <5>1
      <4>3. CASE ~(j < i)
        <5>1. j + 1 \in CardsAbout(cards, k.n)
          BY <2>9, <3>1, <4>1, <4>3 DEF CardsAbout
        <5> QED BY <2>5, <2>9, <4>1, <4>3, <5>1
      <4> QED BY <4>2, <4>3
    <3> QED BY <3>1 DEF CardsAbout
  <2>12. ASSUME NEW m \in DOMAIN drops[Here].file.bindings, m # k.n
         PROVE  Once(m, cards', checks')
    <3>1. Once(m, cards, checks)
      BY <2>1
    <3>2. \A l : l \in checks' /\ l.n = m <=> l \in checks /\ l.n = m
      BY <1>1, <1>3, <2>12
    <3>3. CASE CardsAbout(cards, m) = {}
      <4>1. CardsAbout(cards', m) = {}
        <5>1. ASSUME NEW j \in DOMAIN cards', cards'[j].n = m
              PROVE  FALSE
          <6>1. /\ j \in 1..Len(cards) - 1 /\ j \in DOMAIN cards
                /\ j + 1 \in DOMAIN cards
            BY <2>9, <5>1
          <6>2. cards'[j] = cards[j] \/ cards'[j] = cards[j + 1]
            BY <2>9, <6>1
          <6> QED BY <3>3, <5>1, <6>1, <6>2 DEF CardsAbout
        <5> QED BY <5>1 DEF CardsAbout
      <4> QED BY <3>1, <3>2, <3>3, <4>1 DEF Once
    <3>4. CASE CardsAbout(cards, m) # {}
      <4>1. PICK j \in DOMAIN cards :
                /\ CardsAbout(cards, m) = {j}
                /\ (\E l \in checks : l.n = m) => cards[j].part = "pending"
        BY <3>1, <3>4 DEF Once
      <4>2. \A l \in checks : l.n = m => l.at = "asked"
        BY <3>1, <3>4 DEF Once
      <4>3. cards[j].n = m /\ j # i
        <5>1. j \in CardsAbout(cards, m) /\ i \in CardsAbout(cards, k.n)
          BY <2>5, <4>1
        <5> QED BY <2>12, <5>1 DEF CardsAbout
      <4> DEFINE q == IF j < i THEN j ELSE j - 1
      <4>4. q \in DOMAIN cards' /\ cards'[q] = cards[j]
        <5>1. CASE j < i
          <6>1. j \in 1..Len(cards) - 1
            BY <2>9, <5>1
          <6> QED BY <2>9, <5>1, <6>1
        <5>2. CASE ~(j < i)
          <6>1. j - 1 \in 1..Len(cards) - 1 /\ ~(j - 1 < i) /\ j - 1 + 1 = j
            BY <2>9, <4>3, <5>2
          <6> QED BY <2>9, <5>2, <6>1
        <5> QED BY <5>1, <5>2
      <4>5. \A p \in CardsAbout(cards', m) : p = q
        <5>1. ASSUME NEW p \in DOMAIN cards', cards'[p].n = m
              PROVE  p = q
          <6>1. p \in 1..Len(cards) - 1 /\ p \in DOMAIN cards
                /\ p + 1 \in DOMAIN cards /\ p \in Nat
            BY <2>9, <5>1
          <6>2. CASE p < i
            <7>1. p \in CardsAbout(cards, m)
              BY <2>9, <5>1, <6>1, <6>2 DEF CardsAbout
            <7> QED BY <4>1, <6>2, <7>1
          <6>3. CASE ~(p < i)
            <7>1. p + 1 \in CardsAbout(cards, m)
              BY <2>9, <5>1, <6>1, <6>3 DEF CardsAbout
            <7>2. p + 1 = j
              BY <4>1, <7>1
            <7> QED BY <2>9, <6>1, <6>3, <7>2
          <6> QED BY <6>2, <6>3
        <5> QED BY <5>1 DEF CardsAbout
      <4> HIDE DEF q
      <4>6. CardsAbout(cards', m) = {q}
        <5>1. q \in CardsAbout(cards', m)
          BY <4>3, <4>4 DEF CardsAbout
        <5> QED BY <4>5, <5>1
      <4>7. \A l \in checks' : l.n = m => l.at = "asked"
        BY <3>2, <4>2
      <4>8. (\E l \in checks' : l.n = m) => cards'[q].part = "pending"
        BY <3>2, <4>1, <4>4
      <4> QED BY <4>4, <4>6, <4>7, <4>8 DEF Once
    <3> QED BY <3>3, <3>4
  <2>13. Once(k.n, cards', checks')
    BY <1>1, <1>3, <2>11 DEF Once
  <2> QED BY <2>3, <2>10, <2>12, <2>13
<1>8. ~overlapped =>
          drops # <<>> /\ drops[Here].at = "done" /\ Here \in saved
  BY CheckAlone
<1> QED BY <1>1, <1>4, <1>6, <1>7, <1>8, CheckMoves

LEMMA ProvedIsSound ==
    ASSUME PageSound, NEW k \in checks, Proved(k)
    PROVE  PageSound'
<1> DEFINE bs == drops[k.of].file.bindings
           card == Card(k.of, "proof", k.n, SigsumStatus(Upgrade[bs[k.n]]))
<1>1. /\ k.at = "proved" /\ checks' = checks \ {k}
      /\ cards' = Append(cards, card)
      /\ UNCHANGED <<drops, saved, badges, overlapped>>
  BY DEF Proved, Bindings
<1>2. /\ ClickTyped(drops, k) /\ CardsTyped(drops, cards)
      /\ \A l \in checks' : ClickTyped(drops, l)
  BY <1>1 DEF PageSound, PageTyped
<1>3. k.of \in DOMAIN drops /\ k.n \in DOMAIN bs /\ bs[k.n] \in DOMAIN Upgrade
  BY <1>1, <1>2 DEF ClickTyped
<1>4. IsBinding(Upgrade[bs[k.n]])
      /\ Upgrade[bs[k.n]].type = "c2sp-tlog-proof-v1"
  BY <1>3, PageAssumption
<1> DEFINE status == SigsumStatus(Upgrade[bs[k.n]])
<1>5. status \in {"ok", "pending", "fail"}
      /\ CardSaid(Upgrade[bs[k.n]], status)
  BY <1>4, SigsumCardIsTrue DEF Sigsum
<1> HIDE DEF status
<1>6. card.of = k.of /\ card.n = k.n
  BY DEF Card
<1>7. /\ CardsTyped(drops, cards')
      /\ Len(cards) \in Nat /\ DOMAIN cards = 1..Len(cards)
      /\ DOMAIN cards' = 1..Len(cards) + 1
      /\ cards'[Len(cards) + 1] = card
      /\ \A i \in DOMAIN cards : cards'[i] = cards[i]
  <2>1. "proof" \in OfABinding
    BY DEF OfABinding
  <2>2. CardSaid(IF "proof" = "proof" THEN Upgrade[bs[k.n]]
                   ELSE bs[k.n], status)
    BY <1>5
  <2>3. LET t == Append(cards, Card(k.of, "proof", k.n, status))
        IN  /\ CardsTyped(drops, t)
            /\ Len(cards) \in Nat /\ DOMAIN cards = 1..Len(cards)
            /\ DOMAIN t = 1..Len(cards) + 1
            /\ t[Len(cards) + 1] = Card(k.of, "proof", k.n, status)
            /\ \A i \in DOMAIN cards : t[i] = cards[i]
    BY <1>2, <1>3, <1>5, <2>1, <2>2, BindingCard, SMTT(15)
  <2> HIDE DEF card
  <2>4. cards' = Append(cards, Card(k.of, "proof", k.n, status))
    BY <1>1 DEF card, status
  <2>5. card = Card(k.of, "proof", k.n, status)
    BY DEF card, status
  <2> QED BY <2>3, <2>4, <2>5
<1> HIDE DEF card
<1>8. \A i \in DOMAIN cards' : i \in DOMAIN cards \/ i = Len(cards) + 1
  BY <1>7
<1>9. /\ \A i \in DOMAIN cards : i \in DOMAIN cards' /\ i # Len(cards) + 1
      /\ Len(cards) + 1 \in DOMAIN cards'
  BY <1>7
<1>10. ASSUME ~overlapped
       PROVE  /\ \A i \in DOMAIN cards' : cards'[i].of = Here
              /\ \A m \in DOMAIN drops[Here].file.bindings :
                     Once(m, cards', checks')
  <2>1. /\ k.of = Here /\ k.n \in DOMAIN drops[Here].file.bindings
        /\ \A j, l \in checks : j.n = l.n => j = l
        /\ \A i \in DOMAIN cards : cards[i].of = Here
        /\ \A m \in DOMAIN drops[Here].file.bindings : Once(m, cards, checks)
    BY <1>3, <1>10, CheckAlone
  <2>2. \A l \in checks' : l.n # k.n
    BY <1>1, <2>1
  <2>3. \A i \in DOMAIN cards' : cards'[i].of = Here
    BY <1>6, <1>7, <1>8, <2>1
  <2>4. Once(k.n, cards', checks')
    <3>1. CardsAbout(cards, k.n) = {}
      <4>1. Once(k.n, cards, checks)
        BY <2>1
      <4> QED BY <1>1, <4>1 DEF Once
    <3>2. ASSUME NEW i \in DOMAIN cards'
          PROVE  cards'[i].n = k.n <=> i = Len(cards) + 1
      BY <1>6, <1>7, <1>8, <1>9, <3>1, <3>2 DEF CardsAbout
    <3>3. CardsAbout(cards', k.n) = {Len(cards) + 1}
      BY <1>9, <3>2 DEF CardsAbout
    <3> QED BY <1>9, <2>2, <3>3 DEF Once
  <2>5. ASSUME NEW m \in DOMAIN drops[Here].file.bindings, m # k.n
        PROVE  Once(m, cards', checks')
    <3>1. Once(m, cards, checks)
      BY <2>1
    <3>2. \A l : l \in checks' /\ l.n = m <=> l \in checks /\ l.n = m
      BY <1>1, <2>5
    <3>3. CardsAbout(cards', m) = CardsAbout(cards, m)
      <4>1. ASSUME NEW i \in DOMAIN cards', cards'[i].n = m
            PROVE  i \in DOMAIN cards /\ cards[i].n = m
        BY <1>6, <1>7, <1>8, <2>5, <4>1
      <4>2. ASSUME NEW i \in DOMAIN cards, cards[i].n = m
            PROVE  i \in DOMAIN cards' /\ cards'[i].n = m
        BY <1>7, <1>9, <4>2
      <4> QED BY <4>1, <4>2 DEF CardsAbout
    <3>4. CASE CardsAbout(cards, m) = {}
      BY <3>1, <3>2, <3>3, <3>4 DEF Once
    <3>5. CASE CardsAbout(cards, m) # {}
      <4>1. PICK j \in DOMAIN cards :
                /\ CardsAbout(cards, m) = {j}
                /\ (\E l \in checks : l.n = m) => cards[j].part = "pending"
        BY <3>1, <3>5 DEF Once
      <4>2. \A l \in checks : l.n = m => l.at = "asked"
        BY <3>1, <3>5 DEF Once
      <4>3. j \in DOMAIN cards' /\ cards'[j] = cards[j]
        BY <1>7, <1>9
      <4>4. \A l \in checks' : l.n = m => l.at = "asked"
        BY <3>2, <4>2
      <4>5. (\E l \in checks' : l.n = m) => cards'[j].part = "pending"
        BY <3>2, <4>1, <4>3
      <4> QED BY <3>3, <4>1, <4>3, <4>4, <4>5 DEF Once
    <3> QED BY <3>4, <3>5
  <2> QED BY <2>3, <2>4, <2>5
<1>11. ~overlapped =>
          /\ drops # <<>> /\ drops[Here].at = "done" /\ Here \in saved
          /\ \A l \in checks' : l.of = Here
          /\ \A j, l \in checks' : j.n = l.n => j = l
  BY <1>1, CheckAlone
<1> QED BY <1>1, <1>2, <1>7, <1>10, <1>11, CheckMoves

LEMMA PageSoundStep ==
    ASSUME PageSound
    PROVE  /\ PageAct => PageSound'
           /\ PageStep => PageSound'
<1>1. ASSUME PageAct
      PROVE  PageSound'
  BY <1>1, ChooseIsSound, ReVerifyIsSound, CheckIsSound DEF PageAct, Drop
<1>2. ASSUME PageStep
      PROVE  PageSound'
  <2>1. ASSUME NEW d \in DOMAIN drops,
               \/ Read(d) \/ Unreadable(d) \/ Hashed(d)
               \/ Signed(d) \/ DerParsed(d) \/ OtsVerified(d)
        PROVE  PageSound'
    BY <2>1, ReadIsSound, GivenUpSteps, HashedIsSound, SignedIsSound
  <2>2. ASSUME NEW d \in DOMAIN drops, NEW rpc \in BOOLEAN,
               NEW got \in {"ok", "refused", "none"}, Verified(d, rpc, got)
        PROVE  PageSound'
    BY <2>2, VerifiedIsSound
  <2>3. ASSUME NEW k \in checks,
               NotSequenced(k) \/ Sequenced(k) \/ Proved(k)
        PROVE  PageSound'
    BY <2>3, NotSequencedIsSound, SequencedIsSound, ProvedIsSound
  <2> QED BY <1>2, <2>1, <2>2, <2>3, Zenon DEF PageStep, Drop
<1> QED BY <1>1, <1>2

-----------------------------------------------------------------------------
(***************************************************************************)
(* The Worker and the pages together: their steps leave each other's state *)
(* alone, so each keeps its own invariant.                                 *)
(***************************************************************************)
SurfacesSound == CallsSound /\ PageSound /\ acts \in 0..Acts

LEMMA SurfacesSoundInit == Init => SurfacesSound
BY CallsSoundInit, PageSoundInit, SurfacesAssumption DEF Init, SurfacesSound

LEMMA CallsSoundStutter == CallsSound /\ UNCHANGED serverVars => CallsSound'
BY DEF CallsSound, serverVars

LEMMA PageSoundStutter == PageSound /\ UNCHANGED pageVars => PageSound'
BY DEF PageSound, PageTyped, Alone, pageVars, Here

LEMMA SurfacesSoundStep == SurfacesSound /\ [Next]_vars => SurfacesSound'
<1> SUFFICES ASSUME SurfacesSound, [Next]_vars
             PROVE  SurfacesSound'
  OBVIOUS
<1> USE DEF SurfacesSound
<1>1. CASE /\ acts < Acts /\ acts' = acts + 1
           /\ \/ (\E c \in Call, r \in Request : Receive(c, r))
                 /\ UNCHANGED pageVars
              \/ PageAct /\ UNCHANGED serverVars
  <2>1. acts' \in 0..Acts
    BY <1>1, SurfacesAssumption
  <2>2. CASE (\E c \in Call, r \in Request : Receive(c, r))
             /\ UNCHANGED pageVars
    BY <2>1, <2>2, PageSoundStutter, CallsSoundReceive, ServerAssumption
  <2>3. CASE PageAct /\ UNCHANGED serverVars
    BY <2>1, <2>3, CallsSoundStutter, PageSoundStep
  <2> QED BY <1>1, <2>2, <2>3
<1>2. CASE /\ acts = 0 /\ acts' = Acts
           /\ \E c \in Call, r \in Probe : Receive(c, r)
           /\ UNCHANGED pageVars
  BY <1>2, PageSoundStutter, CallsSoundReceive, SurfacesAssumption
<1>3. CASE ServerStep /\ UNCHANGED <<pageVars, acts>>
  BY <1>3, CallsSoundStep, PageSoundStutter
<1>4. CASE PageStep /\ UNCHANGED <<serverVars, acts>>
  BY <1>4, CallsSoundStutter, PageSoundStep
<1>5. CASE UNCHANGED vars
  BY <1>5, CallsSoundStutter, PageSoundStutter DEF vars
<1> QED BY <1>1, <1>2, <1>3, <1>4, <1>5 DEF Next

\* In every state that is reached the calls and the page are sound.
THEOREM SurfacesAreSound == Spec => []SurfacesSound
BY SurfacesSoundInit, SurfacesSoundStep, PTL DEF Spec

\* Tokens stay within the limit, calls, cards and checks are of what there
\* is, only a run there is can have been saved, and no more is done than
\* Acts.
THEOREM TypeCorrect == Spec => []TypeOK
<1>1. SurfacesSound => TypeOK
  <2> SUFFICES ASSUME SurfacesSound
               PROVE  TypeOK
    OBVIOUS
  <2>1. tokens \in 0..Limit /\ acts \in 0..Acts
    BY DEF SurfacesSound, CallsSound
  <2>2. \A c \in Call : calls[c].at \in {"free", "limiter", "out", "done"}
    BY DEF SurfacesSound, CallsSound, CallSound, Waiting, Out, Done, Idle
  <2>3. ASSUME NEW i \in DOMAIN cards
        PROVE  /\ cards[i].of \in Drop
               /\ cards[i].status \in {"ok", "pending", "fail"}
    <3>1. CardTyped(drops, cards[i]) /\ cards \in Seq(Shown)
      BY DEF SurfacesSound, PageSound, PageTyped, CardsTyped
    <3>2. cards[i] \in Shown
      BY <3>1
    <3> QED BY <3>1, <3>2 DEF CardTyped, Shown, Drop
  <2>4. saved \subseteq Drop
    BY DEF SurfacesSound, PageSound, PageTyped, Drop
  <2>5. \A k \in checks : k.of \in Drop /\ k.n \in DOMAIN Bindings(k.of)
    BY DEF SurfacesSound, PageSound, PageTyped, ClickTyped, Drop, Bindings
  <2> QED BY <2>1, <2>2, <2>3, <2>4, <2>5 DEF TypeOK
<1> QED BY <1>1, SurfacesAreSound, PTL

\* Whatever a request asserts, the endpoint answers it under the era it is of
\* and under a revision there is.
THEOREM EndpointServesTheEra == Spec => []ServedUnderItsEra
<1>1. SurfacesSound => ServedUnderItsEra
  BY DEF SurfacesSound, CallsSound, CallSound, Waiting, Out, Done, Idle,
         ServedUnderItsEra
<1> QED BY <1>1, SurfacesAreSound, PTL

\* A tool says of the authorities, the calendars and the ledger what it has
\* heard of them in that very call, all of it, and asks nobody unpaid.
THEOREM ToolsTellWhatTheyHeard == Spec => []ToolsAnswerWhatTheyHeard
<1>1. ASSUME NEW call, CallSound(call)
      PROVE  AnswersWhatItHeard(call)
  <2>1. CASE Waiting(call)
    <3>1. Outbound(call) = {} /\ call.at # "done"
      BY <2>1 DEF Waiting, Outbound
    <3> QED BY <3>1 DEF AnswersWhatItHeard
  <2>2. CASE Out(call)
    <3>1. Outbound(call) \subseteq {"rpc", "assets"} \/ call.paid
      BY <2>2, TokensArePaid DEF Out
    <3>2. call.at # "done"
      BY <2>2 DEF Out
    <3> QED BY <3>1, <3>2 DEF AnswersWhatItHeard
  <2>3. CASE Done(call)
    BY <2>3 DEF Done
  <2> QED BY <1>1, <2>1, <2>2, <2>3 DEF CallSound
<1>2. SurfacesSound => ToolsAnswerWhatTheyHeard
  BY <1>1 DEF SurfacesSound, CallsSound, Idle, ToolsAnswerWhatTheyHeard
<1> QED BY <1>2, SurfacesAreSound, PTL

\* So it is of whatever is shown: the answers, the cards and the badges.
LEMMA BindingsAsSaid ==
    ASSUME SurfacesSound
    PROVE  /\ \A c \in Call : \A e \in Entries(c) : EntrySaid(e)
           /\ \A i \in DOMAIN cards : cards[i].n > 0 =>
                  CardSaid(Subject(cards[i]), cards[i].status)
           /\ \A n \in DOMAIN badges :
                  BadgeSaid(badges[n].binding, badges[n].status)
<1>1. ASSUME NEW c \in Call, NEW e \in Entries(c)
      PROVE  EntrySaid(e)
  <2>1. /\ calls[c].at = "done" /\ calls[c].req.route = "mcp"
        /\ calls[c].req.tool = "verify_anchor_binding"
        /\ calls[c].answer.body # None
        /\ calls[c].answer.body.outcome = "verified"
        /\ e \in Range(calls[c].answer.body.results)
    BY <1>1 DEF Entries
  <2>2. Done(calls[c])
    BY <2>1 DEF SurfacesSound, CallsSound, CallSound, Waiting, Out, Idle
  <2> QED BY <2>1, <2>2 DEF Done
<1>2. ASSUME NEW i \in DOMAIN cards, cards[i].n > 0
      PROVE  CardSaid(Subject(cards[i]), cards[i].status)
  <2>1. CardTyped(drops, cards[i])
    BY DEF SurfacesSound, PageSound, PageTyped, CardsTyped
  <2> QED BY <1>2, <2>1 DEF CardTyped, Subject, Bindings
<1>3. \A n \in DOMAIN badges :
          BadgeSaid(badges[n].binding, badges[n].status)
  BY DEF SurfacesSound, PageSound, PageTyped
<1> QED BY <1>1, <1>2, <1>3

\* The Worker, the verify page, before and after an inclusion check, and the
\* library give a Sigsum binding the verdict of the quorum policy, or refuse one
\* that its batch does not hold, and pass no binding with a flaw that is looked
\* for.
THEOREM VerdictsAgree == Spec => []SurfacesAgree
<1>1. SurfacesSound => SurfacesAgree
  BY BindingsAsSaid DEF SurfacesAgree, EntrySaid, CardSaid, BadgeSaid
<1> QED BY <1>1, SurfacesAreSound, PTL

\* What the surfaces pass over: an inclusion proof beside a Sigsum binding, in
\* the library also beside a timestamp, and in the Worker what Bitcoin has.
THEOREM OverlookedAlways == Spec => []SurfacesTellLess
<1>1. SurfacesSound => SurfacesTellLess
  BY BindingsAsSaid DEF SurfacesTellLess, EntrySaid, CardSaid, BadgeSaid
<1> QED BY <1>1, SurfacesAreSound, PTL

\* However many inclusion checks are made, as long as nothing overlaps the
\* results are of the file dropped last, with one card for each binding of a
\* file that was verified.
THEOREM ResultsTellOneFile == Spec => []CardsTellOneFile
<1>1. ASSUME SurfacesSound, ~overlapped, drops # <<>>
      PROVE  /\ \A i \in DOMAIN cards : cards[i].of = Here
             /\ drops[Here].at = "done" /\ checks = {} =>
                   IF Here \in saved
                   THEN \A n \in DOMAIN Bindings(Here) :
                            Cardinality(CardsOf(n)) = 1
                   ELSE Len(cards) <= 1
                        /\ \A n \in DOMAIN Bindings(Here) : CardsOf(n) = {}
  <2>1. PageSound /\ \A i \in DOMAIN cards : cards[i].of = Here
    BY <1>1 DEF SurfacesSound, PageSound, Alone
  <2>2. InStep(drops[Here], cards, checks, Here \in saved)
    BY <1>1, <2>1 DEF PageSound, Alone
  <2>3. Here \in DOMAIN drops
    <3>1. drops \in Seq(Run)
      BY <2>1 DEF PageSound, PageTyped
    <3> QED BY <1>1, <3>1 DEF Here
  <2>4. ASSUME NEW n \in DOMAIN Bindings(Here)
        PROVE  CardsOf(n) = CardsAbout(cards, n)
    <3>1. n \in Nat /\ n > 0
      BY <2>1, <2>3, DroppedFile DEF Bindings
    <3>2. \A i \in DOMAIN cards : CardTyped(drops, cards[i])
      BY <2>1 DEF PageSound, PageTyped, CardsTyped
    <3>3. ASSUME NEW i \in DOMAIN cards, cards[i].n = n
          PROVE  cards[i].part \in OfABinding
      BY <3>1, <3>2, <3>3 DEF CardTyped
    <3> QED BY <3>3 DEF CardsOf, CardsAbout, OfABinding
  <2>5. ASSUME drops[Here].at = "done", checks = {}, Here \in saved,
               NEW n \in DOMAIN Bindings(Here)
        PROVE  Cardinality(CardsOf(n)) = 1
    <3>1. Once(n, cards, {})
      BY <2>2, <2>5 DEF InStep, Bindings
    <3>2. PICK i \in DOMAIN cards : CardsAbout(cards, n) = {i}
      BY <3>1 DEF Once
    <3> QED BY <2>4, <3>2, FS_Singleton
  <2>6. ASSUME drops[Here].at = "done", checks = {}, Here \notin saved
        PROVE  /\ Len(cards) <= 1
               /\ \A n \in DOMAIN Bindings(Here) : CardsOf(n) = {}
    <3>1. Len(cards) <= 1 /\ \A i \in DOMAIN cards : cards[i].n = 0
      BY <2>2, <2>6 DEF InStep
    <3>2. ASSUME NEW n \in DOMAIN Bindings(Here)
          PROVE  CardsOf(n) = {}
      <4>1. n # 0
        BY <2>1, <2>3, DroppedFile DEF Bindings
      <4> QED BY <3>1, <4>1 DEF CardsOf
    <3> QED BY <3>1, <3>2
  <2> QED BY <2>1, <2>5, <2>6
<1>2. SurfacesSound => CardsTellOneFile
  BY <1>1 DEF CardsTellOneFile
<1> QED BY <1>2, SurfacesAreSound, PTL
=============================================================================
