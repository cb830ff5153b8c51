----------------------- MODULE SigsumReceipt_proofs -----------------------
(***************************************************************************)
(* Safety of the Sigsum client, for any number of stamps, any number of    *)
(* attempts and every lifetime that leaves room for two mint timeouts and  *)
(* the margin.                                                             *)
(*                                                                         *)
(* ReceiptInv is inductive. There is one lemma per action; each proves the *)
(* conjuncts that the action can disturb and carries the others over.      *)
(***************************************************************************)
EXTENDS SigsumReceipt, SequenceTheorems, TLAPS

\* A page that has stamped nothing.
LEMMA InitReceiptInv == Init => ReceiptInv
<1> SUFFICES ASSUME Init PROVE ReceiptInv
  OBVIOUS
<1> USE ReceiptAssumption DEF Init
<1>1. log \in Seq(Stamp) /\ Len(log) = 0
  BY EmptySeq
<1>2. TypeOK
  BY <1>1 DEF TypeOK, Place, Look, Off
<1>3. SessionsSound /\ SessionOutlivesTheTrip
  BY DEF SessionsSound, SessionOutlivesTheTrip
<1>4. LeafOnce
  BY <1>1 DEF LeafOnce, Accepted, Logged
<1>5. LooksGrounded /\ NoReceiptWithoutLeaf /\ ProofsMatchTheLog
  BY <1>1 DEF LooksGrounded, NoReceiptWithoutLeaf, ProofsMatchTheLog, Off
<1> QED BY <1>2, <1>3, <1>4, <1>5 DEF ReceiptInv

\* What the log holds stays where it is when a leaf is appended.
LEMMA AppendLeaf ==
    ASSUME log \in Seq(Stamp), NEW s \in Stamp, log' = Append(log, s)
    PROVE  /\ log' \in Seq(Stamp)
           /\ Len(log) \in Nat
           /\ Len(log') = Len(log) + 1
           /\ \A i \in 1..Len(log) : log'[i] = log[i]
           /\ log'[Len(log) + 1] = s
           /\ Logged' = Logged \cup {s}
<1>1. /\ log' \in Seq(Stamp)
      /\ Len(log) \in Nat
      /\ Len(log') = Len(log) + 1
      /\ \A i \in 1..Len(log) : log'[i] = log[i]
      /\ log'[Len(log) + 1] = s
  BY AppendProperties, LenProperties
<1>2. 1..Len(log') = (1..Len(log)) \cup {Len(log) + 1}
  BY <1>1
<1>3. Logged' = {log'[i] : i \in 1..Len(log')}
  BY DEF Logged
<1>4. Logged' = {log[i] : i \in 1..Len(log)} \cup {s}
  BY <1>1, <1>2, <1>3
<1> QED BY <1>1, <1>4 DEF Logged

\* The log has leaves of stamps only.
LEMMA AcceptedAreStamps ==
    ASSUME TypeOK PROVE Accepted \subseteq Stamp
BY DEF TypeOK, Accepted, Logged

-----------------------------------------------------------------------------
\* The start of a stamp, with the cached artifact or towards a new one.
LEMMA BeginStep ==
    ASSUME ReceiptInv, NEW s \in Stamp, Begin(s)
    PROVE  ReceiptInv'
<1> USE ReceiptAssumption DEF ReceiptInv
<1>a. pc[s] = "idle" /\ UNCHANGED <<now, acked, look, binding, taken, log, head>>
  BY DEF Begin
<1>1. CASE Fresh(session)
  <2>1. /\ Send(s, session.value)
        /\ session \in Session
        /\ session' = session
        /\ session.value \in Nat
        /\ session.expiresAt \in Int
        /\ session.expiresAt <= session.value
        /\ session.expiresAt > now + Margin
    BY <1>1 DEF Begin, Fresh, TypeOK, Session, SessionsSound
  <2> USE <1>a, <2>1 DEF Send
  <2>2. TypeOK' BY DEF TypeOK, Place
  <2>3. SessionsSound' BY DEF TypeOK, SessionsSound
  <2>4. SessionOutlivesTheTrip' BY DEF TypeOK, SessionOutlivesTheTrip
  <2>5. LeafOnce' BY DEF TypeOK, LeafOnce, Accepted, Logged
  <2>6. LooksGrounded' BY DEF TypeOK, LooksGrounded, Accepted, Logged
  <2> QED BY <2>2, <2>3, <2>4, <2>5, <2>6
          DEF NoReceiptWithoutLeaf, ProofsMatchTheLog, Accepted, Logged
<1>2. CASE ~Fresh(session)
  <2>1. /\ session' = None
        /\ pc' = [pc EXCEPT ![s] = "mint"]
        /\ since' = [since EXCEPT ![s] = now]
        /\ UNCHANGED <<carried, offered, flight>>
    BY <1>2 DEF Begin
  <2> USE <1>a, <2>1
  <2>2. TypeOK' BY DEF TypeOK, Place
  <2>3. SessionsSound' BY DEF TypeOK, SessionsSound
  <2>4. SessionOutlivesTheTrip' BY DEF TypeOK, SessionOutlivesTheTrip
  <2>5. LeafOnce' BY DEF TypeOK, LeafOnce, Accepted, Logged
  <2>6. LooksGrounded' BY DEF TypeOK, LooksGrounded, Accepted, Logged
  <2>7. NoReceiptWithoutLeaf' BY DEF NoReceiptWithoutLeaf, Accepted, Logged
  <2>8. ProofsMatchTheLog' BY DEF ProofsMatchTheLog
  <2> QED BY <2>2, <2>3, <2>4, <2>5, <2>6, <2>7, <2>8
<1> QED BY <1>1, <1>2

\* The relay's half of a mint.
LEMMA RelaySealsStep ==
    ASSUME ReceiptInv, NEW s \in Stamp, RelaySeals(s)
    PROVE  ReceiptInv'
<1> USE ReceiptAssumption DEF ReceiptInv, RelaySeals, logVars
<1>1. TypeOK' BY DEF TypeOK
<1>2. SessionsSound' BY DEF TypeOK, SessionsSound
<1>3. SessionOutlivesTheTrip' BY DEF SessionOutlivesTheTrip
<1>4. LeafOnce' BY DEF LeafOnce, Accepted, Logged
<1>5. LooksGrounded' BY DEF LooksGrounded, Accepted, Logged
<1>6. NoReceiptWithoutLeaf' BY DEF NoReceiptWithoutLeaf, Accepted, Logged
<1>7. ProofsMatchTheLog' BY DEF ProofsMatchTheLog
<1> QED BY <1>1, <1>2, <1>3, <1>4, <1>5, <1>6, <1>7

\* The page's half of a mint that works: with the margin in hand, the artifact
\* is sent no later than MintTimeout after it was asked for.
LEMMA MintReturnsStep ==
    ASSUME ReceiptInv, NEW s \in Stamp, MintReturns(s)
    PROVE  ReceiptInv'
<1> USE ReceiptAssumption DEF ReceiptInv, MintReturns, Send
<1>1. /\ offered[s] \in Nat
      /\ since[s] \in Nat
      /\ offered[s] >= since[s] + TTL
      /\ offered[s] >= now + Margin
  BY DEF TypeOK, SessionsSound
<1>2. session' \in Session /\ session'.expiresAt <= session'.value
  BY <1>1 DEF Session
<1>3. TypeOK' BY <1>1, <1>2 DEF TypeOK, Place
<1>4. SessionsSound'
  <2>1. \A r \in Stamp : pc'[r] = "mint" =>
           /\ pc[r] = "mint" /\ since'[r] = since[r] /\ since[r] <= now
           /\ since[r] \in Nat
           /\ session'.expiresAt + MintTimeout >= since[r] + TTL
    BY <1>1 DEF TypeOK, SessionsSound
  <2> QED BY <1>2, <2>1 DEF TypeOK, SessionsSound
<1>5. SessionOutlivesTheTrip' BY <1>1 DEF TypeOK, SessionOutlivesTheTrip
<1>6. LeafOnce' BY DEF TypeOK, LeafOnce, Accepted, Logged
<1>7. LooksGrounded' BY DEF TypeOK, LooksGrounded, Accepted, Logged
<1> QED BY <1>3, <1>4, <1>5, <1>6, <1>7
        DEF NoReceiptWithoutLeaf, ProofsMatchTheLog, Accepted, Logged

\* And of one that does not.
LEMMA MintFailsStep ==
    ASSUME ReceiptInv, NEW s \in Stamp, MintFails(s)
    PROVE  ReceiptInv'
<1> DEFINE exp == IF session = None THEN None ELSE session.value
<1> USE ReceiptAssumption DEF ReceiptInv, MintFails, Send
<1>1. exp \in Nat \cup {None} BY DEF TypeOK, Session
<1>2. exp # None => exp >= now + Margin
  <2> SUFFICES ASSUME session # None PROVE session.value >= now + Margin
    OBVIOUS
  <2>1. session.value \in Nat /\ session.expiresAt \in Int
    BY DEF TypeOK, Session
  <2>2. /\ session.expiresAt <= session.value
        /\ session.expiresAt + MintTimeout >= since[s] + TTL
        /\ now <= since[s] + MintTimeout
    BY DEF SessionsSound
  <2>3. now \in Nat /\ since[s] \in Nat BY DEF TypeOK
  <2> QED BY <2>1, <2>2, <2>3
<1>3. carried' = [carried EXCEPT ![s] = exp] OBVIOUS
<1> HIDE DEF exp
<1>4. TypeOK' BY <1>1, <1>3 DEF TypeOK, Place
<1>5. SessionsSound' BY DEF TypeOK, SessionsSound
<1>6. SessionOutlivesTheTrip'
  BY <1>2, <1>3 DEF TypeOK, SessionOutlivesTheTrip
<1>7. LeafOnce' BY DEF TypeOK, LeafOnce, Accepted, Logged
<1>8. LooksGrounded' BY DEF TypeOK, LooksGrounded, Accepted, Logged
<1> QED BY <1>4, <1>5, <1>6, <1>7, <1>8
        DEF NoReceiptWithoutLeaf, ProofsMatchTheLog, Accepted, Logged

\* The answer to the add-leaf: the log has the leaf.
LEMMA SubmitAckedStep ==
    ASSUME ReceiptInv, NEW s \in Stamp, SubmitAcked(s)
    PROVE  ReceiptInv'
<1> USE ReceiptAssumption DEF ReceiptInv, SubmitAcked, Over, logVars
<1>1. Try(1) \in Look BY DEF Look, Try
<1>2. TypeOK' BY <1>1 DEF TypeOK, Place
<1>3. SessionsSound' BY DEF TypeOK, SessionsSound
<1>4. SessionOutlivesTheTrip' BY DEF TypeOK, SessionOutlivesTheTrip
<1>5. LeafOnce'
  <2>1. Logged' = Logged /\ Accepted' = Accepted BY DEF Accepted, Logged
  <2>2. \A r \in flight \cup Accepted :
           pc'[r] \notin {"idle", "mint", "closed"}
    BY DEF TypeOK, LeafOnce, Accepted
  <2> QED BY <2>1, <2>2 DEF LeafOnce
<1>6. LooksGrounded'
  <2>1. Accepted' = Accepted BY DEF Accepted, Logged
  <2>2. \A r \in Stamp :
           /\ pc'[r] = IF r = s THEN "look" ELSE pc[r]
           /\ look'[r] = IF r = s THEN Try(1) ELSE look[r]
    BY DEF TypeOK
  <2>3. Try(1).at = "head" BY DEF Try
  <2> QED BY <2>1, <2>2, <2>3 DEF LooksGrounded
<1> QED BY <1>2, <1>3, <1>4, <1>5, <1>6
        DEF NoReceiptWithoutLeaf, ProofsMatchTheLog, Accepted, Logged

\* Or the call fails.
LEMMA SubmitFailsStep ==
    ASSUME ReceiptInv, NEW s \in Stamp, SubmitFails(s)
    PROVE  ReceiptInv'
<1> USE ReceiptAssumption DEF ReceiptInv, SubmitFails, Over, logVars
<1>1. TypeOK' BY DEF TypeOK, Place
<1>2. SessionsSound' BY DEF TypeOK, SessionsSound
<1>3. SessionOutlivesTheTrip' BY DEF TypeOK, SessionOutlivesTheTrip
<1>4. LeafOnce' BY DEF TypeOK, LeafOnce, Accepted, Logged
<1>5. LooksGrounded' BY DEF TypeOK, LooksGrounded, Accepted, Logged
<1> QED BY <1>1, <1>2, <1>3, <1>4, <1>5
        DEF NoReceiptWithoutLeaf, ProofsMatchTheLog, Accepted, Logged

-----------------------------------------------------------------------------
\* A tree head to ask a proof for.
LEMMA HeadArrivesStep ==
    ASSUME ReceiptInv, NEW s \in Stamp, HeadArrives(s)
    PROVE  ReceiptInv'
<1> USE ReceiptAssumption DEF ReceiptInv, HeadArrives, logVars
<1>1. TypeOK'
  <2>1. [look[s] EXCEPT !.at = "proof", !.size = head] \in Look
    BY DEF TypeOK, Look
  <2>2. look' = [look EXCEPT ![s] = [look[s] EXCEPT !.at = "proof",
                                                    !.size = head]]
    BY DEF TypeOK
  <2>3. look' \in [Stamp -> Look]
    BY <2>1, <2>2 DEF TypeOK
  <2> QED BY <2>3 DEF TypeOK
<1>2. SessionsSound' BY DEF SessionsSound
<1>3. SessionOutlivesTheTrip' BY DEF SessionOutlivesTheTrip
<1>4. LeafOnce' BY DEF LeafOnce, Accepted, Logged
<1>5. LooksGrounded'
  <2>1. Accepted' = Accepted BY DEF Accepted, Logged
  <2>2. \A r \in Stamp : r # s => look'[r] = look[r] BY DEF TypeOK
  <2>3. look'[s].at = "proof" /\ look'[s].size = head BY DEF TypeOK, Look
  <2> QED BY <2>1, <2>2, <2>3 DEF LooksGrounded
<1>6. NoReceiptWithoutLeaf' BY DEF NoReceiptWithoutLeaf, Accepted, Logged
<1>7. ProofsMatchTheLog' BY DEF ProofsMatchTheLog
<1> QED BY <1>1, <1>2, <1>3, <1>4, <1>5, <1>6, <1>7

\* The look returns: what it returns is a binding of a leaf the log has.
LEMMA ReturnStep ==
    ASSUME ReceiptInv, NEW s \in Stamp, NEW b \in Binding,
           look[s].at # "off", Return(s, b), s \in Accepted,
           b.type = "proof" =>
              /\ b.root = b.size
              /\ b.index < b.size
              /\ b.size <= Len(log)
              /\ log[b.index + 1] = s,
           UNCHANGED <<now, session, since, offered, carried, acked, logVars>>
    PROVE  ReceiptInv'
<1> USE ReceiptAssumption DEF ReceiptInv, Return, logVars
<1>a. b # None
  BY NoneAssumption
<1>1. TypeOK' BY DEF TypeOK, Place, Look, Off
<1>2. SessionsSound' BY DEF TypeOK, SessionsSound
<1>3. SessionOutlivesTheTrip' BY DEF TypeOK, SessionOutlivesTheTrip
<1>4. LeafOnce' BY DEF TypeOK, LeafOnce, Accepted, Logged
<1>5. LooksGrounded' BY <1>a DEF TypeOK, LooksGrounded, Accepted, Logged, Off
<1>6. NoReceiptWithoutLeaf'
  BY DEF TypeOK, NoReceiptWithoutLeaf, Accepted, Logged
<1>7. ProofsMatchTheLog' BY DEF TypeOK, ProofsMatchTheLog
<1> QED BY <1>1, <1>2, <1>3, <1>4, <1>5, <1>6, <1>7

\* The log answered: the leaf is in the tree of the size asked for.
LEMMA ProofArrivesStep ==
    ASSUME ReceiptInv, NEW s \in Stamp, ProofArrives(s)
    PROVE  ReceiptInv'
<1> USE DEF ReceiptInv
<1>1. PICK i \in 1..look[s].size :
         log[i] = s /\ Return(s, Proof(look[s].size, look[s].size, i - 1))
  BY DEF ProofArrives
<1> DEFINE b == Proof(look[s].size, look[s].size, i - 1)
<1>2. /\ look[s].size \in Nat
      /\ look[s].size <= Len(log)
      /\ Len(log) \in Nat
  BY LenProperties DEF ProofArrives, TypeOK, Look, LooksGrounded
<1>3. i \in 1..Len(log) /\ i - 1 \in Nat /\ (i - 1) + 1 = i
  BY <1>2
<1>4. s \in Accepted BY <1>1, <1>3 DEF Accepted, Logged
<1>5. b \in Binding BY <1>2, <1>3 DEF Binding, Proof
<1>6. /\ b.root = b.size
      /\ b.index < b.size
      /\ b.size <= Len(log)
      /\ log[b.index + 1] = s
  BY <1>1, <1>2, <1>3 DEF Proof
<1>7. look[s].at # "off" BY DEF ProofArrives
<1>8. UNCHANGED <<now, session, since, offered, carried, acked, logVars>>
  BY DEF ProofArrives
<1>9. Return(s, b) BY <1>1
<1> HIDE DEF b
<1> QED BY <1>4, <1>5, <1>6, <1>7, <1>8, <1>9, ReturnStep

\* A leaf that is looked for is in the log.
LEMMA LookedForIsAccepted ==
    ASSUME ReceiptInv, NEW s \in Stamp, look[s].at # "off"
    PROVE  s \in Accepted
<1>1. CASE pc[s] = "look" BY <1>1 DEF ReceiptInv, LooksGrounded
<1>2. CASE binding[s] = Pending
  BY <1>2, NoneAssumption DEF ReceiptInv, NoReceiptWithoutLeaf, Binding
<1> QED BY <1>1, <1>2 DEF ReceiptInv, LooksGrounded

\* One more attempt, or the pending binding.
LEMMA TryFailsStep ==
    ASSUME ReceiptInv, NEW s \in Stamp, TryFails(s)
    PROVE  ReceiptInv'
<1>1. look[s].at # "off" BY DEF TryFails
<1>2. CASE Return(s, Pending)
  <2>1. Pending \in Binding /\ Pending.type # "proof" BY DEF Binding, Pending
  <2>2. s \in Accepted BY <1>1, LookedForIsAccepted
  <2>3. UNCHANGED <<now, session, since, offered, carried, acked, logVars>>
    BY DEF TryFails
  <2> QED BY <1>1, <1>2, <2>1, <2>2, <2>3, ReturnStep
<1>3. CASE /\ look' = [look EXCEPT ![s] = Try(@.attempt + 1)]
           /\ UNCHANGED <<binding, pc>>
  <2> USE <1>3 DEF ReceiptInv, TryFails, logVars
  <2>1. Try(look[s].attempt + 1) \in Look BY DEF TypeOK, Look, Try
  <2>2. look' = [look EXCEPT ![s] = Try(look[s].attempt + 1)] BY DEF TypeOK
  <2>3. TypeOK' BY <2>1, <2>2 DEF TypeOK
  <2>4. LooksGrounded'
    BY <1>1, <2>2 DEF TypeOK, LooksGrounded, Accepted, Logged, Try
  <2>5. LeafOnce' BY DEF LeafOnce, Accepted, Logged
  <2> QED BY <2>3, <2>4, <2>5
          DEF SessionsSound, SessionOutlivesTheTrip, NoReceiptWithoutLeaf,
              ProofsMatchTheLog, Accepted, Logged
<1> QED BY <1>2, <1>3 DEF TryFails, Retry

\* The look ends with an exception.
LEMMA LookThrowsStep ==
    ASSUME ReceiptInv, NEW s \in Stamp, LookThrows(s)
    PROVE  ReceiptInv'
<1> USE DEF ReceiptInv, LookThrows, logVars
<1>1. TypeOK' BY DEF TypeOK, Place, Look, Off
<1>2. \A r \in Stamp :
         /\ pc'[r] \in {"idle", "mint", "sent", "look"} => pc'[r] = pc[r]
         /\ pc'[r] = "done" <=> pc[r] = "done"
         /\ pc[r] \notin {"idle", "mint", "closed"} =>
               pc'[r] \notin {"idle", "mint", "closed"}
         /\ look'[r].at # "off" => r # s /\ look'[r] = look[r]
         /\ r # s => pc'[r] = pc[r]
  BY DEF TypeOK, Place, Off
<1>3. Logged' = Logged /\ Accepted' = Accepted BY DEF Accepted, Logged
<1>4. SessionsSound' BY <1>2 DEF SessionsSound
<1>5. SessionOutlivesTheTrip' BY <1>2 DEF SessionOutlivesTheTrip
<1>6. LeafOnce' BY <1>2, <1>3 DEF TypeOK, LeafOnce, Accepted
<1>7. LooksGrounded' BY <1>2, <1>3 DEF LooksGrounded
<1> QED BY <1>1, <1>3, <1>4, <1>5, <1>6, <1>7
        DEF NoReceiptWithoutLeaf, ProofsMatchTheLog

\* A check of a pending binding begins.
LEMMA CheckStep ==
    ASSUME ReceiptInv, NEW s \in Stamp, Check(s)
    PROVE  ReceiptInv'
<1> USE DEF ReceiptInv, Check, logVars
<1>1. Try(1) \in Look BY DEF Look, Try
<1>2. TypeOK' BY <1>1 DEF TypeOK
<1>3. LooksGrounded' BY DEF TypeOK, LooksGrounded, Accepted, Logged, Try
<1>4. LeafOnce' BY DEF LeafOnce, Accepted, Logged
<1> QED BY <1>2, <1>3, <1>4
        DEF SessionsSound, SessionOutlivesTheTrip, NoReceiptWithoutLeaf,
            ProofsMatchTheLog, Accepted, Logged

\* The tab is closed.
LEMMA CloseTabStep ==
    ASSUME ReceiptInv, CloseTab
    PROVE  ReceiptInv'
<1> USE DEF ReceiptInv, CloseTab, Over, logVars
<1>1. TypeOK' BY DEF TypeOK, Place, Ended, Look, Off
<1>2. \A r \in Stamp :
         /\ pc'[r] \notin {"mint", "sent", "look"}
         /\ pc'[r] = "idle" <=> pc[r] = "idle"
         /\ pc'[r] = "done" <=> pc[r] = "done"
         /\ pc[r] \notin {"idle", "mint", "closed"} =>
               pc'[r] \notin {"idle", "mint", "closed"}
         /\ look'[r].at = "off"
  BY DEF TypeOK, Place, Ended, Off
<1>3. Logged' = Logged /\ Accepted' = Accepted BY DEF Accepted, Logged
<1>4. SessionsSound' BY <1>2 DEF SessionsSound
<1>5. SessionOutlivesTheTrip' BY <1>2 DEF SessionOutlivesTheTrip
<1>6. LeafOnce'
  <2>1. \A s \in flight \cup Accepted :
           pc'[s] \notin {"idle", "mint", "closed"}
    BY <1>2, AcceptedAreStamps DEF TypeOK, LeafOnce
  <2> QED BY <1>3, <2>1 DEF LeafOnce
<1>7. LooksGrounded' BY <1>2, <1>3 DEF LooksGrounded
<1> QED BY <1>1, <1>3, <1>4, <1>5, <1>6, <1>7
        DEF NoReceiptWithoutLeaf, ProofsMatchTheLog

-----------------------------------------------------------------------------
\* A request reaches the log, or never will.
LEMMA FlightStep ==
    ASSUME ReceiptInv, NEW s \in Stamp, LogTakes(s) \/ LogMisses(s)
    PROVE  ReceiptInv'
<1> USE DEF ReceiptInv, LogTakes, LogMisses, pageVars
<1>1. s \in flight /\ flight' = flight \ {s} /\ log' = log /\ head' = head
      /\ taken \subseteq taken' /\ taken' \subseteq taken \cup {s}
  OBVIOUS
<1>2. Logged' = Logged /\ Accepted \subseteq Accepted'
      /\ Accepted' \subseteq Accepted \cup {s}
  BY <1>1 DEF Accepted, Logged
<1>3. TypeOK' BY <1>1 DEF TypeOK
<1>4. LeafOnce' BY <1>1, <1>2 DEF TypeOK, LeafOnce, Accepted
<1>5. LooksGrounded' BY <1>1, <1>2 DEF LooksGrounded
<1> QED BY <1>1, <1>2, <1>3, <1>4, <1>5
        DEF SessionsSound, SessionOutlivesTheTrip, NoReceiptWithoutLeaf,
            ProofsMatchTheLog

\* A taken leaf becomes the last of the tree.
LEMMA LogSequencesStep ==
    ASSUME ReceiptInv, NEW s \in Stamp, LogSequences(s)
    PROVE  ReceiptInv'
<1> USE DEF ReceiptInv, LogSequences, pageVars
<1>1. /\ log' \in Seq(Stamp)
      /\ Len(log) \in Nat
      /\ Len(log') = Len(log) + 1
      /\ \A i \in 1..Len(log) : log'[i] = log[i]
      /\ log'[Len(log) + 1] = s
      /\ Logged' = Logged \cup {s}
  BY AppendLeaf DEF TypeOK
<1>2. Accepted' = Accepted BY <1>1 DEF Accepted
<1>3. TypeOK' BY <1>1 DEF TypeOK
<1>4. LeafOnce'
  <2>1. \A i \in 1..Len(log) : log[i] # s BY DEF LeafOnce, Logged
  <2>2. \A i \in 1..Len(log') :
           i \in 1..Len(log) \/ i = Len(log) + 1
    BY <1>1
  <2>3. \A i, j \in 1..Len(log') : log'[i] = log'[j] => i = j
    BY <1>1, <2>1, <2>2 DEF LeafOnce
  <2> QED BY <1>1, <1>2, <2>3 DEF TypeOK, LeafOnce, Accepted
<1>5. LooksGrounded' BY <1>1, <1>2 DEF TypeOK, Look, LooksGrounded
<1>6. ProofsMatchTheLog'
  <2> SUFFICES ASSUME NEW r \in Stamp,
                      binding[r] # None, binding[r].type = "proof"
               PROVE  /\ binding[r].root = binding[r].size
                      /\ binding[r].index < binding[r].size
                      /\ binding[r].size <= Len(log')
                      /\ log'[binding[r].index + 1] = r
    BY DEF ProofsMatchTheLog
  <2>1. binding[r].index \in Nat /\ binding[r].size \in Nat
    BY DEF TypeOK, Binding, Pending
  <2>2. /\ binding[r].root = binding[r].size
        /\ binding[r].index < binding[r].size
        /\ binding[r].size <= Len(log)
        /\ log[binding[r].index + 1] = r
    BY DEF ProofsMatchTheLog
  <2>3. binding[r].index + 1 \in 1..Len(log) BY <1>1, <2>1, <2>2
  <2> QED BY <1>1, <2>1, <2>2, <2>3
<1> QED BY <1>2, <1>3, <1>4, <1>5, <1>6
        DEF SessionsSound, SessionOutlivesTheTrip, NoReceiptWithoutLeaf

\* The published tree grows.
LEMMA LogPublishesStep ==
    ASSUME ReceiptInv, LogPublishes
    PROVE  ReceiptInv'
<1> USE DEF ReceiptInv, LogPublishes, pageVars
<1>1. head' \in Nat /\ head' <= Len(log)
  BY LenProperties DEF TypeOK
<1>2. TypeOK' BY <1>1 DEF TypeOK
<1>3. LeafOnce' BY DEF LeafOnce, Accepted, Logged
<1>4. LooksGrounded' BY <1>1 DEF LooksGrounded, Accepted, Logged
<1> QED BY <1>2, <1>3, <1>4
        DEF SessionsSound, SessionOutlivesTheTrip, NoReceiptWithoutLeaf,
            ProofsMatchTheLog, Accepted, Logged

\* Time passes, as far as the mints allow.
LEMMA TickStep ==
    ASSUME ReceiptInv, Tick
    PROVE  ReceiptInv'
<1> USE ReceiptAssumption DEF ReceiptInv, Tick, pageVars, logVars
<1>1. TypeOK' BY DEF TypeOK
<1>2. SessionsSound' BY DEF TypeOK, SessionsSound
<1>3. LeafOnce' BY DEF LeafOnce, Accepted, Logged
<1> QED BY <1>1, <1>2, <1>3
        DEF SessionOutlivesTheTrip, NoReceiptWithoutLeaf, LooksGrounded,
            ProofsMatchTheLog, Accepted, Logged

\* Nothing happens.
LEMMA StutterStep ==
    ASSUME ReceiptInv, UNCHANGED vars
    PROVE  ReceiptInv'
BY DEF vars, pageVars, logVars, ReceiptInv, TypeOK, SessionsSound,
       SessionOutlivesTheTrip, LeafOnce, LooksGrounded, NoReceiptWithoutLeaf,
       ProofsMatchTheLog, Accepted, Logged

-----------------------------------------------------------------------------
\* Every step of the client, the log or the clock keeps the invariant.
THEOREM ReceiptInvariant == Spec => []ReceiptInv
<1>1. ReceiptInv /\ [Next]_vars => ReceiptInv'
  <2> SUFFICES ASSUME ReceiptInv, [Next]_vars PROVE ReceiptInv'
    OBVIOUS
  <2>1. CASE UNCHANGED vars BY <2>1, StutterStep
  <2>2. CASE CloseTab BY <2>2, CloseTabStep
  <2>3. CASE LogPublishes BY <2>3, LogPublishesStep
  <2>4. CASE Tick BY <2>4, TickStep
  <2>5. ASSUME NEW s \in Stamp, Log(s) PROVE ReceiptInv'
    BY <2>5, FlightStep, LogSequencesStep DEF Log
  <2>6. ASSUME NEW s \in Stamp,
               Begin(s) \/ RelaySeals(s) \/ FetchEnds(s) \/ Check(s)
        PROVE  ReceiptInv'
    BY <2>6, BeginStep, RelaySealsStep, MintReturnsStep, MintFailsStep,
       SubmitAckedStep, SubmitFailsStep, HeadArrivesStep, ProofArrivesStep,
       TryFailsStep, LookThrowsStep, CheckStep DEF FetchEnds
  <2> QED BY <2>1, <2>2, <2>3, <2>4, <2>5, <2>6 DEF Next
<1> QED BY <1>1, InitReceiptInv, PTL DEF Spec

\* Every variable keeps its type.
THEOREM ReceiptTypeCorrect == Spec => []TypeOK
<1>1. ReceiptInv => TypeOK BY DEF ReceiptInv
<1> QED BY <1>1, ReceiptInvariant, PTL

\* The artifact of a submission is good for Margin after it was sent, as long
\* as TTL covers two mint timeouts and Margin.
THEOREM SessionSafety == Spec => []SessionOutlivesTheTrip
<1>1. ReceiptInv => SessionOutlivesTheTrip BY DEF ReceiptInv
<1> QED BY <1>1, ReceiptInvariant, PTL

\* Nobody holds a binding of a leaf the log did not take, and a complete one
\* holds against the log, though its head and its proof were fetched apart.
THEOREM ReceiptSafety == Spec => []ReceiptsHold
<1>1. ReceiptInv => ReceiptsHold BY DEF ReceiptInv, ReceiptsHold
<1> QED BY <1>1, ReceiptInvariant, PTL

-----------------------------------------------------------------------------
\* The leaves whose add-leaf the page has sent.
Submitted == {s \in Stamp : pc[s] \notin {"idle", "mint", "closed"}}

\* To the abstract client a step that leaves these three alone is no step.
LEMMA NothingToSee ==
    ASSUME Submitted' = Submitted, log' = log, binding' = binding
    PROVE  [Receipt!Next]_(Receipt!vars)
BY DEF Receipt!vars, Submitted

\* An add-leaf is sent, with an artifact or without: the one Submit of a stamp.
LEMMA SendSubmits ==
    ASSUME TypeOK, NEW s \in Stamp, NEW exp, Send(s, exp),
           pc[s] \in {"idle", "mint"}, UNCHANGED <<binding, log>>
    PROVE  [Receipt!Next]_(Receipt!vars)
<1>1. s \notin Submitted BY DEF Submitted
<1>2. Submitted' = Submitted \cup {s} BY DEF Submitted, Send, TypeOK
<1>3. Receipt!Submit(s) BY <1>1, <1>2 DEF Receipt!Submit, Submitted
<1> QED BY <1>3 DEF Receipt!Next

\* A look that returns: Prove, Pend, or the same pending binding once more.
LEMMA ReturnShows ==
    ASSUME ReceiptInv, NEW s \in Stamp, NEW b \in Binding,
           look[s].at # "off", Return(s, b), log' = log,
           \/ b = Pending
           \/ \E size \in 1..Len(log) : \E index \in 0..(size - 1) :
                 log[index + 1] = s /\ b = Proof(size, size, index)
    PROVE  [Receipt!Next]_(Receipt!vars)
<1> USE NoneAssumption DEF ReceiptInv, Return
<1>1. \/ pc[s] = "look" /\ binding[s] = None
      \/ pc[s] = "done" /\ binding[s] = Pending
  BY DEF LooksGrounded, Binding
<1>2. Submitted' = Submitted /\ s \in Submitted
  BY <1>1 DEF Submitted, TypeOK
<1>3. CASE b = Pending /\ binding[s] = None
  <2>1. Receipt!Pend(s)
    BY <1>2, <1>3 DEF Receipt!Pend, Submitted, Pending, Receipt!Pending
  <2> QED BY <2>1 DEF Receipt!Next
<1>4. CASE b = Pending /\ binding[s] = Pending
  <2>1. binding' = binding BY <1>4 DEF TypeOK
  <2> QED BY <1>2, <2>1, NothingToSee
<1>5. CASE \E size \in 1..Len(log) : \E index \in 0..(size - 1) :
              log[index + 1] = s /\ b = Proof(size, size, index)
  <2>1. Receipt!Prove(s)
    BY <1>1, <1>2, <1>5
    DEF Receipt!Prove, Submitted, Pending, Receipt!Pending,
        Proof, Receipt!Proof
  <2> QED BY <2>1 DEF Receipt!Next
<1> QED BY <1>1, <1>3, <1>4, <1>5

\* The steps of one stamp or check.
LEMMA StampRefines ==
    ASSUME ReceiptInv, NEW s \in Stamp,
           Begin(s) \/ RelaySeals(s) \/ FetchEnds(s) \/ Check(s)
    PROVE  [Receipt!Next]_(Receipt!vars)
<1> USE DEF ReceiptInv
<1>1. CASE Begin(s)
  <2>1. CASE Fresh(session)
    BY <1>1, <2>1, SendSubmits DEF Begin
  <2>2. CASE ~Fresh(session)
    <3>1. Submitted' = Submitted
      BY <1>1, <2>2 DEF Begin, Submitted, TypeOK
    <3> QED BY <1>1, <2>2, <3>1, NothingToSee DEF Begin
  <2> QED BY <2>1, <2>2
<1>2. CASE RelaySeals(s)
  BY <1>2, NothingToSee DEF RelaySeals, logVars, Submitted
<1>3. CASE MintReturns(s)
  BY <1>3, SendSubmits DEF MintReturns
<1>4. CASE MintFails(s)
  BY <1>4, SendSubmits DEF MintFails
<1>5. CASE SubmitAcked(s) \/ SubmitFails(s) \/ LookThrows(s)
  <2>1. Submitted' = Submitted
    BY <1>5 DEF SubmitAcked, SubmitFails, LookThrows, Submitted, TypeOK
  <2> QED BY <1>5, <2>1, NothingToSee
          DEF SubmitAcked, SubmitFails, LookThrows, logVars
<1>6. CASE HeadArrives(s) \/ Check(s)
  BY <1>6, NothingToSee DEF HeadArrives, Check, logVars, Submitted
<1>7. CASE ProofArrives(s)
  <2> USE <1>7 DEF ProofArrives
  <2>1. PICK i \in 1..look[s].size :
           log[i] = s /\ Return(s, Proof(look[s].size, look[s].size, i - 1))
    OBVIOUS
  <2>a. /\ look[s].size \in Nat
        /\ look[s].size <= Len(log)
        /\ Len(log) \in Nat
    BY LenProperties DEF TypeOK, Look, LooksGrounded
  <2>2. /\ look[s].size \in 1..Len(log)
        /\ i - 1 \in 0..(look[s].size - 1)
        /\ (i - 1) + 1 = i
    BY <2>a
  <2>3. Proof(look[s].size, look[s].size, i - 1) \in Binding
    BY <2>2, LenProperties DEF TypeOK, Look, Binding, Proof
  <2> QED BY <2>1, <2>2, <2>3, ReturnShows DEF logVars
<1>8. CASE TryFails(s)
  <2> USE <1>8 DEF TryFails
  <2>1. Pending \in Binding BY DEF Binding
  <2>2. CASE Return(s, Pending)
    BY <2>1, <2>2, ReturnShows DEF logVars
  <2>3. CASE UNCHANGED <<binding, pc>>
    BY <2>3, NothingToSee DEF logVars, Submitted
  <2> QED BY <2>2, <2>3 DEF Retry
<1> QED BY <1>1, <1>2, <1>3, <1>4, <1>5, <1>6, <1>7, <1>8 DEF FetchEnds

\* The steps of the log, for one leaf.
LEMMA LogRefines ==
    ASSUME ReceiptInv, NEW s \in Stamp, Log(s)
    PROVE  [Receipt!Next]_(Receipt!vars)
<1> USE DEF ReceiptInv, pageVars
<1>1. CASE LogTakes(s) \/ LogMisses(s)
  BY <1>1, NothingToSee DEF LogTakes, LogMisses, Submitted
<1>2. CASE LogSequences(s)
  <2>1. s \in Submitted /\ s \notin Logged
    BY <1>2 DEF LogSequences, LeafOnce, Accepted, Submitted
  <2>2. Receipt!Sequence(s)
    BY <1>2, <2>1
    DEF LogSequences, Receipt!Sequence, Submitted, Logged, Receipt!Logged
  <2> QED BY <2>2 DEF Receipt!Next
<1> QED BY <1>1, <1>2 DEF Log

\* The client, with its session, its retries and its checks, is LeafReceipt: a
\* leaf is submitted once, its receipt never goes back, and a proof places the
\* leaf in the tree whose root it carries.
THEOREM ReceiptRefinement == Spec => ImplementsReceipt
<1>1. Init => Receipt!Init
  BY DEF Init, Receipt!Init
<1>2. ReceiptInv /\ [Next]_vars => [Receipt!Next]_(Receipt!vars)
  <2> SUFFICES ASSUME ReceiptInv, [Next]_vars
               PROVE  [Receipt!Next]_(Receipt!vars)
    OBVIOUS
  <2> USE DEF ReceiptInv
  <2>1. CASE UNCHANGED vars
    BY <2>1, NothingToSee DEF vars, pageVars, logVars, Submitted
  <2>2. CASE CloseTab
    <3>1. Submitted' = Submitted
      BY <2>2 DEF CloseTab, Submitted, Ended, TypeOK, Place
    <3> QED BY <2>2, <3>1, NothingToSee DEF CloseTab, logVars
  <2>3. CASE LogPublishes \/ Tick
    BY <2>3, NothingToSee DEF LogPublishes, Tick, pageVars, logVars, Submitted
  <2>4. ASSUME NEW s \in Stamp,
               Begin(s) \/ RelaySeals(s) \/ FetchEnds(s) \/ Check(s)
        PROVE  [Receipt!Next]_(Receipt!vars)
    BY <2>4, StampRefines
  <2>5. ASSUME NEW s \in Stamp, Log(s) PROVE [Receipt!Next]_(Receipt!vars)
    BY <2>5, LogRefines
  <2> QED BY <2>1, <2>2, <2>3, <2>4, <2>5 DEF Next
<1> QED BY <1>1, <1>2, ReceiptInvariant, PTL
        DEF Spec, ImplementsReceipt, Receipt!Spec
=============================================================================
