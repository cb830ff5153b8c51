------------------------- MODULE SignCeremony_proofs -------------------------
(***************************************************************************)
(* Safety of the signing pages, for any documents, any links and artifacts *)
(* that exist beforehand, and parties of any patience.                     *)
(*                                                                         *)
(* The pages share no state but what a link or a file carries, so each has *)
(* an invariant of its own; only the types are proved together.            *)
(***************************************************************************)
EXTENDS SignCeremony, TLAPS

\* The page that asks: what is on its way and what is there are of the
\* document last chosen, unless files or requests have overlapped.
RequestSound ==
    LET r == request IN
    /\ r.docDigest # None \/ r.reading # {} => r.file # None
    /\ ~r.off \/ r.creating # {} => r.docDigest # None
    /\ ~r.swapped =>
           /\ r.reading \subseteq {r.file}
           /\ r.reading = {} /\ r.docDigest # None => r.docDigest = r.file
           /\ \A env \in r.creating : env.doc = r.docDigest /\ r.reading = {}

\* The page that signs: what is signed is the link's, whatever is loaded
\* meanwhile.
SignSound ==
    LET s == sign IN
    /\ s.open => /\ s.computedDigest # None
                 /\ s.link.h # None => s.computedDigest = s.link.h
    /\ s.job # None =>
           /\ s.link.h # None => s.job.env.doc = s.link.h
           /\ s.link.e # None => s.job.env.id = s.link.e
           /\ s.job.anchor # None =>
                  s.job.anchor.env = s.job.env /\ s.job.anchor.key = s.job.n

\* The page that verifies: it has an artifact to work on.
CheckReady ==
    LET c == check IN
    /\ ~c.off => c.docDigest # None
    /\ ~c.off \/ c.verifying # {} \/ c.open \/ c.job # None =>
           c.sigArtifact # None

\* What a second signing, or what has come of it, says of the first.
NamesTheFirst(env, anchor, key) ==
    /\ env = check.sigArtifact.env
    /\ anchor # None =>
           anchor.signer = check.sigArtifact.key /\ anchor.key = key

\* And that artifact is the one verified, unless a file came in since.
CheckSound ==
    LET c == check
        a == c.sigArtifact
    IN ~c.exchanged =>
        /\ \A v \in c.verifying :
               /\ v.card.of = a
               /\ v.card.match = (c.docDigest = a.env.doc)
               /\ v.card.ok = verifyAssertion(a.assertion, a.key, a.message)
               /\ v.at = "tokens" => v.card.anchor = a.anchor
        /\ c.open => /\ c.docDigest = a.env.doc
                     /\ verifyAssertion(a.assertion, a.key, a.message)
        /\ \A card \in c.cards : card.anchor = card.of.anchor
        /\ c.job # None =>
               c.open /\ NamesTheFirst(c.job.env, c.job.anchor, c.job.n)
        /\ c.counterArtifact # None =>
               /\ c.open
               /\ NamesTheFirst(c.counterArtifact.env,
                                c.counterArtifact.anchor,
                                c.counterArtifact.key)

\* And what is put under it is of one signing, whatever came in.
SecondSound ==
    LET c == check IN
    /\ c.job # None /\ c.job.anchor # None =>
           c.job.anchor.env = c.job.env /\ c.job.anchor.key = c.job.n
    /\ c.counterArtifact # None => OneSigning(c.counterArtifact, c.counterJades)

CeremonyInv ==
    /\ TypeOK
    /\ RequestSound /\ SignSound /\ CheckReady /\ CheckSound /\ SecondSound
    /\ RequestIsOfOneDocument /\ SignedWhatWasAsked

-----------------------------------------------------------------------------
(***************************************************************************)
(* The building blocks.                                                    *)
(***************************************************************************)

\* A signing that begins.
LEMMA StartedIsJob ==
    ASSUME NEW env \in Envelope, NEW n \in Nat
    PROVE  /\ Started(env, n) \in Job /\ Started(env, n) # None
           /\ Started(env, n).env = env /\ Started(env, n).n = n
           /\ Started(env, n).anchor = None
<1>1. Started(env, n) \in Job
  BY DEF Started, Job
<1> QED BY <1>1, NoneAssumption DEF Started

\* A signing that goes on keeps its document and its key; its event, once it
\* has one, is the one worded after the second prompt.
LEMMA OnwardIsJob ==
    ASSUME NEW j \in Job, NEW event \in Event, NEW next \in Onward(j, event)
    PROVE  /\ next \in Job /\ next # None
           /\ next.env = j.env /\ next.n = j.n
           /\ next.anchor \in {j.anchor, event}
<1>1. /\ next \in Job
      /\ next.env = j.env /\ next.n = j.n
      /\ next.anchor \in {j.anchor, event}
  <2>1. CASE j.at = "key"
    BY <2>1 DEF Onward, Job
  <2>2. CASE j.at = "get"
    BY <2>2 DEF Onward, Job
  <2>3. CASE j.at = "anchor"
    BY <2>3 DEF Onward, Job
  <2>4. CASE j.at \notin {"key", "get", "anchor"}
    BY <2>4 DEF Onward
  <2> QED BY <2>1, <2>2, <2>3, <2>4
<1> QED BY <1>1, NoneAssumption

\* What it ends in.
LEMMA EndOfJob ==
    ASSUME NEW j \in Job
    PROVE  /\ ArtifactOf(j) \in Artifact /\ ArtifactOf(j) # None
           /\ ArtifactOf(j).env = j.env /\ ArtifactOf(j).key = j.n
           /\ ArtifactOf(j).anchor = j.anchor
           /\ buildJadesBT(j) \in Jades
           /\ (j.anchor # None => j.anchor.env = j.env /\ j.anchor.key = j.n)
                  => OneSigning(ArtifactOf(j), buildJadesBT(j))
<1>1. /\ j.env \in Envelope /\ j.n \in Nat /\ j.anchor \in Event \cup {None}
  BY DEF Job
<1>2. MessageOf(j) \in Message /\ AssertionOf(j) \in Assertion
  BY <1>1 DEF MessageOf, Message, AssertionOf, Assertion
<1>3. ArtifactOf(j) \in Artifact
  BY <1>1, <1>2 DEF ArtifactOf, Artifact
<1>4. buildJadesBT(j) \in Jades
  BY <1>1, <1>2 DEF buildJadesBT, Jades, Envelope
<1>5. ASSUME j.anchor # None => j.anchor.env = j.env /\ j.anchor.key = j.n
      PROVE  OneSigning(ArtifactOf(j), buildJadesBT(j))
  BY <1>5 DEF OneSigning, ArtifactOf, buildJadesBT, verifyJadesBT,
              verifyAssertion, AssertionOf, MessageOf
<1> QED BY <1>3, <1>4, <1>5, NoneAssumption DEF ArtifactOf

-----------------------------------------------------------------------------
(***************************************************************************)
(* The page that asks.                                                     *)
(***************************************************************************)
\* What it keeps of an envelope: there is a document by then, and a file.
LEMMA AnchoredIsBundle ==
    ASSUME TypeOK, RequestSound, NEW env \in request.creating
    PROVE  Anchored(env) \in Bundle
<1> DEFINE r == request
<1>1. r \in Requesting
  BY DEF TypeOK
<1>2. env \in Envelope /\ r.docDigest \in Doc /\ r.file \in Doc
  BY <1>1 DEF Requesting, RequestSound
<1>3. [type |-> "request_created", env |-> env] \in Event
  BY <1>2 DEF Event
<1>4. [h |-> r.docDigest, e |-> env.id] \in Link
  BY <1>2 DEF Link, Envelope
<1> QED BY <1>1, <1>2, <1>3, <1>4 DEF Anchored, Bundle, Requesting

LEMMA RequestKeepsInv ==
    ASSUME TypeOK, RequestSound, RequestIsOfOneDocument, RequestStep
    PROVE  /\ request' \in Requesting /\ acts' \in Nat
           /\ UNCHANGED <<sign, check, made>>
           /\ RequestSound' /\ RequestIsOfOneDocument'
<1> DEFINE r == request
<1>1. /\ r \in Requesting /\ acts \in Nat /\ \A d \in Doc : d # None
  BY CeremonyAssumption DEF TypeOK
<1>2. ASSUME NEW d \in Doc, setFile(d)
      PROVE  /\ request' \in Requesting /\ acts' \in Nat
             /\ UNCHANGED <<sign, check, made>>
             /\ RequestSound' /\ RequestIsOfOneDocument'
  <2>1. acts' \in Nat /\ UNCHANGED <<sign, check, made>>
    BY <1>1, <1>2 DEF setFile, Act
  <2>2. request' \in Requesting
    BY <1>1, <1>2 DEF setFile, Requesting
  <2>3. /\ request'.file = d /\ request'.docDigest = r.docDigest
        /\ request'.reading = r.reading \cup {d}
        /\ request'.off = r.off /\ request'.creating = r.creating
        /\ request'.bundle = r.bundle
    BY <1>1, <1>2 DEF setFile, Requesting
  <2>4. ~request'.swapped => r.reading = {} /\ r.creating = {}
    BY <1>1, <1>2 DEF setFile, Requesting
  <2>5. RequestSound' /\ RequestIsOfOneDocument'
    BY <1>1, <2>3, <2>4 DEF RequestSound, RequestIsOfOneDocument
  <2> QED BY <2>1, <2>2, <2>5
<1>3. ASSUME NEW d \in Doc, FileHashed(d)
      PROVE  /\ request' \in Requesting /\ acts' \in Nat
             /\ UNCHANGED <<sign, check, made>>
             /\ RequestSound' /\ RequestIsOfOneDocument'
  BY <1>1, <1>3 DEF FileHashed, Requesting, RequestSound,
                    RequestIsOfOneDocument
<1>4. ASSUME NEW d \in Doc, FileUnread(d)
      PROVE  /\ request' \in Requesting /\ acts' \in Nat
             /\ UNCHANGED <<sign, check, made>>
             /\ RequestSound' /\ RequestIsOfOneDocument'
  BY <1>1, <1>4 DEF FileUnread, Requesting, RequestSound,
                    RequestIsOfOneDocument
<1>5. ASSUME ChooseAuthorities
      PROVE  /\ request' \in Requesting /\ acts' \in Nat
             /\ UNCHANGED <<sign, check, made>>
             /\ RequestSound' /\ RequestIsOfOneDocument'
  <2>1. acts' \in Nat /\ UNCHANGED <<sign, check, made>>
    BY <1>1, <1>5 DEF ChooseAuthorities, Act
  <2>2. request' \in Requesting
    BY <1>1, <1>5 DEF ChooseAuthorities, Requesting
  <2> PICK some \in BOOLEAN :
          request' = [r EXCEPT !.checked = some,
                               !.off = r.docDigest = None \/ ~some]
    BY <1>5 DEF ChooseAuthorities
  <2>3. /\ request'.file = r.file /\ request'.docDigest = r.docDigest
        /\ request'.reading = r.reading /\ request'.creating = r.creating
        /\ request'.bundle = r.bundle /\ request'.swapped = r.swapped
    BY <1>1 DEF Requesting
  <2>4. ~request'.off => r.docDigest # None
    BY <1>1 DEF Requesting
  <2>5. RequestSound' /\ RequestIsOfOneDocument'
    BY <1>1, <2>3, <2>4 DEF RequestSound, RequestIsOfOneDocument
  <2> QED BY <2>1, <2>2, <2>5
<1>6. ASSUME Create
      PROVE  /\ request' \in Requesting /\ acts' \in Nat
             /\ UNCHANGED <<sign, check, made>>
             /\ RequestSound' /\ RequestIsOfOneDocument'
  <2> DEFINE env == [id |-> acts', doc |-> r.docDigest]
  <2>1. acts' \in Nat
    BY <1>1, <1>6 DEF Create, Act
  <2>2. r.docDigest \in Doc
    BY <1>1, <1>6 DEF Create, RequestSound, Requesting
  <2>3. env \in Envelope /\ env.doc = r.docDigest
    BY <2>1, <2>2 DEF Envelope
  <2>4. /\ request' = [r EXCEPT !.off = TRUE,
              !.creating = r.creating \cup {env},
              !.swapped = r.swapped \/ r.reading # {} \/ r.creating # {}]
        /\ UNCHANGED <<sign, check, made>>
    BY <1>6 DEF Create
  <2> HIDE DEF env
  <2>5. request' \in Requesting
    BY <1>1, <2>3, <2>4 DEF Requesting
  <2>6. RequestSound' /\ RequestIsOfOneDocument'
    BY <1>1, <2>2, <2>3, <2>4 DEF Requesting, RequestSound,
                                  RequestIsOfOneDocument
  <2> QED BY <2>1, <2>4, <2>5, <2>6
<1>7. ASSUME NEW env \in request.creating, Created(env)
      PROVE  /\ request' \in Requesting /\ acts' \in Nat
             /\ UNCHANGED <<sign, check, made>>
             /\ RequestSound' /\ RequestIsOfOneDocument'
  <2> DEFINE b == Anchored(env)
  <2>1. env \in Envelope /\ r.docDigest \in Doc /\ r.file \in Doc
    BY <1>1 DEF Requesting, RequestSound
  <2>2. /\ b.env = env /\ b.anchor.env = env /\ b.file = r.file
        /\ b.link = [h |-> r.docDigest, e |-> env.id]
        /\ b.alone => ~r.swapped
    BY DEF Anchored
  <2>3. b \in Bundle
    BY <1>7, AnchoredIsBundle
  <2>4. /\ request' = [r EXCEPT !.creating = r.creating \ {env},
                                !.bundle = b]
        /\ UNCHANGED <<sign, check, made, acts>>
    BY <1>7 DEF Created
  <2> HIDE DEF b
  <2>5. request' \in Requesting
    BY <1>1, <2>3, <2>4 DEF Requesting
  <2>6. RequestSound'
    BY <1>1, <2>4 DEF Requesting, RequestSound
  <2>7. RequestIsOfOneDocument'
    <3>1. request'.bundle = b
      BY <1>1, <2>4 DEF Requesting
    <3>2. ~r.swapped => r.docDigest = env.doc /\ r.file = env.doc
      BY <1>1, <2>1 DEF RequestSound
    <3> QED BY <2>2, <3>1, <3>2 DEF RequestIsOfOneDocument
  <2> QED BY <1>1, <2>4, <2>5, <2>6, <2>7
<1>8. ASSUME NEW env \in request.creating, CreateFails(env)
      PROVE  /\ request' \in Requesting /\ acts' \in Nat
             /\ UNCHANGED <<sign, check, made>>
             /\ RequestSound' /\ RequestIsOfOneDocument'
  BY <1>1, <1>8 DEF CreateFails, Requesting, RequestSound,
                    RequestIsOfOneDocument
<1> QED BY <1>2, <1>3, <1>4, <1>5, <1>6, <1>7, <1>8 DEF RequestStep

-----------------------------------------------------------------------------
(***************************************************************************)
(* The page that signs.                                                    *)
(***************************************************************************)

\* A job that is over leaves the rest of the page to be looked at.
LEMMA SignIdle ==
    ASSUME TypeOK, SignSound, SignedWhatWasAsked, sign' \in Signing,
           UNCHANGED <<sign.link, sign.signatureArtifact, sign.jadesReceipt>>,
           sign'.job \in {sign.job, None},
           sign'.open => /\ sign'.computedDigest # None
                         /\ sign.link.h # None =>
                                sign'.computedDigest = sign.link.h
    PROVE  SignSound' /\ SignedWhatWasAsked'
<1>1. SignSound'
  BY DEF SignSound
<1>2. SignedWhatWasAsked'
  BY DEF SignedWhatWasAsked
<1> QED BY <1>1, <1>2

LEMMA SignKeepsInv ==
    ASSUME TypeOK, SignSound, SignedWhatWasAsked, SignStep
    PROVE  /\ sign' \in Signing /\ acts' \in Nat
           /\ made \subseteq made' /\ made' \subseteq Artifact
           /\ UNCHANGED <<request, check>>
           /\ SignSound' /\ SignedWhatWasAsked'
<1> DEFINE s == sign
           Rest == /\ acts' \in Nat /\ made' = made
                   /\ UNCHANGED <<request, check>>
<1>1. /\ s \in Signing /\ acts \in Nat /\ made \subseteq Artifact
      /\ \A d \in Doc : d # None
  BY CeremonyAssumption DEF TypeOK
<1>2. ASSUME NEW l \in Links, Open(l)
      PROVE  /\ sign' \in Signing /\ Rest
             /\ SignSound' /\ SignedWhatWasAsked'
  <2>1. l \in Link
    BY CeremonyAssumption
       DEF Links, NoLink, Link, TypeOK, Requesting, Bundle
  <2>2. sign' = Opened(l) /\ Rest
    BY <1>1, <1>2 DEF Open, Act
  <2>3. sign' \in Signing
    BY <2>1, <2>2 DEF Opened, Signing
  <2>4. SignSound' /\ SignedWhatWasAsked'
    BY <2>2 DEF Opened, SignSound, SignedWhatWasAsked
  <2> QED BY <2>2, <2>3, <2>4
<1>3. ASSUME NEW d \in Doc, loadFile(d)
      PROVE  /\ sign' \in Signing /\ Rest
             /\ SignSound' /\ SignedWhatWasAsked'
  <2>1. Rest /\ sign' = [s EXCEPT !.reading = s.reading \cup {d}]
    BY <1>1, <1>3 DEF loadFile, Act
  <2>2. sign' \in Signing
    BY <1>1, <2>1 DEF Signing
  <2>3. /\ UNCHANGED <<sign.link, sign.signatureArtifact, sign.jadesReceipt>>
        /\ UNCHANGED <<sign.open, sign.computedDigest, sign.job>>
    BY <1>1, <2>1 DEF Signing
  <2>4. SignSound' /\ SignedWhatWasAsked'
    BY <2>2, <2>3, SignIdle DEF SignSound
  <2> QED BY <2>1, <2>2, <2>4
<1>4. ASSUME NEW d \in Doc, LoadedHashed(d)
      PROVE  /\ sign' \in Signing /\ Rest
             /\ SignSound' /\ SignedWhatWasAsked'
  <2>1. Rest
    BY <1>1, <1>4 DEF LoadedHashed
  <2>2. sign' \in Signing
    <3>1. (s.link.h \in {None, d}) \in BOOLEAN
      OBVIOUS
    <3> QED BY <1>1, <1>4, <3>1 DEF LoadedHashed, Signing
  <2>3. /\ UNCHANGED <<sign.link, sign.signatureArtifact, sign.jadesReceipt>>
        /\ UNCHANGED <<sign.job>> /\ sign'.computedDigest = d
    BY <1>1, <1>4 DEF LoadedHashed, Signing
  <2>4. sign'.open => s.link.h = None \/ d = s.link.h
    BY <1>1, <1>4 DEF LoadedHashed, Signing
  <2>5. SignSound' /\ SignedWhatWasAsked'
    BY <1>1, <2>2, <2>3, <2>4, SignIdle
  <2> QED BY <2>1, <2>2, <2>5
<1>5. ASSUME SignClick
      PROVE  /\ sign' \in Signing /\ Rest
             /\ SignSound' /\ SignedWhatWasAsked'
  <2> DEFINE env == [id |-> IF s.link.e = None THEN acts' ELSE s.link.e,
                     doc |-> s.computedDigest]
             j == Started(env, acts')
  <2>1. Rest /\ s.open
    BY <1>1, <1>5 DEF SignClick, Act
  <2>2. s.computedDigest \in Doc /\ s.link \in Link
    BY <1>1, <2>1 DEF SignSound, Signing
  <2>3. env \in Envelope
    BY <2>1, <2>2 DEF Envelope, Link
  <2>4. /\ s.link.h # None => env.doc = s.link.h
        /\ s.link.e # None => env.id = s.link.e
    BY <2>1 DEF SignSound
  <2>5. sign' = [s EXCEPT !.busy = TRUE, !.job = j]
    BY <1>5 DEF SignClick
  <2> HIDE DEF env
  <2>6. j \in Job /\ j # None /\ j.env = env /\ j.anchor = None
    BY <2>1, <2>3, StartedIsJob
  <2> HIDE DEF j
  <2>7. sign' \in Signing
    BY <1>1, <2>5, <2>6 DEF Signing
  <2>8. /\ UNCHANGED <<sign.link, sign.signatureArtifact, sign.jadesReceipt>>
        /\ UNCHANGED <<sign.open, sign.computedDigest>> /\ sign'.job = j
    BY <1>1, <2>5 DEF Signing
  <2>9. SignSound'
    BY <2>4, <2>6, <2>8 DEF SignSound
  <2>10. SignedWhatWasAsked'
    BY <2>8 DEF SignedWhatWasAsked
  <2> QED BY <2>1, <2>7, <2>9, <2>10
<1>6. ASSUME SignGoesOn
      PROVE  /\ sign' \in Signing /\ Rest
             /\ SignSound' /\ SignedWhatWasAsked'
  <2> DEFINE event == [type |-> "signed", env |-> s.job.env, key |-> s.job.n]
  <2>1. Rest /\ s.job # None
    BY <1>1, <1>6 DEF SignGoesOn
  <2>2. s.job \in Job
    BY <1>1, <2>1 DEF Signing
  <2>3. event \in Event
    BY <2>2 DEF Job, Event
  <2>4. event.env = s.job.env /\ event.key = s.job.n
    OBVIOUS
  <2>5. PICK j \in Onward(s.job, event) : sign' = [s EXCEPT !.job = j]
    BY <1>6 DEF SignGoesOn
  <2> HIDE DEF event
  <2>6. /\ j \in Job /\ j # None /\ j.env = s.job.env /\ j.n = s.job.n
        /\ j.anchor \in {s.job.anchor, event}
    BY <2>2, <2>3, OnwardIsJob
  <2>7. sign' \in Signing
    BY <1>1, <2>5, <2>6 DEF Signing
  <2>8. /\ UNCHANGED <<sign.link, sign.signatureArtifact, sign.jadesReceipt>>
        /\ UNCHANGED <<sign.open, sign.computedDigest>> /\ sign'.job = j
    BY <1>1, <2>5 DEF Signing
  <2>9. SignSound'
    BY <2>1, <2>4, <2>6, <2>8 DEF SignSound
  <2>10. SignedWhatWasAsked'
    BY <2>8 DEF SignedWhatWasAsked
  <2> QED BY <2>1, <2>7, <2>9, <2>10
<1>7. ASSUME SignDone
      PROVE  /\ sign' \in Signing /\ acts' \in Nat
             /\ made \subseteq made' /\ made' \subseteq Artifact
             /\ UNCHANGED <<request, check>>
             /\ SignSound' /\ SignedWhatWasAsked'
  <2> DEFINE j == s.job
             a == ArtifactOf(j)
             receipt == buildJadesBT(j)
  <2>1. /\ j # None /\ UNCHANGED <<request, check, acts>>
        /\ sign' = [s EXCEPT !.job = None, !.signatureArtifact = a,
                             !.jadesReceipt = receipt]
        /\ made' = made \cup {a}
    BY <1>7 DEF SignDone, Signed
  <2>2. j \in Job
    BY <1>1, <2>1 DEF Signing
  <2>3. a \in Artifact /\ receipt \in Jades
    BY <2>2, EndOfJob
  <2>4. a.env = j.env /\ OneSigning(a, receipt)
    BY <2>1, <2>2, EndOfJob DEF SignSound
  <2> HIDE DEF a, receipt
  <2>7. sign' \in Signing
    BY <1>1, <2>1, <2>3 DEF Signing
  <2>8. /\ UNCHANGED <<sign.link, sign.open, sign.computedDigest>>
        /\ sign'.job = None /\ sign'.signatureArtifact = a
        /\ sign'.jadesReceipt = receipt
    BY <1>1, <2>1 DEF Signing
  <2>9. SignSound'
    BY <2>8 DEF SignSound
  <2>10. SignedWhatWasAsked'
    <3>1. /\ s.link.h # None => j.env.doc = s.link.h
          /\ s.link.e # None => j.env.id = s.link.e
      BY <2>1 DEF SignSound
    <3> QED BY <2>4, <2>8, <3>1 DEF SignedWhatWasAsked
  <2> QED BY <1>1, <2>1, <2>3, <2>7, <2>9, <2>10
<1>8. ASSUME SignFails
      PROVE  /\ sign' \in Signing /\ Rest
             /\ SignSound' /\ SignedWhatWasAsked'
  <2>1. Rest /\ sign' = [s EXCEPT !.job = None, !.busy = FALSE]
    BY <1>1, <1>8 DEF SignFails
  <2>2. sign' \in Signing
    BY <1>1, <2>1 DEF Signing
  <2>3. /\ UNCHANGED <<sign.link, sign.signatureArtifact, sign.jadesReceipt>>
        /\ UNCHANGED <<sign.open, sign.computedDigest>> /\ sign'.job = None
    BY <1>1, <2>1 DEF Signing
  <2>4. SignSound' /\ SignedWhatWasAsked'
    BY <2>2, <2>3, SignIdle DEF SignSound
  <2> QED BY <2>1, <2>2, <2>4
<1> QED BY <1>1, <1>2, <1>3, <1>4, <1>5, <1>6, <1>7, <1>8 DEF SignStep

-----------------------------------------------------------------------------
(***************************************************************************)
(* The page that verifies.                                                 *)
(***************************************************************************)

\* What a check and a countersigning go by.
LEMMA CheckIdle ==
    ASSUME CheckSound,
           UNCHANGED <<check.docDigest, check.sigArtifact, check.open,
                       check.counterArtifact, check.exchanged, check.cards>>,
           check'.verifying \subseteq check.verifying,
           check'.job # None =>
               check.open /\ (~check.exchanged =>
                   NamesTheFirst(check'.job.env, check'.job.anchor,
                                 check'.job.n))
    PROVE  CheckSound'
BY DEF CheckSound, NamesTheFirst

\* A file that comes in is one that nothing rests on yet, or is told of.
LEMMA FileComesIn ==
    ASSUME CheckSound,
           UNCHANGED <<check.open, check.counterArtifact, check.verifying,
                       check.cards, check.job>>,
           ~check'.exchanged => /\ ~check.exchanged /\ ~check.open
                                /\ check.verifying = {}
    PROVE  CheckSound'
BY DEF CheckSound

LEMMA LoadingKeepsInv ==
    ASSUME TypeOK, CheckReady, CheckSound,
           \/ \E file \in Doc \cup made : LoadCheck(file) \/ CheckUnread(file)
           \/ \E d \in Doc : DocHashed(d)
           \/ \E a \in made : SigRead(a)
    PROVE  /\ check' \in Checking /\ acts' \in Nat
           /\ UNCHANGED <<request, sign, made>>
           /\ CheckReady' /\ CheckSound'
<1> DEFINE c == check
           Rest == acts' \in Nat /\ UNCHANGED <<request, sign, made>>
<1>1. /\ c \in Checking /\ acts \in Nat /\ made \subseteq Artifact
      /\ None \notin Artifact /\ None \notin Doc
  BY CeremonyAssumption, NoneAssumption DEF TypeOK
<1>2. ASSUME NEW file \in Doc \cup made, LoadCheck(file) \/ CheckUnread(file)
      PROVE  check' \in Checking /\ Rest /\ CheckReady' /\ CheckSound'
  <2>1. PICK reading \in SUBSET (Doc \cup Artifact) :
            check' = [c EXCEPT !.reading = reading]
    BY <1>1, <1>2 DEF LoadCheck, CheckUnread, Checking
  <2>2. Rest
    BY <1>1, <1>2 DEF LoadCheck, CheckUnread, Act
  <2>3. check' \in Checking
    BY <1>1, <2>1 DEF Checking
  <2>4. /\ UNCHANGED <<check.docDigest, check.sigArtifact, check.open,
                       check.counterArtifact, check.exchanged, check.cards>>
        /\ UNCHANGED <<check.verifying, check.job, check.off>>
    BY <1>1, <2>1 DEF Checking
  <2>5. CheckReady'
    BY <2>4 DEF CheckReady
  <2>6. CheckSound'
    BY <2>4 DEF CheckSound, NamesTheFirst
  <2> QED BY <2>2, <2>3, <2>5, <2>6
<1>3. ASSUME NEW d \in Doc, DocHashed(d)
      PROVE  check' \in Checking /\ Rest /\ CheckReady' /\ CheckSound'
  <2>1. Rest
    BY <1>1, <1>3 DEF DocHashed
  <2>2. check' \in Checking
    <3>1. Exchanged \in BOOLEAN
      BY <1>1 DEF Exchanged, Checking
    <3>2. (c.sigArtifact = None) \in BOOLEAN
      OBVIOUS
    <3> QED BY <1>1, <1>3, <3>1, <3>2 DEF DocHashed, Checking
  <2>3. /\ UNCHANGED <<check.open, check.counterArtifact, check.verifying,
                       check.cards, check.job, check.sigArtifact>>
        /\ check'.docDigest = d
    BY <1>1, <1>3 DEF DocHashed, Checking
  <2>4. ~check'.off => c.sigArtifact # None
    BY <1>1, <1>3 DEF DocHashed, Checking
  <2>5. ~check'.exchanged =>
            ~c.exchanged /\ ~c.open /\ c.verifying = {}
    BY <1>1, <1>3 DEF DocHashed, Exchanged, Checking
  <2>6. CheckReady'
    BY <1>1, <2>3, <2>4 DEF CheckReady
  <2>7. CheckSound'
    BY <2>3, <2>5, FileComesIn
  <2> QED BY <2>1, <2>2, <2>6, <2>7
<1>4. ASSUME NEW a \in made, SigRead(a)
      PROVE  check' \in Checking /\ Rest /\ CheckReady' /\ CheckSound'
  <2>1. Rest
    BY <1>1, <1>4 DEF SigRead
  <2>2. check' \in Checking
    <3>1. (c.docDigest = None) \in BOOLEAN /\ Exchanged \in BOOLEAN
      BY <1>1 DEF Exchanged, Checking
    <3> QED BY <1>1, <1>4, <3>1 DEF SigRead, Checking
  <2>3. /\ UNCHANGED <<check.open, check.counterArtifact, check.verifying,
                       check.cards, check.job, check.docDigest>>
        /\ check'.sigArtifact = a /\ a # None
    BY <1>1, <1>4 DEF SigRead, Checking
  <2>4. ~check'.off => c.docDigest # None
    BY <1>1, <1>4 DEF SigRead, Checking
  <2>5. ~check'.exchanged =>
            ~c.exchanged /\ ~c.open /\ c.verifying = {}
    BY <1>1, <1>4 DEF SigRead, Exchanged, Checking
  <2>6. CheckReady'
    BY <2>3, <2>4 DEF CheckReady
  <2>7. CheckSound'
    BY <2>3, <2>5, FileComesIn
  <2> QED BY <2>1, <2>2, <2>6, <2>7
<1> QED BY <1>2, <1>3, <1>4

LEMMA VerifyingKeepsInv ==
    ASSUME TypeOK, CheckReady, CheckSound,
           \/ VerifyClick
           \/ \E v \in check.verifying :
                  AssertionVerified(v) \/ TokensVerified(v)
    PROVE  /\ check' \in Checking /\ acts' \in Nat
           /\ UNCHANGED <<request, sign, made>>
           /\ CheckReady' /\ CheckSound'
<1> DEFINE c == check
           a == check.sigArtifact
           Rest == acts' \in Nat /\ UNCHANGED <<request, sign, made>>
<1>1. c \in Checking /\ acts \in Nat
  BY DEF TypeOK
<1>2. ASSUME VerifyClick
      PROVE  check' \in Checking /\ Rest /\ CheckReady' /\ CheckSound'
  <2> DEFINE card == [of |-> a, match |-> c.docDigest = a.env.doc,
                      ok |-> verifyAssertion(a.assertion, a.key, a.message),
                      anchor |-> None]
             v == [at |-> "assertion", card |-> card]
  <2>1. Rest /\ ~c.off
    BY <1>1, <1>2 DEF VerifyClick, Act
  <2>2. a \in Artifact /\ a # None
    BY <1>1, <2>1 DEF CheckReady, Checking
  <2>3. v \in Verification
    BY <2>2 DEF Verification, Card, verifyAssertion
  <2>4. /\ v.at = "assertion" /\ v.card.of = a
        /\ v.card.match = (c.docDigest = a.env.doc)
        /\ v.card.ok = verifyAssertion(a.assertion, a.key, a.message)
    OBVIOUS
  <2>5. check' = [c EXCEPT !.off = TRUE, !.cards = {},
                           !.verifying = c.verifying \cup {v}]
    BY <1>2 DEF VerifyClick
  <2> HIDE DEF v
  <2>6. check' \in Checking
    BY <1>1, <2>3, <2>5 DEF Checking
  <2>7. /\ UNCHANGED <<check.docDigest, check.sigArtifact, check.open,
                       check.counterArtifact, check.exchanged, check.job>>
        /\ check'.off = TRUE /\ check'.cards = {}
        /\ check'.verifying = c.verifying \cup {v}
    BY <1>1, <2>5 DEF Checking
  <2>8. CheckReady'
    BY <2>2, <2>7 DEF CheckReady
  <2>9. CheckSound'
    BY <2>4, <2>7 DEF CheckSound, NamesTheFirst
  <2> QED BY <2>1, <2>6, <2>8, <2>9
<1>3. ASSUME NEW v \in check.verifying, AssertionVerified(v)
      PROVE  check' \in Checking /\ Rest /\ CheckReady' /\ CheckSound'
  <2> DEFINE card == [v.card EXCEPT !.anchor = a.anchor]
             w == [at |-> "tokens", card |-> card]
  <2>1. Rest
    BY <1>1, <1>3 DEF AssertionVerified
  <2>2. a \in Artifact /\ v \in Verification
    BY <1>1 DEF CheckReady, Checking
  <2>3. card \in Card
    BY <2>2 DEF Verification, Card, Artifact
  <2>4. /\ card.of = v.card.of /\ card.match = v.card.match
        /\ card.ok = v.card.ok /\ card.anchor = a.anchor
    BY <2>2 DEF Verification, Card
  <2> HIDE DEF card
  <2>5. w \in Verification /\ w.at = "tokens" /\ w.card = card
    BY <2>3 DEF Verification
  <2>6. check' = [c EXCEPT !.verifying = (c.verifying \ {v}) \cup {w}]
    BY <1>3 DEF AssertionVerified, card
  <2> HIDE DEF w
  <2>7. check' \in Checking
    BY <1>1, <2>5, <2>6 DEF Checking
  <2>8. /\ UNCHANGED <<check.docDigest, check.sigArtifact, check.open,
                       check.counterArtifact, check.exchanged, check.job>>
        /\ UNCHANGED <<check.off, check.cards>>
        /\ check'.verifying = (c.verifying \ {v}) \cup {w}
    BY <1>1, <2>6 DEF Checking
  <2>9. CheckReady'
    BY <2>8 DEF CheckReady
  <2>10. CheckSound'
    BY <2>4, <2>5, <2>8 DEF CheckSound, NamesTheFirst
  <2> QED BY <2>1, <2>7, <2>9, <2>10
<1>4. ASSUME NEW v \in check.verifying, TokensVerified(v)
      PROVE  check' \in Checking /\ Rest /\ CheckReady' /\ CheckSound'
  <2>1. Rest /\ v.at = "tokens"
    BY <1>1, <1>4 DEF TokensVerified
  <2>2. v.card \in Card
    BY <1>1 DEF Checking, Verification
  <2>3. check' \in Checking
    BY <1>1, <1>4, <2>2 DEF TokensVerified, Checking, MayCountersign
  <2>4. /\ UNCHANGED <<check.docDigest, check.sigArtifact, check.job,
                       check.counterArtifact, check.exchanged, check.off>>
        /\ check'.cards = c.cards \cup {v.card}
        /\ check'.verifying = c.verifying \ {v}
    BY <1>1, <1>4 DEF TokensVerified, Checking
  <2>5. /\ check'.open => c.open \/ (v.card.match /\ v.card.ok)
        /\ c.open => check'.open
    BY <1>1, <1>4 DEF TokensVerified, Checking, MayCountersign
  <2>6. CheckReady'
    BY <2>4, <2>5 DEF CheckReady
  <2>7. CheckSound'
    <3>1. SUFFICES ASSUME ~check.exchanged PROVE CheckSound'
      BY <2>4 DEF CheckSound
    <3>2. /\ v.card.of = a /\ v.card.anchor = a.anchor
          /\ v.card.match => c.docDigest = a.env.doc
          /\ v.card.ok => verifyAssertion(a.assertion, a.key, a.message)
      BY <2>1, <3>1 DEF CheckSound
    <3> QED BY <2>4, <2>5, <3>1, <3>2 DEF CheckSound, NamesTheFirst
  <2> QED BY <2>1, <2>3, <2>6, <2>7
<1> QED BY <1>2, <1>3, <1>4

LEMMA CountersigningKeepsInv ==
    ASSUME TypeOK, CheckReady, CheckSound,
           \/ CountersignClick \/ CountersignGoesOn
           \/ CountersignDone \/ CountersignFails
    PROVE  /\ check' \in Checking /\ acts' \in Nat
           /\ UNCHANGED <<request, sign, made>>
           /\ CheckReady' /\ CheckSound'
<1> DEFINE c == check
           a == check.sigArtifact
           Rest == acts' \in Nat /\ UNCHANGED <<request, sign, made>>
           Same == UNCHANGED <<check.docDigest, check.sigArtifact, check.open,
                               check.exchanged, check.cards, check.verifying,
                               check.off>>
<1>1. c \in Checking /\ acts \in Nat
  BY DEF TypeOK
<1>2. ASSUME CountersignClick
      PROVE  check' \in Checking /\ Rest /\ CheckReady' /\ CheckSound'
  <2> DEFINE j == Started(a.env, acts')
  <2>1. Rest /\ c.open /\ a # None
    BY <1>1, <1>2 DEF CountersignClick, Act, CheckReady
  <2>2. a.env \in Envelope
    BY <1>1, <2>1 DEF Checking, Artifact
  <2>3. j \in Job /\ j # None /\ j.env = a.env /\ j.anchor = None
    BY <2>1, <2>2, StartedIsJob
  <2>4. check' = [c EXCEPT !.busy = TRUE, !.job = j]
    BY <1>2 DEF CountersignClick
  <2> HIDE DEF j
  <2>5. check' \in Checking
    BY <1>1, <2>3, <2>4 DEF Checking
  <2>6. Same /\ UNCHANGED <<check.counterArtifact>> /\ check'.job = j
    BY <1>1, <2>4 DEF Checking
  <2>7. CheckReady'
    BY <2>1, <2>6 DEF CheckReady
  <2>8. CheckSound'
    BY <2>1, <2>3, <2>6, CheckIdle DEF NamesTheFirst
  <2> QED BY <2>1, <2>5, <2>7, <2>8
<1>3. ASSUME CountersignGoesOn
      PROVE  check' \in Checking /\ Rest /\ CheckReady' /\ CheckSound'
  <2> DEFINE event == [type |-> "completed", env |-> c.job.env,
                       signer |-> a.key, key |-> c.job.n]
  <2>1. Rest /\ c.job # None /\ a # None
    BY <1>1, <1>3 DEF CountersignGoesOn, CheckReady
  <2>2. c.job \in Job /\ a \in Artifact
    BY <1>1, <2>1 DEF Checking
  <2>3. event \in Event
    BY <2>2 DEF Job, Artifact, Event
  <2>4. event.signer = a.key /\ event.key = c.job.n
    OBVIOUS
  <2>5. PICK j \in Onward(c.job, event) : check' = [c EXCEPT !.job = j]
    BY <1>3 DEF CountersignGoesOn
  <2> HIDE DEF event
  <2>6. /\ j \in Job /\ j # None /\ j.env = c.job.env /\ j.n = c.job.n
        /\ j.anchor \in {c.job.anchor, event}
    BY <2>2, <2>3, OnwardIsJob
  <2>7. check' \in Checking
    BY <1>1, <2>5, <2>6 DEF Checking
  <2>8. Same /\ UNCHANGED <<check.counterArtifact>> /\ check'.job = j
    BY <1>1, <2>5 DEF Checking
  <2>9. CheckReady'
    BY <2>1, <2>8 DEF CheckReady
  <2>10. CheckSound'
    BY <2>1, <2>4, <2>6, <2>8 DEF CheckSound, NamesTheFirst
  <2> QED BY <2>1, <2>7, <2>9, <2>10
<1>4. ASSUME CountersignDone
      PROVE  check' \in Checking /\ Rest /\ CheckReady' /\ CheckSound'
  <2> DEFINE j == c.job
             b == ArtifactOf(j)
             receipt == buildJadesBT(j)
  <2>1. Rest /\ j # None
    BY <1>1, <1>4 DEF CountersignDone
  <2>2. j \in Job
    BY <1>1, <2>1 DEF Checking
  <2>3. /\ b \in Artifact /\ b # None /\ receipt \in Jades
        /\ b.env = j.env /\ b.key = j.n /\ b.anchor = j.anchor
    BY <2>2, EndOfJob
  <2>4. check' = [c EXCEPT !.job = None, !.counterArtifact = b,
                           !.counterJades = receipt]
    BY <1>4 DEF CountersignDone
  <2> HIDE DEF b, receipt
  <2>5. check' \in Checking
    BY <1>1, <2>3, <2>4 DEF Checking
  <2>6. Same /\ check'.counterArtifact = b /\ check'.job = None
    BY <1>1, <2>4 DEF Checking
  <2>7. CheckReady'
    BY <2>6 DEF CheckReady
  <2>8. CheckSound'
    BY <2>1, <2>3, <2>6 DEF CheckSound, NamesTheFirst
  <2> QED BY <2>1, <2>5, <2>7, <2>8
<1>5. ASSUME CountersignFails
      PROVE  check' \in Checking /\ Rest /\ CheckReady' /\ CheckSound'
  <2>1. Rest /\ check' = [c EXCEPT !.job = None, !.busy = FALSE]
    BY <1>1, <1>5 DEF CountersignFails
  <2>2. check' \in Checking
    BY <1>1, <2>1 DEF Checking
  <2>3. Same /\ UNCHANGED <<check.counterArtifact>> /\ check'.job = None
    BY <1>1, <2>1 DEF Checking
  <2>4. CheckReady'
    BY <2>3 DEF CheckReady
  <2>5. CheckSound'
    BY <2>3, CheckIdle
  <2> QED BY <2>1, <2>2, <2>4, <2>5
<1> QED BY <1>2, <1>3, <1>4, <1>5

\* Nothing but a countersigning touches the second signature, and it has no
\* other event than its own.
LEMMA SecondKeepsInv ==
    ASSUME TypeOK, CheckReady, SecondSound, CheckStep
    PROVE  SecondSound'
<1> DEFINE c == check
<1>1. c \in Checking /\ made \subseteq Artifact
  BY DEF TypeOK
<1>2. ASSUME check'.job \in {c.job, None},
             UNCHANGED <<check.counterArtifact, check.counterJades>>
      PROVE  SecondSound'
  BY <1>2 DEF SecondSound
<1>3. ASSUME NEW file \in Doc \cup made, LoadCheck(file) \/ CheckUnread(file)
      PROVE  SecondSound'
  BY <1>1, <1>2, <1>3 DEF LoadCheck, CheckUnread, Checking
<1>4. ASSUME NEW d \in Doc, DocHashed(d)
      PROVE  SecondSound'
  BY <1>1, <1>2, <1>4 DEF DocHashed, Checking
<1>5. ASSUME NEW a \in made, SigRead(a)
      PROVE  SecondSound'
  BY <1>1, <1>2, <1>5 DEF SigRead, Checking
<1>6. ASSUME VerifyClick
      PROVE  SecondSound'
  BY <1>1, <1>2, <1>6 DEF VerifyClick, Checking
<1>7. ASSUME NEW v \in check.verifying,
             AssertionVerified(v) \/ TokensVerified(v)
      PROVE  SecondSound'
  BY <1>1, <1>2, <1>7 DEF AssertionVerified, TokensVerified, Checking
<1>8. ASSUME CountersignClick
      PROVE  SecondSound'
  <2>1. /\ check'.job.anchor = None
        /\ UNCHANGED <<check.counterArtifact, check.counterJades>>
    BY <1>1, <1>8 DEF CountersignClick, Started, Checking
  <2> QED BY <2>1 DEF SecondSound
<1>9. ASSUME CountersignGoesOn
      PROVE  SecondSound'
  <2> DEFINE event == [type |-> "completed", env |-> c.job.env,
                       signer |-> c.sigArtifact.key, key |-> c.job.n]
  <2>1. c.job # None /\ c.job \in Job /\ c.sigArtifact \in Artifact
    BY <1>1, <1>9 DEF CountersignGoesOn, CheckReady, Checking
  <2>2. event \in Event
    BY <2>1 DEF Job, Artifact, Event
  <2>3. event.env = c.job.env /\ event.key = c.job.n
    OBVIOUS
  <2>4. PICK j \in Onward(c.job, event) : check' = [c EXCEPT !.job = j]
    BY <1>9 DEF CountersignGoesOn
  <2> HIDE DEF event
  <2>5. /\ j.env = c.job.env /\ j.n = c.job.n
        /\ j.anchor \in {c.job.anchor, event}
    BY <2>1, <2>2, OnwardIsJob
  <2>6. /\ check'.job = j
        /\ UNCHANGED <<check.counterArtifact, check.counterJades>>
    BY <1>1, <2>4 DEF Checking
  <2> QED BY <2>1, <2>3, <2>5, <2>6 DEF SecondSound
<1>10. ASSUME CountersignDone
       PROVE  SecondSound'
  <2>1. c.job # None /\ c.job \in Job
    BY <1>1, <1>10 DEF CountersignDone, Checking
  <2>2. /\ check'.job = None
        /\ check'.counterArtifact = ArtifactOf(c.job)
        /\ check'.counterJades = buildJadesBT(c.job)
    BY <1>1, <1>10 DEF CountersignDone, Checking
  <2>3. OneSigning(ArtifactOf(c.job), buildJadesBT(c.job))
    BY <2>1, EndOfJob DEF SecondSound
  <2> QED BY <2>2, <2>3 DEF SecondSound
<1>11. ASSUME CountersignFails
       PROVE  SecondSound'
  BY <1>1, <1>2, <1>11 DEF CountersignFails, Checking
<1> QED BY <1>3, <1>4, <1>5, <1>6, <1>7, <1>8, <1>9, <1>10, <1>11
        DEF CheckStep

-----------------------------------------------------------------------------
(***************************************************************************)
(* The whole ceremony.                                                     *)
(***************************************************************************)
LEMMA CeremonyInit == Init => CeremonyInv
<1> SUFFICES ASSUME Init PROVE CeremonyInv
  OBVIOUS
<1>1. request \in Requesting /\ RequestSound /\ RequestIsOfOneDocument
  BY DEF Init, Requesting, RequestSound, RequestIsOfOneDocument
<1>2. sign \in Signing /\ SignSound /\ SignedWhatWasAsked
  <2>1. PICK l \in Linked \cup {NoLink} : sign = Opened(l)
    BY DEF Init
  <2>2. l \in Link
    BY CeremonyAssumption DEF NoLink, Link
  <2> QED BY <2>1, <2>2 DEF Opened, Signing, SignSound, SignedWhatWasAsked
<1>3. check \in Checking /\ CheckReady /\ CheckSound /\ SecondSound
  BY DEF Init, Checking, CheckReady, CheckSound, SecondSound
<1>4. made \subseteq Artifact /\ acts \in Nat
  BY CeremonyAssumption DEF Init
<1> QED BY <1>1, <1>2, <1>3, <1>4 DEF CeremonyInv, TypeOK

LEMMA CeremonyNext == CeremonyInv /\ [Next]_vars => CeremonyInv'
<1> SUFFICES ASSUME CeremonyInv, [Next]_vars PROVE CeremonyInv'
  OBVIOUS
<1>0. TypeOK
  BY DEF CeremonyInv
<1>1. CASE RequestStep
  <2>1. /\ request' \in Requesting /\ acts' \in Nat
        /\ UNCHANGED <<sign, check, made>>
        /\ RequestSound' /\ RequestIsOfOneDocument'
    BY <1>0, <1>1, RequestKeepsInv DEF CeremonyInv
  <2>2. TypeOK'
    BY <1>0, <2>1 DEF TypeOK
  <2>3. SignSound' /\ SignedWhatWasAsked'
    BY <2>1 DEF CeremonyInv, SignSound, SignedWhatWasAsked
  <2>4. CheckReady' /\ CheckSound' /\ SecondSound'
    BY <2>1 DEF CeremonyInv, CheckReady, CheckSound, NamesTheFirst, SecondSound
  <2> QED BY <2>1, <2>2, <2>3, <2>4 DEF CeremonyInv
<1>2. CASE SignStep
  <2>1. /\ sign' \in Signing /\ acts' \in Nat
        /\ made' \subseteq Artifact
        /\ UNCHANGED <<request, check>>
        /\ SignSound' /\ SignedWhatWasAsked'
    BY <1>0, <1>2, SignKeepsInv DEF CeremonyInv
  <2>2. TypeOK'
    BY <1>0, <2>1 DEF TypeOK
  <2>3. RequestSound' /\ RequestIsOfOneDocument'
    BY <2>1 DEF CeremonyInv, RequestSound, RequestIsOfOneDocument
  <2>4. CheckReady' /\ CheckSound' /\ SecondSound'
    BY <2>1 DEF CeremonyInv, CheckReady, CheckSound, NamesTheFirst, SecondSound
  <2> QED BY <2>1, <2>2, <2>3, <2>4 DEF CeremonyInv
<1>3. CASE CheckStep
  <2>1. /\ check' \in Checking /\ acts' \in Nat
        /\ UNCHANGED <<request, sign, made>>
        /\ CheckReady' /\ CheckSound' /\ SecondSound'
    BY <1>0, <1>3, LoadingKeepsInv, VerifyingKeepsInv, CountersigningKeepsInv,
       SecondKeepsInv DEF CeremonyInv, CheckStep
  <2>2. TypeOK'
    BY <1>0, <2>1 DEF TypeOK
  <2>3. RequestSound' /\ RequestIsOfOneDocument'
    BY <2>1 DEF CeremonyInv, RequestSound, RequestIsOfOneDocument
  <2>4. SignSound' /\ SignedWhatWasAsked'
    BY <2>1 DEF CeremonyInv, SignSound, SignedWhatWasAsked
  <2> QED BY <2>1, <2>2, <2>3, <2>4 DEF CeremonyInv
<1>4. CASE UNCHANGED vars
  <2>1. UNCHANGED <<request, sign, check, made, acts>>
    BY <1>4 DEF vars
  <2>2. TypeOK' /\ RequestSound' /\ RequestIsOfOneDocument'
    BY <2>1 DEF CeremonyInv, TypeOK, RequestSound, RequestIsOfOneDocument
  <2>3. SignSound' /\ SignedWhatWasAsked'
    BY <2>1 DEF CeremonyInv, SignSound, SignedWhatWasAsked
  <2>4. CheckReady' /\ CheckSound' /\ SecondSound'
    BY <2>1 DEF CeremonyInv, CheckReady, CheckSound, NamesTheFirst, SecondSound
  <2> QED BY <2>2, <2>3, <2>4 DEF CeremonyInv
<1> QED BY <1>1, <1>2, <1>3, <1>4 DEF Next

-----------------------------------------------------------------------------
(***************************************************************************)
(* The three pages implement SignatureOrder.                               *)
(*                                                                         *)
(* That takes two more facts than safety does: a button stays away from    *)
(* the click until the page is left, unless the signing fails; and an      *)
(* event that was anchored says what it should.                            *)
(***************************************************************************)
SignedOnce ==
    LET s == sign
        j == sign.job
    IN /\ j # None \/ s.signatureArtifact # None => s.busy
       /\ j # None =>
              /\ s.signatureArtifact = None
              /\ j.anchor \in {None, Order!SignedEvent(j.env, j.n)}

CountersignedOnce ==
    LET c == check
        j == check.job
    IN /\ c.sigArtifact # None => c.sigArtifact \in made
       /\ j # None \/ c.counterArtifact # None => c.busy
       /\ j # None => c.counterArtifact = None
       /\ j # None /\ ~c.exchanged =>
              j.anchor \in {None, Order!CompletedEvent(j.env,
                                                       c.sigArtifact.key, j.n)}

\* Starting, going on, done and failing are all that touch a signing, and the
\* page is left by opening it anew.
LEMMA SignOnce ==
    ASSUME TypeOK, SignedOnce, SignStep
    PROVE  SignedOnce'
<1> DEFINE s == sign
<1>1. s \in Signing /\ acts \in Nat
  BY DEF TypeOK
<1>2. ASSUME NEW l \in Links, Open(l)
      PROVE  SignedOnce'
  BY <1>2 DEF Open, Opened, SignedOnce
<1>3. ASSUME NEW d \in Doc, loadFile(d) \/ LoadedHashed(d)
      PROVE  SignedOnce'
  <2>1. UNCHANGED <<sign.job, sign.busy, sign.signatureArtifact>>
    BY <1>1, <1>3 DEF loadFile, LoadedHashed, Signing
  <2> QED BY <2>1 DEF SignedOnce
<1>4. ASSUME SignClick
      PROVE  SignedOnce'
  <2>1. PICK env, n :
            /\ ~s.busy
            /\ sign' = [s EXCEPT !.busy = TRUE, !.job = Started(env, n)]
    BY <1>4 DEF SignClick
  <2>2. /\ sign'.job.anchor = None /\ sign'.busy
        /\ sign'.signatureArtifact = s.signatureArtifact
    BY <1>1, <2>1 DEF Signing, Started
  <2>3. s.signatureArtifact = None
    BY <2>1 DEF SignedOnce
  <2> QED BY <2>2, <2>3 DEF SignedOnce
<1>5. ASSUME SignGoesOn
      PROVE  SignedOnce'
  <2> DEFINE event == Order!SignedEvent(s.job.env, s.job.n)
  <2>1. s.job # None /\ s.job \in Job
    BY <1>1, <1>5 DEF SignGoesOn, Signing
  <2>2. event \in Event
    BY <2>1 DEF Order!SignedEvent, Job, Event
  <2>3. PICK j \in Onward(s.job, event) : sign' = [s EXCEPT !.job = j]
    BY <1>5 DEF SignGoesOn, Order!SignedEvent
  <2> HIDE DEF event
  <2>4. /\ j # None /\ j.env = s.job.env /\ j.n = s.job.n
        /\ j.anchor \in {s.job.anchor, event}
    BY <2>1, <2>2, OnwardIsJob
  <2>5. /\ sign'.job = j
        /\ UNCHANGED <<sign.busy, sign.signatureArtifact>>
    BY <1>1, <2>3 DEF Signing
  <2>6. /\ s.busy /\ s.signatureArtifact = None
        /\ s.job.anchor \in {None, event}
    BY <2>1 DEF SignedOnce, event
  <2>7. j.anchor \in {None, Order!SignedEvent(j.env, j.n)}
    BY <2>4, <2>6 DEF event
  <2> QED BY <2>5, <2>6, <2>7 DEF SignedOnce
<1>6. ASSUME SignDone
      PROVE  SignedOnce'
  <2>1. s.job # None /\ sign'.job = None /\ sign'.busy = s.busy
    BY <1>1, <1>6 DEF SignDone, Signing
  <2> QED BY <2>1 DEF SignedOnce
<1>7. ASSUME SignFails
      PROVE  SignedOnce'
  <2>1. /\ s.job # None /\ sign'.job = None
        /\ sign'.signatureArtifact = s.signatureArtifact
    BY <1>1, <1>7 DEF SignFails, Signing
  <2> QED BY <2>1 DEF SignedOnce
<1> QED BY <1>2, <1>3, <1>4, <1>5, <1>6, <1>7 DEF SignStep

\* A file that comes in under a countersigning ends what that one promises.
LEMMA CountersignOnce ==
    ASSUME TypeOK, CheckReady, CheckSound, CountersignedOnce, CheckStep
    PROVE  CountersignedOnce'
<1> DEFINE c == check
           a == check.sigArtifact
<1>1. c \in Checking /\ acts \in Nat /\ made \subseteq Artifact
  BY DEF TypeOK
<1>2. ASSUME UNCHANGED <<made, check.sigArtifact, check.busy, check.job,
                         check.counterArtifact, check.exchanged>>
      PROVE  CountersignedOnce'
  BY <1>2 DEF CountersignedOnce
<1>3. ASSUME NEW file \in Doc \cup made, LoadCheck(file) \/ CheckUnread(file)
      PROVE  CountersignedOnce'
  BY <1>1, <1>2, <1>3 DEF LoadCheck, CheckUnread, Checking
<1>4. ASSUME NEW d \in Doc, DocHashed(d)
      PROVE  CountersignedOnce'
  <2>1. /\ UNCHANGED <<made, check.sigArtifact, check.busy, check.job,
                       check.counterArtifact>>
        /\ c.exchanged => check'.exchanged
    BY <1>1, <1>4 DEF DocHashed, Exchanged, Checking
  <2> QED BY <2>1 DEF CountersignedOnce
<1>5. ASSUME NEW b \in made, SigRead(b)
      PROVE  CountersignedOnce'
  <2>1. /\ UNCHANGED <<made, check.busy, check.job, check.counterArtifact>>
        /\ check'.sigArtifact = b
        /\ ~check'.exchanged => ~c.exchanged /\ ~c.open
    BY <1>1, <1>5 DEF SigRead, Exchanged, Checking
  <2>2. ~check'.exchanged => check'.job = None
    BY <2>1 DEF CheckSound
  <2> QED BY <2>1, <2>2 DEF CountersignedOnce
<1>6. ASSUME VerifyClick
      PROVE  CountersignedOnce'
  BY <1>1, <1>2, <1>6 DEF VerifyClick, Checking
<1>7. ASSUME NEW v \in check.verifying,
             AssertionVerified(v) \/ TokensVerified(v)
      PROVE  CountersignedOnce'
  BY <1>1, <1>2, <1>7 DEF AssertionVerified, TokensVerified, Checking
<1>8. ASSUME CountersignClick
      PROVE  CountersignedOnce'
  <2>1. PICK env, n :
            /\ ~c.busy
            /\ check' = [c EXCEPT !.busy = TRUE, !.job = Started(env, n)]
    BY <1>8 DEF CountersignClick
  <2>2. /\ check'.job.anchor = None /\ check'.busy
        /\ UNCHANGED <<check.sigArtifact, check.counterArtifact>>
    BY <1>1, <2>1 DEF Checking, Started
  <2>3. c.counterArtifact = None
    BY <2>1 DEF CountersignedOnce
  <2>4. made' = made
    BY <1>8 DEF CountersignClick
  <2> QED BY <2>2, <2>3, <2>4 DEF CountersignedOnce
<1>9. ASSUME CountersignGoesOn
      PROVE  CountersignedOnce'
  <2> DEFINE event == Order!CompletedEvent(c.job.env, a.key, c.job.n)
  <2>1. c.job # None /\ c.job \in Job /\ a \in Artifact
    BY <1>1, <1>9 DEF CountersignGoesOn, Checking, CheckReady
  <2>2. event \in Event
    BY <2>1 DEF Order!CompletedEvent, Job, Artifact, Event
  <2>3. PICK j \in Onward(c.job, event) : check' = [c EXCEPT !.job = j]
    BY <1>9 DEF CountersignGoesOn, Order!CompletedEvent
  <2> HIDE DEF event
  <2>4. /\ j # None /\ j.env = c.job.env /\ j.n = c.job.n
        /\ j.anchor \in {c.job.anchor, event}
    BY <2>1, <2>2, OnwardIsJob
  <2>5. /\ check'.job = j
        /\ UNCHANGED <<check.busy, check.sigArtifact, check.counterArtifact,
                       check.exchanged>>
    BY <1>1, <2>3 DEF Checking
  <2>6. /\ c.busy /\ c.counterArtifact = None
        /\ ~c.exchanged => c.job.anchor \in {None, event}
        /\ a \in made /\ made' = made
    BY <1>1, <1>9, <2>1, NoneAssumption
       DEF CountersignedOnce, CountersignGoesOn, event
  <2>7. ~c.exchanged =>
            j.anchor \in {None, Order!CompletedEvent(j.env, a.key, j.n)}
    BY <2>4, <2>6 DEF event
  <2> QED BY <2>5, <2>6, <2>7 DEF CountersignedOnce
<1>10. ASSUME CountersignDone
       PROVE  CountersignedOnce'
  <2>1. /\ c.job # None /\ check'.job = None /\ made' = made
        /\ UNCHANGED <<check.sigArtifact, check.busy>>
    BY <1>1, <1>10 DEF CountersignDone, Checking
  <2> QED BY <2>1 DEF CountersignedOnce
<1>11. ASSUME CountersignFails
       PROVE  CountersignedOnce'
  <2>1. /\ c.job # None /\ check'.job = None /\ made' = made
        /\ UNCHANGED <<check.sigArtifact, check.counterArtifact>>
    BY <1>1, <1>11 DEF CountersignFails, Checking
  <2> QED BY <2>1 DEF CountersignedOnce
<1> QED BY <1>3, <1>4, <1>5, <1>6, <1>7, <1>8, <1>9, <1>10, <1>11
        DEF CheckStep

LEMMA OnceInit == Init => SignedOnce /\ CountersignedOnce
<1> SUFFICES ASSUME Init PROVE SignedOnce /\ CountersignedOnce
  OBVIOUS
<1>1. PICK l \in Linked \cup {NoLink} : sign = Opened(l)
  BY DEF Init
<1>2. SignedOnce
  BY <1>1 DEF Opened, SignedOnce
<1>3. CountersignedOnce
  BY DEF Init, CountersignedOnce
<1> QED BY <1>2, <1>3

\* What is at hand to be verified stays at hand.
LEMMA OnceNext ==
    CeremonyInv /\ SignedOnce /\ CountersignedOnce /\ [Next]_vars
        => SignedOnce' /\ CountersignedOnce'
<1> SUFFICES ASSUME CeremonyInv, SignedOnce, CountersignedOnce, [Next]_vars
             PROVE  SignedOnce' /\ CountersignedOnce'
  OBVIOUS
<1>0. /\ TypeOK /\ RequestSound /\ RequestIsOfOneDocument
      /\ SignSound /\ SignedWhatWasAsked /\ CheckReady /\ CheckSound
  BY DEF CeremonyInv
<1>1. CASE RequestStep
  <2>1. UNCHANGED <<sign, check, made>>
    BY <1>0, <1>1, RequestKeepsInv
  <2> QED BY <2>1 DEF SignedOnce, CountersignedOnce
<1>2. CASE SignStep
  <2>1. SignedOnce'
    BY <1>0, <1>2, SignOnce
  <2>2. check' = check /\ made \subseteq made'
    BY <1>2 DEF SignStep, Open, loadFile, LoadedHashed, SignClick,
                SignGoesOn, SignDone, SignFails
  <2>3. CountersignedOnce'
    BY <2>2 DEF CountersignedOnce
  <2> QED BY <2>1, <2>3
<1>3. CASE CheckStep
  <2>1. CountersignedOnce'
    BY <1>0, <1>3, CountersignOnce
  <2>2. sign' = sign
    BY <1>0, <1>3, LoadingKeepsInv, VerifyingKeepsInv, CountersigningKeepsInv
       DEF CheckStep
  <2> QED BY <2>1, <2>2 DEF SignedOnce
<1>4. CASE UNCHANGED vars
  BY <1>4 DEF vars, SignedOnce, CountersignedOnce
<1> QED BY <1>1, <1>2, <1>3, <1>4 DEF Next

\* The artifact of a signing is a good signature.
LEMMA JobShown ==
    ASSUME NEW j \in Job
    PROVE  /\ Shown(ArtifactOf(j)) = Order!SigOf(j.env, j.n, j.anchor)
           /\ Shown(ArtifactOf(j)) # None
<1> DEFINE b == ArtifactOf(j)
<1>1. j.env \in Envelope /\ j.n \in Nat /\ j.anchor \in Event \cup {None}
  BY DEF Job
<1>2. b # None /\ b.env = j.env /\ b.key = j.n /\ b.anchor = j.anchor
  BY EndOfJob
<1>3. verifyAssertion(b.assertion, b.key, b.message) = TRUE
  BY DEF ArtifactOf, AssertionOf, verifyAssertion
<1> HIDE DEF b
<1>4. Shown(b) = Order!SigOf(j.env, j.n, j.anchor)
  BY <1>2, <1>3 DEF Shown, Order!SigOf
<1>5. Order!SigOf(j.env, j.n, j.anchor) \in Signature
  BY <1>1 DEF Order!SigOf, Signature
<1> QED BY <1>4, <1>5, NoneAssumption DEF b

\* An artifact is shown as it is.
LEMMA ArtifactShown ==
    ASSUME NEW a \in Artifact
    PROVE  /\ Shown(a) # None /\ Shown(a).env = a.env /\ Shown(a).key = a.key
           /\ Shown(a).good = verifyAssertion(a.assertion, a.key, a.message)
<1> DEFINE good == verifyAssertion(a.assertion, a.key, a.message)
           sig == [env |-> a.env, key |-> a.key, anchor |-> a.anchor,
                   good |-> good]
<1>1. good \in BOOLEAN
  BY DEF verifyAssertion
<1>2. a # None
  BY NoneAssumption
<1>3. Shown(a) = sig
  BY <1>2 DEF Shown
<1> HIDE DEF good
<1>4. sig \in Signature
  BY <1>1 DEF Signature, Artifact
<1> QED BY <1>3, <1>4, NoneAssumption DEF good

\* The parties see nothing of what goes on inside a page.
LEMMA OutOfSight ==
    ASSUME Asked' = Asked, UNCHANGED <<made, check.docDigest, sign.link,
                                       sign.signatureArtifact>>,
           Verified' = Verified, Counter' = Counter
    PROVE  UNCHANGED Order!vars
<1>1. Shown(sign.signatureArtifact)' = Shown(sign.signatureArtifact)
  BY DEF Shown
<1>2. {Shown(a) : a \in made}' = {Shown(a) : a \in made}
  BY DEF Shown
<1> QED BY <1>1, <1>2 DEF Order!vars

\* The request page shows another link, or the same.
LEMMA AskRefines ==
    ASSUME TypeOK, RequestSound, RequestIsOfOneDocument, RequestStep
    PROVE  [Order!Next]_(Order!vars)
<1>1. request \in Requesting /\ request' \in Requesting
      /\ UNCHANGED <<sign, check, made>>
  BY RequestKeepsInv DEF TypeOK
<1>2. /\ Verified' = Verified /\ Counter' = Counter
      /\ UNCHANGED <<made, check.docDigest, sign.link, sign.signatureArtifact>>
  BY <1>1 DEF Verified, Counter, Shown
<1>3. request'.bundle = request.bundle \/ request'.bundle # None
  <2>1. CASE \E d \in Doc : setFile(d) \/ FileHashed(d) \/ FileUnread(d)
    BY <1>1, <2>1 DEF setFile, FileHashed, FileUnread, Requesting
  <2>2. CASE ChooseAuthorities \/ Create
    BY <1>1, <2>2 DEF ChooseAuthorities, Create, Requesting
  <2>3. ASSUME NEW env \in request.creating, Created(env) \/ CreateFails(env)
        PROVE  request'.bundle = request.bundle \/ request'.bundle # None
    <3>1. CASE CreateFails(env)
      BY <1>1, <3>1 DEF CreateFails, Requesting
    <3>2. CASE Created(env)
      <4>1. request'.bundle = Anchored(env)
        BY <1>1, <3>2 DEF Created, Requesting
      <4>2. Anchored(env) \in Bundle
        BY <2>3, AnchoredIsBundle
      <4> QED BY <4>1, <4>2, NoneAssumption
    <3> QED BY <2>3, <3>1, <3>2
  <2> QED BY <2>1, <2>2, <2>3 DEF RequestStep
<1>4. CASE request'.bundle = request.bundle
  BY <1>2, <1>4, OutOfSight DEF Asked
<1>5. CASE request'.bundle # None
  <2>1. Asked' = request'.bundle.link
    BY <1>5 DEF Asked
  <2>2. request'.bundle \in Bundle
    BY <1>1, <1>5 DEF Requesting
  <2>3. Asked' \in Order!Link
    BY <2>1, <2>2 DEF Bundle, Link, Order!Link
  <2>4. Order!Ask
    BY <1>1, <1>2, <2>3 DEF Order!Ask, Shown
  <2> QED BY <2>4 DEF Order!Next
<1> QED BY <1>3, <1>4, <1>5

\* The signer follows a link or signs; nothing else he does is seen.
LEMMA SignRefines ==
    ASSUME TypeOK, SignSound, SignedWhatWasAsked, SignedOnce, SignStep
    PROVE  [Order!Next]_(Order!vars)
<1> DEFINE s == sign
<1>1. s \in Signing /\ UNCHANGED <<request, check>>
  BY SignKeepsInv DEF TypeOK
<1>2. Asked' = Asked /\ Verified' = Verified /\ Counter' = Counter
  BY <1>1 DEF Asked, Verified, Counter, Shown
<1>3. CASE UNCHANGED <<made, sign.link, sign.signatureArtifact>>
  BY <1>1, <1>2, <1>3, OutOfSight
<1>4. ASSUME NEW l \in Links, Open(l)
      PROVE  [Order!Next]_(Order!vars)
  <2>1. /\ made' = made
        /\ sign'.link = l /\ sign'.signatureArtifact = None
    BY <1>4 DEF Open, Opened
  <2>2. l \in Linked \cup {Order!NoLink} \cup ({Asked} \ {None})
    <3>1. request.bundle # None => request.bundle.link # None
      BY NoneAssumption DEF TypeOK, Requesting, Bundle
    <3> QED BY <3>1 DEF Links, Asked, NoLink, Order!NoLink
  <2>3. {Shown(a) : a \in made}' = {Shown(a) : a \in made}
    BY <2>1 DEF Shown
  <2>4. Shown(sign.signatureArtifact)' = None
    BY <2>1 DEF Shown
  <2>5. Order!Follow
    BY <1>1, <1>2, <2>1, <2>2, <2>3, <2>4 DEF Order!Follow
  <2> QED BY <2>5 DEF Order!Next
<1>5. ASSUME NEW d \in Doc, loadFile(d) \/ LoadedHashed(d)
      PROVE  [Order!Next]_(Order!vars)
  BY <1>1, <1>3, <1>5 DEF loadFile, LoadedHashed, Signing
<1>6. CASE SignClick
  <2>1. made' = made /\ \E j : sign' = [s EXCEPT !.busy = TRUE, !.job = j]
    BY <1>6 DEF SignClick
  <2> QED BY <1>1, <1>3, <2>1 DEF Signing
<1>7. CASE SignGoesOn
  <2>1. made' = made /\ \E j : sign' = [s EXCEPT !.job = j]
    BY <1>7 DEF SignGoesOn
  <2> QED BY <1>1, <1>3, <2>1 DEF Signing
<1>8. CASE SignFails
  BY <1>1, <1>3, <1>8 DEF SignFails, Signing
<1>9. CASE SignDone
  <2> DEFINE j == s.job
             b == ArtifactOf(j)
             event == Order!SignedEvent(j.env, j.n)
  <2>1. j # None /\ j \in Job
    BY <1>1, <1>9 DEF SignDone, Signing
  <2>2. /\ made' = made \cup {b}
        /\ sign'.link = s.link /\ sign'.signatureArtifact = b
    BY <1>1, <1>9 DEF SignDone, Signing, Signed
  <2>3. s.signatureArtifact = None /\ j.anchor \in {None, event}
    BY <2>1 DEF SignedOnce
  <2>4. j.env \in Envelope /\ j.n \in Nat
    BY <2>1 DEF Job
  <2>5. /\ s.link.h # None => j.env.doc = s.link.h
        /\ s.link.e # None => j.env.id = s.link.e
    BY <2>1 DEF SignSound
  <2>6. Shown(b) = Order!SigOf(j.env, j.n, j.anchor) /\ Shown(b) # None
    BY <2>1, JobShown
  <2>7. Shown(b).env = j.env /\ Shown(b).key = j.n
    BY <2>6 DEF Order!SigOf
  <2> HIDE DEF b, event, j
  <2>8. {Shown(a) : a \in made}' = {Shown(a) : a \in made} \cup {Shown(b)}
    <3>1. {Shown(a) : a \in made}' = {Shown(a) : a \in made'}
      BY DEF Shown
    <3> QED BY <2>2, <3>1
  <2>9. /\ Shown(sign.signatureArtifact)' = Shown(b)
        /\ Shown(sign.signatureArtifact) = None
    BY <2>2, <2>3 DEF Shown
  <2>10. Order!MaySign(j.env)
    BY <2>4, <2>5 DEF Order!MaySign, Order!Envelope, Envelope
  <2>11. \E anchor \in {None, Order!SignedEvent(Shown(b).env, Shown(b).key)} :
            Shown(b) = Order!SigOf(Shown(b).env, Shown(b).key, anchor)
    BY <2>3, <2>6, <2>7 DEF event
  <2>12. Order!Sign
    BY <1>1, <1>2, <2>2, <2>4, <2>6, <2>7, <2>8, <2>9, <2>10, <2>11
       DEF Order!Sign
  <2> QED BY <2>12 DEF Order!Next
<1> QED BY <1>4, <1>5, <1>6, <1>7, <1>8, <1>9 DEF SignStep

\* A file on the verify page ends what was verified; a countersignature that
\* nothing was verified for is not seen, nor is the rest.
LEMMA LoadRefines ==
    ASSUME TypeOK, CheckReady, CheckSound, Asked' = Asked,
           UNCHANGED <<made, sign, check.open, check.counterArtifact>>,
           \/ check'.docDigest \in Doc
           \/ UNCHANGED check.docDigest,
           check.open => check'.exchanged,
           check.exchanged => check'.exchanged
    PROVE  [Order!Next]_(Order!vars)
<1> DEFINE c == check
<1>1. Verified' = None
  BY DEF Verified
<1>2. Counter' = None
  <2>1. CASE check'.exchanged
    BY <2>1 DEF Counter
  <2>2. CASE ~check'.exchanged
    <3>1. c.counterArtifact = None
      BY <2>2 DEF CheckSound
    <3> QED BY <2>2, <3>1 DEF Counter, Shown
  <2> QED BY <2>1, <2>2
<1>3. CASE check'.docDigest \in Doc
  <2>1. /\ Shown(sign.signatureArtifact)' = Shown(sign.signatureArtifact)
        /\ {Shown(a) : a \in made}' = {Shown(a) : a \in made}
    BY DEF Shown
  <2>2. Order!Load
    BY <1>1, <1>2, <1>3, <2>1 DEF Order!Load
  <2> QED BY <2>2 DEF Order!Next
<1>4. CASE check'.docDigest \notin Doc
  <2>1. UNCHANGED check.docDigest /\ c.docDigest = None
    BY <1>4 DEF TypeOK, Checking
  <2>2. c.open => c.exchanged
    <3>1. SUFFICES ASSUME c.open, ~c.exchanged PROVE FALSE
      OBVIOUS
    <3>2. c.docDigest = c.sigArtifact.env.doc
      BY <3>1 DEF CheckSound
    <3>3. c.sigArtifact \in Artifact
      BY <3>1 DEF CheckReady, TypeOK, Checking
    <3>4. c.docDigest \in Doc
      BY <3>2, <3>3 DEF Artifact, Envelope
    <3> QED BY <2>1, <3>4, CeremonyAssumption
  <2>3. Verified = None
    BY <2>2 DEF Verified
  <2>4. Counter = None
    <3>1. ~c.exchanged => c.counterArtifact = None
      BY <2>2 DEF CheckSound
    <3> QED BY <3>1 DEF Counter, Shown
  <2> QED BY <1>1, <1>2, <2>1, <2>3, <2>4, OutOfSight
<1> QED BY <1>3, <1>4

\* A verification that succeeds is seen when the countersign section opens, and
\* a countersignature when it is there.
LEMMA CheckRefines ==
    ASSUME TypeOK, CheckReady, CheckSound, CountersignedOnce, CheckStep
    PROVE  [Order!Next]_(Order!vars)
<1> DEFINE c == check
           a == check.sigArtifact
<1>1. /\ c \in Checking /\ made \subseteq Artifact
      /\ UNCHANGED <<request, sign, made>>
  BY LoadingKeepsInv, VerifyingKeepsInv, CountersigningKeepsInv
     DEF TypeOK, CheckStep
<1>2. /\ Asked' = Asked
      /\ Shown(sign.signatureArtifact)' = Shown(sign.signatureArtifact)
      /\ {Shown(b) : b \in made}' = {Shown(b) : b \in made}
  BY <1>1 DEF Asked, Shown
<1>3. CASE UNCHANGED <<check.docDigest, check.sigArtifact, check.open,
                       check.exchanged, check.counterArtifact>>
  <2>1. Verified' = Verified /\ Counter' = Counter
    BY <1>3 DEF Verified, Counter, Shown
  <2> QED BY <1>1, <1>2, <1>3, <2>1, OutOfSight
<1>4. ASSUME NEW file \in Doc \cup made, LoadCheck(file) \/ CheckUnread(file)
      PROVE  [Order!Next]_(Order!vars)
  BY <1>1, <1>3, <1>4 DEF LoadCheck, CheckUnread, Checking
<1>5. ASSUME NEW d \in Doc, DocHashed(d)
      PROVE  [Order!Next]_(Order!vars)
  <2>1. /\ UNCHANGED <<check.open, check.counterArtifact>>
        /\ check'.docDigest \in Doc
        /\ c.open => check'.exchanged
        /\ c.exchanged => check'.exchanged
    BY <1>1, <1>5 DEF DocHashed, Exchanged, Checking
  <2> QED BY <1>1, <1>2, <2>1, LoadRefines
<1>6. ASSUME NEW b \in made, SigRead(b)
      PROVE  [Order!Next]_(Order!vars)
  <2>1. /\ UNCHANGED <<check.open, check.counterArtifact, check.docDigest>>
        /\ c.open => check'.exchanged
        /\ c.exchanged => check'.exchanged
    BY <1>1, <1>6 DEF SigRead, Exchanged, Checking
  <2> QED BY <1>1, <1>2, <2>1, LoadRefines
<1>7. CASE VerifyClick
  <2>1. \E v : check' = [c EXCEPT !.off = TRUE, !.cards = {},
                                  !.verifying = c.verifying \cup {v}]
    BY <1>7 DEF VerifyClick
  <2> QED BY <1>1, <1>3, <2>1 DEF Checking
<1>8. ASSUME NEW v \in check.verifying, AssertionVerified(v)
      PROVE  [Order!Next]_(Order!vars)
  <2>1. \E V : check' = [c EXCEPT !.verifying = V]
    BY <1>8 DEF AssertionVerified
  <2> QED BY <1>1, <1>3, <2>1 DEF Checking
<1>9. ASSUME NEW v \in check.verifying, TokensVerified(v)
      PROVE  [Order!Next]_(Order!vars)
  <2>1. /\ UNCHANGED <<check.docDigest, check.sigArtifact, check.exchanged,
                       check.counterArtifact>>
        /\ check'.open = (c.open \/ (v.card.match /\ v.card.ok))
    BY <1>1, <1>9 DEF TokensVerified, Checking, MayCountersign
  <2>2. v.at = "tokens"
    BY <1>9 DEF TokensVerified
  <2>3. Counter' = Counter
    BY <2>1 DEF Counter, Shown
  <2>4. CASE c.exchanged \/ c.open \/ ~check'.open
    <3>1. Verified' = Verified
      BY <1>1, <2>1, <2>4 DEF Verified, Shown, Checking
    <3> QED BY <1>1, <1>2, <2>1, <2>3, <3>1, OutOfSight
  <2>5. CASE ~c.exchanged /\ ~c.open /\ check'.open
    <3>1. /\ c.docDigest = a.env.doc
          /\ verifyAssertion(a.assertion, a.key, a.message)
      BY <2>1, <2>5 DEF CheckSound
    <3>2. a # None /\ a \in made
      BY DEF CheckReady, CountersignedOnce
    <3>3. a \in Artifact
      BY <1>1, <3>2
    <3>4. /\ Shown(a) \in {Shown(b) : b \in made}
          /\ Shown(a).env = a.env /\ Shown(a).good
      BY <3>1, <3>2, <3>3, ArtifactShown
    <3>5. Verified = None /\ Verified' = Shown(a)
      BY <2>1, <2>5 DEF Verified, Shown
    <3>6. Order!Verify(Shown(a))
      BY <1>1, <1>2, <2>1, <2>3, <3>1, <3>4, <3>5 DEF Order!Verify
    <3> QED BY <3>4, <3>6 DEF Order!Next
  <2> QED BY <2>4, <2>5
<1>10. CASE CountersignClick
  <2>1. \E j : check' = [c EXCEPT !.busy = TRUE, !.job = j]
    BY <1>10 DEF CountersignClick
  <2> QED BY <1>1, <1>3, <2>1 DEF Checking
<1>11. CASE CountersignGoesOn
  <2>1. \E j : check' = [c EXCEPT !.job = j]
    BY <1>11 DEF CountersignGoesOn
  <2> QED BY <1>1, <1>3, <2>1 DEF Checking
<1>12. CASE CountersignFails
  BY <1>1, <1>3, <1>12 DEF CountersignFails, Checking
<1>13. CASE CountersignDone
  <2> DEFINE j == c.job
             b == ArtifactOf(j)
  <2>1. j # None /\ j \in Job
    BY <1>1, <1>13 DEF CountersignDone, Checking
  <2>2. /\ UNCHANGED <<check.docDigest, check.sigArtifact, check.open,
                       check.exchanged>>
        /\ check'.counterArtifact = b
    BY <1>1, <1>13 DEF CountersignDone, Checking
  <2>3. Verified' = Verified
    BY <2>2 DEF Verified, Shown
  <2>4. CASE c.exchanged
    <3>1. Counter' = Counter
      BY <2>2, <2>4 DEF Counter
    <3>2. UNCHANGED Order!vars
      BY <1>1, <1>2, <2>2, <2>3, <3>1 DEF Order!vars
    <3> QED BY <3>2
  <2>5. CASE ~c.exchanged
    <3> DEFINE event == Order!CompletedEvent(j.env, a.key, j.n)
    <3>1. c.open /\ j.env = a.env
      BY <2>1, <2>5 DEF CheckSound, NamesTheFirst
    <3>2. a \in Artifact
      BY <1>1, <2>1 DEF CheckReady, Checking
    <3>3. c.counterArtifact = None /\ j.anchor \in {None, event}
      BY <2>1, <2>5 DEF CountersignedOnce
    <3>4. /\ Shown(a) # None
          /\ Shown(a).env = a.env /\ Shown(a).key = a.key
      BY <3>2, ArtifactShown
    <3>5. Verified = Shown(a)
      BY <2>5, <3>1 DEF Verified
    <3>6. Shown(b) = Order!SigOf(j.env, j.n, j.anchor) /\ Shown(b) # None
      BY <2>1, JobShown
    <3>7. Shown(b).key = j.n /\ j.n \in Nat
      BY <2>1, <3>6 DEF Order!SigOf, Job
    <3>8. Counter = None /\ Counter' = Shown(b)
      BY <2>2, <2>5, <3>3 DEF Counter, Shown
    <3> HIDE DEF b, j, event
    <3>9. \E anchor \in {None, Order!CompletedEvent(
                                   Verified.env, Verified.key, Shown(b).key)} :
              Shown(b) = Order!SigOf(Verified.env, Shown(b).key, anchor)
      BY <3>1, <3>3, <3>4, <3>5, <3>6, <3>7 DEF event
    <3>10. Order!Countersign
      BY <1>1, <1>2, <2>2, <2>3, <3>4, <3>5, <3>6, <3>7, <3>8, <3>9
         DEF Order!Countersign
    <3> QED BY <3>10 DEF Order!Next
  <2> QED BY <2>4, <2>5
<1> QED BY <1>4, <1>5, <1>6, <1>7, <1>8, <1>9, <1>10, <1>11, <1>12, <1>13
        DEF CheckStep

-----------------------------------------------------------------------------
(***************************************************************************)
(* The theorems.                                                           *)
(***************************************************************************)

\* The inductive invariant holds of every ceremony.
THEOREM CeremonyInvariant == Spec => []CeremonyInv
<1> QED BY CeremonyInit, CeremonyNext, PTL DEF Spec

\* The three pages' variables stay what sign-request.js, sign.js and
\* sign-verify.js make of them.
THEOREM CeremonyTypes == Spec => []TypeOK
<1>1. CeremonyInv => TypeOK
  BY DEF CeremonyInv
<1> QED BY <1>1, CeremonyInvariant, PTL

\* A request is of one document, unless files or requests have overlapped,
\* which its alone field tells (sign-request.js 46-58, 85-123).
THEOREM RequestSafety == Spec => []RequestIsOfOneDocument
<1>1. CeremonyInv => RequestIsOfOneDocument
  BY DEF CeremonyInv
<1> QED BY <1>1, CeremonyInvariant, PTL

\* Whatever is loaded between the prompts, what a signer is given is one
\* signing, of the document and of the envelope that the link names, as far as
\* it names any (sign.js 93-219).
THEOREM SigningSafety == Spec => []SignedWhatWasAsked
<1>1. CeremonyInv => SignedWhatWasAsked
  BY DEF CeremonyInv
<1> QED BY <1>1, CeremonyInvariant, PTL

\* A second signature is of one signing, whatever is loaded meanwhile; and
\* unless a file came in after the verification began it is put under a first
\* that passed the page's checks, which is not to have signed the document at
\* hand (sign-verify.js 93-276, 309-317).
THEOREM CountersigningSafety == Spec => []CountersignedPassedTheChecks
<1>1. CeremonyInv => CountersignedPassedTheChecks
  <2> SUFFICES ASSUME CeremonyInv, check.counterArtifact # None
               PROVE  CountersignedPassedTheChecks
    BY DEF CountersignedPassedTheChecks
  <2>1. OneSigning(check.counterArtifact, check.counterJades)
    BY DEF CeremonyInv, SecondSound
  <2> QED BY <2>1 DEF CeremonyInv, CheckSound, NamesTheFirst, CompleteBundle,
                      CountersignedPassedTheChecks
<1> QED BY <1>1, CeremonyInvariant, PTL

\* To the parties the three pages are SignatureOrder: a link is signed once and
\* for what it asks, and a second signature is given once, under a first that
\* passed the checks with the document at hand, whatever is clicked or dismissed
\* in between and until another file comes in (sign.js 93-219, sign-verify.js
\* 93-300).
THEOREM OrderRefinement == Spec => ImplementsOrder
<1>1. Init => Order!Init
  <2> SUFFICES ASSUME Init PROVE Order!Init
    OBVIOUS
  <2>1. PICK l \in Linked \cup {NoLink} : sign = Opened(l)
    BY DEF Init
  <2>2. sign.link = l /\ Shown(sign.signatureArtifact) = None
    BY <2>1 DEF Opened, Shown
  <2>3. Asked = None /\ Verified = None /\ Counter = None
    BY DEF Init, Asked, Verified, Counter, Shown
  <2>4. made = Files /\ check.docDigest = None
    BY DEF Init
  <2> QED BY <2>1, <2>2, <2>3, <2>4 DEF Order!Init, NoLink, Order!NoLink
<1>2. CeremonyInv /\ SignedOnce /\ CountersignedOnce /\ [Next]_vars
          => [Order!Next]_(Order!vars)
  <2> SUFFICES ASSUME CeremonyInv, SignedOnce, CountersignedOnce, [Next]_vars
               PROVE  [Order!Next]_(Order!vars)
    OBVIOUS
  <2>1. /\ TypeOK /\ RequestSound /\ RequestIsOfOneDocument
        /\ SignSound /\ SignedWhatWasAsked /\ CheckReady /\ CheckSound
    BY DEF CeremonyInv
  <2>2. CASE RequestStep
    BY <2>1, <2>2, AskRefines
  <2>3. CASE SignStep
    BY <2>1, <2>3, SignRefines
  <2>4. CASE CheckStep
    BY <2>1, <2>4, CheckRefines
  <2>5. CASE UNCHANGED vars
    <3>1. UNCHANGED <<request, sign, check, made>>
      BY <2>5 DEF vars
    <3>2. Asked' = Asked /\ Verified' = Verified /\ Counter' = Counter
      BY <3>1 DEF Asked, Verified, Counter, Shown
    <3> QED BY <3>1, <3>2, OutOfSight
  <2> QED BY <2>2, <2>3, <2>4, <2>5 DEF Next
<1> QED BY <1>1, <1>2, CeremonyInvariant, OnceInit, OnceNext, PTL
        DEF Spec, ImplementsOrder, Order!Spec
=============================================================================
