------------------------ MODULE SigsumRelay_proofs ------------------------
(***************************************************************************)
(* Safety of the Sigsum relay, for any number of calls, isolates, callers  *)
(* and secrets and for every lifetime, window and budget.                  *)
(*                                                                         *)
(* RelayInv is inductive by itself; BudgetInv is inductive under it. There *)
(* is one lemma per action for the first.                                  *)
(***************************************************************************)
EXTENDS SigsumRelay, FiniteSetTheorems, TLAPS

\* A relay that has served nobody.
LEMMA InitRelayInv == Init => RelayInv
<1> USE RelayAssumption DEF Init, RelayInv, Forwarded, Bare, Plain
<1>1. Init => TypeOK
  BY DEF TypeOK, Artifact, Reply, BudgetWindow, Place, Kind
<1>2. Init => CallsPlaced /\ CachesAgree /\ AwaitsGrounded
  BY DEF CallsPlaced, CachesAgree, AwaitsGrounded
<1>3. Init => ArtifactsGenuine /\ OpenedMeans
  BY DEF ArtifactsGenuine, OpenedMeans
<1>4. Init => TokenMeans /\ CountedMeans
  BY DEF TokenMeans, CountedMeans
<1> QED BY <1>1, <1>2, <1>3, <1>4

-----------------------------------------------------------------------------
\* A call turned away by the rate limiter.
LEMMA RefuseStep ==
    ASSUME RelayInv, NEW r \in Request, NEW i \in Isolate, NEW c \in Caller,
           NEW k \in Kind, Refuse(r, i, c, k, Bare("absent"))
    PROVE  RelayInv'
<1> USE RelayAssumption DEF RelayInv, isolateVars, budgetVars, callVars,
        leafVars, Forwarded, Refuse, Finish, Move, Identify, Bare, Plain
<1>1. TypeOK' BY DEF TypeOK, Artifact, Reply, Place, Kind
<1>2. CallsPlaced' BY DEF TypeOK, CallsPlaced
<1>3. CachesAgree' BY DEF TypeOK, CachesAgree
<1>4. AwaitsGrounded' BY DEF TypeOK, AwaitsGrounded
<1>5. ArtifactsGenuine' BY DEF TypeOK, ArtifactsGenuine, Artifact, Reply,
        Place, Kind
<1>6. OpenedMeans' BY DEF TypeOK, OpenedMeans
<1>7. TokenMeans'
  <2>1. ~opened[r] /\ token[r] = None
    BY DEF TypeOK, OpenedMeans, TokenMeans
  <2>2. \A q \in Request : q # r => art'[q] = art[q]
    BY DEF TypeOK
  <2> QED BY <2>1, <2>2 DEF TypeOK, TokenMeans
<1>8. CountedMeans' BY DEF TypeOK, CountedMeans
<1> QED BY <1>1, <1>2, <1>3, <1>4, <1>5, <1>6, <1>7, <1>8

\* GET session: the first half of sealSigsumSession, up to its await.
LEMMA AdmitSessionStep ==
    ASSUME RelayInv, NEW r \in Request, NEW i \in Isolate, NEW c \in Caller,
           AdmitSession(r, i, c)
    PROVE  RelayInv'
<1> USE RelayAssumption DEF RelayInv, isolateVars, budgetVars, callVars,
        leafVars, Forwarded, AdmitSession, AskKey, JoinMint, KeylessPlace,
        KeylessReply, Move, Identify, Bare, Plain
<1>1. TypeOK'
  <2>1. mint' \in [Isolate -> {"none", "pending", "minted"}]
    BY SMTT(15) DEF TypeOK
  <2>2. pc' \in [Request -> Place]
    BY DEF TypeOK, Place
  <2>4. reply' \in [Request -> Reply]
    <3>1. Plain("none") \in Reply /\ Plain("session") \in Reply
      BY DEF Reply
    <3> HIDE DEF Plain
    <3> QED BY <3>1 DEF TypeOK
  <2>3. /\ kind' \in [Request -> Kind]
        /\ iso' \in [Request -> Isolate \cup {None}]
        /\ caller' \in [Request -> Caller \cup {None}]
        /\ art' \in [Request -> Artifact]
    BY DEF TypeOK, Kind, Artifact
  <2> QED BY <2>1, <2>2, <2>3, <2>4 DEF TypeOK
<1>2. CallsPlaced' BY DEF TypeOK, CallsPlaced
<1>3. CachesAgree' BY DEF TypeOK, CachesAgree
<1>4. AwaitsGrounded' BY DEF TypeOK, AwaitsGrounded, CallsPlaced, CachesAgree
<1>5. ArtifactsGenuine' BY DEF TypeOK, ArtifactsGenuine, Artifact, Reply,
        Place, Kind
<1>6. OpenedMeans' BY DEF TypeOK, OpenedMeans
<1>7. TokenMeans'
  <2>1. ~opened[r] /\ token[r] = None
    BY DEF TypeOK, OpenedMeans, TokenMeans
  <2>2. \A q \in Request : q # r => art'[q] = art[q]
    BY DEF TypeOK
  <2> QED BY <2>1, <2>2 DEF TypeOK, TokenMeans
<1>8. CountedMeans' BY DEF TypeOK, CountedMeans
<1> QED BY <1>1, <1>2, <1>3, <1>4, <1>5, <1>6, <1>7, <1>8

\* GET get-tree-head and GET get-inclusion-proof.
LEMMA AdmitReadStep ==
    ASSUME RelayInv, NEW r \in Request, NEW i \in Isolate, NEW c \in Caller,
           AdmitRead(r, i, c)
    PROVE  RelayInv'
<1> USE RelayAssumption DEF RelayInv, isolateVars, budgetVars, callVars,
        leafVars, Forwarded, AdmitRead, Move, Identify, Bare
<1>1. TypeOK' BY DEF TypeOK, Artifact, Place, Kind
<1>2. CallsPlaced' BY DEF TypeOK, CallsPlaced
<1>3. CachesAgree' BY DEF TypeOK, CachesAgree
<1>4. AwaitsGrounded' BY DEF TypeOK, AwaitsGrounded
<1>5. ArtifactsGenuine' BY DEF TypeOK, ArtifactsGenuine, Artifact, Place, Kind
<1>6. OpenedMeans' BY DEF TypeOK, OpenedMeans
<1>7. TokenMeans' BY DEF TypeOK, TokenMeans, OpenedMeans
<1>8. CountedMeans' BY DEF TypeOK, CountedMeans
<1> QED BY <1>1, <1>2, <1>3, <1>4, <1>5, <1>6, <1>7, <1>8

\* POST add-leaf, up to the await of its body.
LEMMA AdmitLeafStep ==
    ASSUME RelayInv, NEW r \in Request, NEW i \in Isolate, NEW c \in Caller,
           NEW a \in Presentable, AdmitLeaf(r, i, c, a)
    PROVE  RelayInv'
<1> USE RelayAssumption DEF RelayInv, isolateVars, budgetVars, callVars,
        leafVars, Forwarded, AdmitLeaf, Presentable, Move, Identify, Bare
<1>1. TypeOK' BY DEF TypeOK, Artifact, Place, Kind
<1>2. CallsPlaced' BY DEF TypeOK, CallsPlaced
<1>3. CachesAgree' BY DEF TypeOK, CachesAgree
<1>4. AwaitsGrounded' BY DEF TypeOK, AwaitsGrounded
<1>5. ArtifactsGenuine' BY DEF TypeOK, ArtifactsGenuine, Artifact, Place, Kind
<1>6. OpenedMeans' BY DEF TypeOK, OpenedMeans
<1>7. TokenMeans' BY DEF TypeOK, TokenMeans, OpenedMeans
<1>8. CountedMeans' BY DEF TypeOK, CountedMeans
<1> QED BY <1>1, <1>2, <1>3, <1>4, <1>5, <1>6, <1>7, <1>8

\* 400 and 413.
LEMMA RejectBodyStep ==
    ASSUME RelayInv, NEW r \in Request, RejectBody(r)
    PROVE  RelayInv'
<1> USE RelayAssumption DEF RelayInv, isolateVars, budgetVars, callVars,
        leafVars, Forwarded, RejectBody, Finish, Move, Plain
<1>1. TypeOK' BY DEF TypeOK, Reply, Place
<1>2. CallsPlaced' BY DEF TypeOK, CallsPlaced
<1>3. CachesAgree' BY DEF TypeOK, CachesAgree
<1>4. AwaitsGrounded' BY DEF TypeOK, AwaitsGrounded
<1>5. ArtifactsGenuine' BY DEF TypeOK, ArtifactsGenuine, Reply, Place
<1>6. OpenedMeans' BY DEF TypeOK, OpenedMeans
<1>7. TokenMeans' BY DEF TypeOK, TokenMeans
<1>8. CountedMeans' BY DEF TypeOK, CountedMeans
<1> QED BY <1>1, <1>2, <1>3, <1>4, <1>5, <1>6, <1>7, <1>8

\* The start of openSigsumSession.
LEMMA AcceptBodyStep ==
    ASSUME RelayInv, NEW r \in Request, AcceptBody(r)
    PROVE  RelayInv'
<1> USE RelayAssumption DEF RelayInv, isolateVars, budgetVars, callVars,
        leafVars, Forwarded, AcceptBody, AskKey, JoinMint, KeylessPlace,
        KeylessReply, Move, Plain, Bare
<1>1. TypeOK'
  <2>1. mint' \in [Isolate -> {"none", "pending", "minted"}]
    BY DEF TypeOK
  <2>2. pc' \in [Request -> Place]
    BY DEF TypeOK, Place
  <2>3. reply' \in [Request -> Reply]
    <3>1. Plain("none") \in Reply /\ Plain("session") \in Reply
      BY DEF Reply
    <3> HIDE DEF Plain
    <3> QED BY <3>1 DEF TypeOK
  <2> QED BY <2>1, <2>2, <2>3 DEF TypeOK
<1>2. CallsPlaced' BY DEF TypeOK, CallsPlaced
<1>3. CachesAgree' BY DEF TypeOK, CachesAgree
<1>4. AwaitsGrounded' BY DEF TypeOK, AwaitsGrounded, CallsPlaced, CachesAgree
<1>5. ArtifactsGenuine' BY DEF TypeOK, ArtifactsGenuine, Reply, Place
<1>6. OpenedMeans' BY DEF TypeOK, OpenedMeans
<1>7. TokenMeans' BY DEF TypeOK, TokenMeans
<1>8. CountedMeans' BY DEF TypeOK, CountedMeans, AwaitsGrounded
<1> QED BY <1>1, <1>2, <1>3, <1>4, <1>5, <1>6, <1>7, <1>8

\* The token promise resolves.
LEMMA MintResolvesStep ==
    ASSUME RelayInv, NEW i \in Isolate, MintResolves(i)
    PROVE  RelayInv'
<1> USE RelayAssumption DEF RelayInv, isolateVars, budgetVars, callVars,
        leafVars, Forwarded, MintResolves
<1>1. TypeOK' BY DEF TypeOK
<1>2. CallsPlaced' BY DEF TypeOK, CallsPlaced
<1>3. CachesAgree' BY DEF TypeOK, CachesAgree
<1>4. AwaitsGrounded' BY DEF TypeOK, AwaitsGrounded
<1>5. ArtifactsGenuine' BY DEF TypeOK, ArtifactsGenuine
<1>6. OpenedMeans' BY DEF TypeOK, OpenedMeans
<1>7. TokenMeans' BY DEF TypeOK, TokenMeans
<1>8. CountedMeans' BY DEF TypeOK, CountedMeans
<1> QED BY <1>1, <1>2, <1>3, <1>4, <1>5, <1>6, <1>7, <1>8

\* The token promise rejects, and everybody awaiting it gets null.
LEMMA MintRejectsStep ==
    ASSUME RelayInv, NEW i \in Isolate, MintRejects(i)
    PROVE  RelayInv'
<1> USE RelayAssumption DEF RelayInv, isolateVars, budgetVars, callVars,
        leafVars, Forwarded, MintRejects, Awaiting, KeylessPlace,
        KeylessReply, Plain
<1>1. TypeOK' BY DEF TypeOK, Reply, Place
<1>2. CallsPlaced' BY DEF TypeOK, CallsPlaced
<1>3. CachesAgree' BY DEF TypeOK, CachesAgree
<1>4. AwaitsGrounded'
  <2> SUFFICES ASSUME NEW q \in Request
               PROVE  /\ pc'[q] = "keyWait" => mint'[iso'[q]] # "none"
                      /\ pc'[q] = "keyed" => key'[iso'[q]] # None
                      /\ pc'[q] = "tokenWait" =>
                            opened'[q] /\ mint'[iso'[q]] = "minted"
                      /\ pc'[q] \in {"reading", "send"} => kind'[q] = "add-leaf"
                      /\ pc'[q] = "keyWait" => kind'[q] # "read"
    BY DEF AwaitsGrounded
  <2>1. CASE Awaiting(q, i)
    BY <2>1 DEF TypeOK, AwaitsGrounded, OpenedMeans, Kind
  <2>2. CASE ~Awaiting(q, i)
    BY <2>2 DEF TypeOK, AwaitsGrounded
  <2> QED BY <2>1, <2>2
<1>5. ArtifactsGenuine' BY DEF TypeOK, ArtifactsGenuine, Reply, Place
<1>6. OpenedMeans' BY DEF TypeOK, OpenedMeans, AwaitsGrounded
<1>7. TokenMeans' BY DEF TypeOK, TokenMeans
<1>8. CountedMeans' BY DEF TypeOK, CountedMeans
<1> QED BY <1>1, <1>2, <1>3, <1>4, <1>5, <1>6, <1>7, <1>8

\* The session key is derived and cached.
LEMMA DeriveKeyStep ==
    ASSUME RelayInv, NEW r \in Request, DeriveKey(r)
    PROVE  RelayInv'
<1> USE RelayAssumption DEF RelayInv, isolateVars, budgetVars, callVars,
        leafVars, Forwarded, DeriveKey, Move
<1>1. TypeOK' BY DEF TypeOK, Place
<1>2. CallsPlaced' BY DEF TypeOK, CallsPlaced
<1>3. CachesAgree' BY DEF TypeOK, CachesAgree
<1>4. AwaitsGrounded' BY DEF TypeOK, AwaitsGrounded, CachesAgree, CallsPlaced
<1>5. ArtifactsGenuine' BY DEF TypeOK, ArtifactsGenuine, Place
<1>6. OpenedMeans' BY DEF TypeOK, OpenedMeans
<1>7. TokenMeans' BY DEF TypeOK, TokenMeans
<1>8. CountedMeans' BY DEF TypeOK, CountedMeans
<1> QED BY <1>1, <1>2, <1>3, <1>4, <1>5, <1>6, <1>7, <1>8

\* An artifact is sealed.
LEMMA SealStep ==
    ASSUME RelayInv, NEW r \in Request, Seal(r)
    PROVE  RelayInv'
<1> USE RelayAssumption DEF RelayInv, isolateVars, budgetVars, callVars,
        leafVars, Forwarded, Seal, Finish, Move, Plain
<1>1. TypeOK' BY DEF TypeOK, Reply, Place, Artifact, CallsPlaced, CachesAgree
<1>2. CallsPlaced' BY DEF TypeOK, CallsPlaced
<1>3. CachesAgree' BY DEF TypeOK, CachesAgree
<1>4. AwaitsGrounded' BY DEF TypeOK, AwaitsGrounded
<1>5. ArtifactsGenuine' BY DEF TypeOK, ArtifactsGenuine, Reply, Place,
        Artifact, CachesAgree, CallsPlaced, AwaitsGrounded
<1>6. OpenedMeans' BY DEF TypeOK, OpenedMeans
<1>7. TokenMeans' BY DEF TypeOK, TokenMeans
<1>8. CountedMeans' BY DEF TypeOK, CountedMeans
<1> QED BY <1>1, <1>2, <1>3, <1>4, <1>5, <1>6, <1>7, <1>8

\* The session check says no.
LEMMA OpenFailsStep ==
    ASSUME RelayInv, NEW r \in Request, OpenFails(r)
    PROVE  RelayInv'
<1> USE RelayAssumption DEF RelayInv, isolateVars, budgetVars, callVars,
        leafVars, Forwarded, OpenFails, Move
<1>1. TypeOK' BY DEF TypeOK, Place
<1>2. CallsPlaced' BY DEF TypeOK, CallsPlaced
<1>3. CachesAgree' BY DEF TypeOK, CachesAgree
<1>4. AwaitsGrounded' BY DEF TypeOK, AwaitsGrounded, CallsPlaced
<1>5. ArtifactsGenuine' BY DEF TypeOK, ArtifactsGenuine, Place
<1>6. OpenedMeans' BY DEF TypeOK, OpenedMeans
<1>7. TokenMeans' BY DEF TypeOK, TokenMeans
<1>8. CountedMeans' BY DEF TypeOK, CountedMeans
<1> QED BY <1>1, <1>2, <1>3, <1>4, <1>5, <1>6, <1>7, <1>8

\* The session check says ok.
LEMMA OpenSucceedsStep ==
    ASSUME RelayInv, NEW r \in Request, OpenSucceeds(r)
    PROVE  RelayInv'
<1> USE RelayAssumption DEF RelayInv, isolateVars, budgetVars, callVars,
        leafVars, Forwarded, OpenSucceeds, Opens, JoinMint, Move
<1>1. TypeOK' BY SMTT(15) DEF TypeOK, Place
<1>2. CallsPlaced' BY DEF TypeOK, CallsPlaced
<1>3. CachesAgree' BY DEF TypeOK, CachesAgree
<1>4. AwaitsGrounded' BY DEF TypeOK, AwaitsGrounded, CachesAgree, CallsPlaced
<1>5. ArtifactsGenuine' BY DEF TypeOK, ArtifactsGenuine, Place
<1>6. OpenedMeans' BY DEF TypeOK, OpenedMeans, CachesAgree, CallsPlaced,
        ArtifactsGenuine, AwaitsGrounded, CountedMeans
<1>7. TokenMeans' BY DEF TypeOK, TokenMeans
<1>8. CountedMeans' BY DEF TypeOK, CountedMeans
<1> QED BY <1>1, <1>2, <1>3, <1>4, <1>5, <1>6, <1>7, <1>8

\* The token header is there.
LEMMA TakeTokenStep ==
    ASSUME RelayInv, NEW r \in Request, TakeToken(r)
    PROVE  RelayInv'
<1> USE RelayAssumption DEF RelayInv, isolateVars, budgetVars, callVars,
        leafVars, Forwarded, TakeToken, Move
<1>1. TypeOK' BY DEF TypeOK, Place, CallsPlaced
<1>2. CallsPlaced' BY DEF TypeOK, CallsPlaced
<1>3. CachesAgree' BY DEF TypeOK, CachesAgree
<1>4. AwaitsGrounded' BY DEF TypeOK, AwaitsGrounded, OpenedMeans
<1>5. ArtifactsGenuine' BY DEF TypeOK, ArtifactsGenuine, Place
<1>6. OpenedMeans' BY DEF TypeOK, OpenedMeans
<1>7. TokenMeans' BY DEF TypeOK, TokenMeans, OpenedMeans, CallsPlaced,
        AwaitsGrounded
<1>8. CountedMeans' BY DEF TypeOK, CountedMeans
<1> QED BY <1>1, <1>2, <1>3, <1>4, <1>5, <1>6, <1>7, <1>8

\* The submission is counted and fetched.
LEMMA ForwardStep ==
    ASSUME RelayInv, NEW r \in Request, Forward(r)
    PROVE  RelayInv'
<1> USE RelayAssumption DEF RelayInv, isolateVars, budgetVars, callVars,
        leafVars, Forwarded, Forward, Recorded, Move
<1>1. TypeOK' BY DEF TypeOK, BudgetWindow, Place, CallsPlaced
<1>2. CallsPlaced' BY DEF TypeOK, CallsPlaced
<1>3. CachesAgree' BY DEF TypeOK, CachesAgree
<1>4. AwaitsGrounded' BY DEF TypeOK, AwaitsGrounded
<1>5. ArtifactsGenuine' BY DEF TypeOK, ArtifactsGenuine, BudgetWindow, Place
<1>6. OpenedMeans' BY DEF TypeOK, OpenedMeans
<1>7. TokenMeans' BY DEF TypeOK, TokenMeans
<1>8. CountedMeans'
  <2>1. r \in upTo'[r]
    BY DEF TypeOK
  <2>2. \A q \in Request : q # r => upTo'[q] = upTo[q] /\ count'[q] = count[q]
    BY DEF TypeOK
  <2>3. \A j \in Isolate : inWindow'[j] \subseteq inWindow[j] \cup {r}
    BY DEF TypeOK, CallsPlaced
  <2>4. kind' = kind /\ kind[r] = "add-leaf"
    BY DEF AwaitsGrounded
  <2>5. pc' = [pc EXCEPT ![r] = "sent"]
    OBVIOUS
  <2> QED BY <2>1, <2>2, <2>3, <2>4, <2>5 DEF TypeOK, CountedMeans
<1> QED BY <1>1, <1>2, <1>3, <1>4, <1>5, <1>6, <1>7, <1>8

\* The log's answer, other than 429, or none.
LEMMA AnswerStep ==
    ASSUME RelayInv, NEW r \in Request, Answer(r)
    PROVE  RelayInv'
<1> USE RelayAssumption DEF RelayInv, isolateVars, budgetVars, callVars,
        leafVars, Forwarded, Answer, MayCharge, Finish, Move, Plain
<1>1. TypeOK' BY DEF TypeOK, Reply, Place
<1>2. CallsPlaced' BY DEF TypeOK, CallsPlaced
<1>3. CachesAgree' BY DEF TypeOK, CachesAgree
<1>4. AwaitsGrounded' BY DEF TypeOK, AwaitsGrounded
<1>5. ArtifactsGenuine' BY DEF TypeOK, ArtifactsGenuine, Reply, Place
<1>6. OpenedMeans' BY DEF TypeOK, OpenedMeans
<1>7. TokenMeans' BY DEF TypeOK, TokenMeans
<1>8. CountedMeans' BY DEF TypeOK, CountedMeans
<1> QED BY <1>1, <1>2, <1>3, <1>4, <1>5, <1>6, <1>7, <1>8

\* The log's 429.
LEMMA DeclineStep ==
    ASSUME RelayInv, NEW r \in Request, Decline(r)
    PROVE  RelayInv'
<1> USE RelayAssumption DEF RelayInv, isolateVars, budgetVars, callVars,
        leafVars, Forwarded, Decline, Declined, SpentPool, BudgetNote,
        BucketFull, Finish, Move
<1>1. TypeOK' BY DEF TypeOK, Reply, Place
<1>2. CallsPlaced' BY DEF TypeOK, CallsPlaced
<1>3. CachesAgree' BY DEF TypeOK, CachesAgree
<1>4. AwaitsGrounded' BY DEF TypeOK, AwaitsGrounded
<1>5. ArtifactsGenuine' BY DEF TypeOK, ArtifactsGenuine, Reply, Place
<1>6. OpenedMeans' BY DEF TypeOK, OpenedMeans
<1>7. TokenMeans' BY DEF TypeOK, TokenMeans
<1>8. CountedMeans' BY DEF TypeOK, CountedMeans
<1> QED BY <1>1, <1>2, <1>3, <1>4, <1>5, <1>6, <1>7, <1>8

\* The clock.
LEMMA TickStep ==
    ASSUME RelayInv, Tick
    PROVE  RelayInv'
<1> USE RelayAssumption DEF RelayInv, isolateVars, budgetVars, callVars,
        leafVars, Forwarded, Tick
<1>1. TypeOK' BY DEF TypeOK
<1>2. CallsPlaced' BY DEF TypeOK, CallsPlaced
<1>3. CachesAgree' BY DEF TypeOK, CachesAgree
<1>4. AwaitsGrounded' BY DEF TypeOK, AwaitsGrounded
<1>5. ArtifactsGenuine' BY DEF TypeOK, ArtifactsGenuine
<1>6. OpenedMeans' BY DEF TypeOK, OpenedMeans
<1>7. TokenMeans' BY DEF TypeOK, TokenMeans
<1>8. CountedMeans' BY DEF TypeOK, CountedMeans
<1> QED BY <1>1, <1>2, <1>3, <1>4, <1>5, <1>6, <1>7, <1>8

\* The log's 24 hours.
LEMMA BucketDrainsStep ==
    ASSUME RelayInv, BucketDrains
    PROVE  RelayInv'
<1> USE RelayAssumption DEF RelayInv, isolateVars, budgetVars, callVars,
        leafVars, Forwarded, BucketDrains
<1>1. TypeOK' BY DEF TypeOK
<1>2. CallsPlaced' BY DEF TypeOK, CallsPlaced
<1>3. CachesAgree' BY DEF TypeOK, CachesAgree
<1>4. AwaitsGrounded' BY DEF TypeOK, AwaitsGrounded
<1>5. ArtifactsGenuine' BY DEF TypeOK, ArtifactsGenuine
<1>6. OpenedMeans' BY DEF TypeOK, OpenedMeans
<1>7. TokenMeans' BY DEF TypeOK, TokenMeans
<1>8. CountedMeans' BY DEF TypeOK, CountedMeans
<1> QED BY <1>1, <1>2, <1>3, <1>4, <1>5, <1>6, <1>7, <1>8

\* An isolate is evicted.
LEMMA RestartStep ==
    ASSUME RelayInv, NEW i \in Isolate, NEW s \in Secret \cup {None},
           Restart(i, s)
    PROVE  RelayInv'
<1> USE RelayAssumption DEF RelayInv, isolateVars, budgetVars, callVars,
        leafVars, Forwarded, Restart, Serving, Plain
<1>1. TypeOK' BY DEF TypeOK, BudgetWindow, Reply, Place
<1>2. CallsPlaced' BY DEF TypeOK, CallsPlaced
<1>3. CachesAgree' BY DEF TypeOK, CachesAgree
<1>4. AwaitsGrounded' BY DEF TypeOK, AwaitsGrounded
<1>5. ArtifactsGenuine' BY DEF TypeOK, ArtifactsGenuine, BudgetWindow, Reply,
        Place
<1>6. OpenedMeans' BY DEF TypeOK, OpenedMeans
<1>7. TokenMeans' BY DEF TypeOK, TokenMeans
<1>8. CountedMeans' BY DEF TypeOK, CountedMeans
<1> QED BY <1>1, <1>2, <1>3, <1>4, <1>5, <1>6, <1>7, <1>8

-----------------------------------------------------------------------------
(* The invariant and what follows from it.                                 *)

\* Every step, and stuttering, preserves RelayInv.
LEMMA RelayInvStep == RelayInv /\ [Next]_vars => RelayInv'
<1> SUFFICES ASSUME RelayInv, [Next]_vars PROVE RelayInv'
  OBVIOUS
<1>1. ASSUME NEW r \in Request, Arrive(r) PROVE RelayInv'
  BY <1>1, RefuseStep, AdmitSessionStep, AdmitReadStep, AdmitLeafStep DEF Arrive
<1>2. ASSUME NEW r \in Request, Serve(r) PROVE RelayInv'
  BY <1>2, RejectBodyStep, AcceptBodyStep, DeriveKeyStep, SealStep,
     OpenFailsStep, OpenSucceedsStep, TakeTokenStep, ForwardStep DEF Serve
<1>3. ASSUME NEW r \in Request, Upstream(r) PROVE RelayInv'
  BY <1>3, AnswerStep, DeclineStep DEF Upstream
<1>4. ASSUME NEW i \in Isolate, MintResolves(i) \/ MintRejects(i)
      PROVE  RelayInv'
  BY <1>4, MintResolvesStep, MintRejectsStep
<1>5. ASSUME NEW i \in Isolate, NEW s \in Secret \cup {None}, Restart(i, s)
      PROVE  RelayInv'
  BY <1>5, RestartStep
<1>6. CASE UNCHANGED vars
  BY <1>6 DEF RelayInv, TypeOK, CallsPlaced, CachesAgree, AwaitsGrounded,
     ArtifactsGenuine, OpenedMeans, TokenMeans, CountedMeans, Forwarded, vars,
     isolateVars, budgetVars, callVars, leafVars
<1> QED
  BY <1>1, <1>2, <1>3, <1>4, <1>5, <1>6, TickStep, BucketDrainsStep DEF Next

\* Type correctness together with the control of every call, the agreement of
\* the two caches and the provenance of every artifact and token.
THEOREM RelayInvariant == Spec => []RelayInv
  BY InitRelayInv, RelayInvStep, PTL DEF Spec

\* The variables stay within their types.
THEOREM TypeCorrect == Spec => []TypeOK
  BY RelayInvariant, PTL DEF RelayInv

\* The token rides only on a submission whose artifact the relay sealed for
\* that caller under the secret the token comes from.
THEOREM TokenSafety == Spec => []TokenRidesOnSession
<1>1. RelayInv => TokenRidesOnSession
  BY DEF RelayInv, TokenMeans, OpenedMeans, TokenRidesOnSession
<1> QED BY <1>1, RelayInvariant, PTL

\* A submission whose session check said ok is never forwarded tokenless.
THEOREM TokenDelivery == Spec => []ValidSessionHasToken
<1>1. RelayInv => ValidSessionHasToken
  BY RelayAssumption
     DEF RelayInv, OpenedMeans, ArtifactsGenuine, ValidSessionHasToken
<1> QED BY <1>1, RelayInvariant, PTL

-----------------------------------------------------------------------------
(* The budget counter and the wording of a 429.                            *)

\* Counting one more call adds one to the size of the window.
LEMMA CountOneMore ==
    ASSUME NEW S \in SUBSET Request, NEW r \in Request, r \notin S
    PROVE  Cardinality(S \cup {r}) = Cardinality(S) + 1
<1>1. IsFiniteSet(S)
  BY RelayAssumption, FS_Subset
<1> QED BY <1>1, FS_AddElement

\* If at least as many submissions are in the bucket as the budget allows and
\* this one, not among them, was counted within the budget, then somebody not
\* counted before it is.
LEMMA OthersInBucket ==
    ASSUME NEW B \in SUBSET Request, NEW U \in SUBSET Request,
           NEW r \in U, r \notin B,
           Cardinality(B) >= Budget, Cardinality(U) <= Budget
    PROVE  B \ U # {}
<1> SUFFICES ASSUME B \subseteq U PROVE FALSE
  OBVIOUS
<1>1. IsFiniteSet(U) /\ IsFiniteSet(U \ {r})
  BY RelayAssumption, FS_Subset
<1>2. Cardinality(U \ {r}) = Cardinality(U) - 1 /\ Cardinality(U) \in Nat
  BY <1>1, FS_RemoveElement, FS_CardinalityType
<1>3. Cardinality(B) <= Cardinality(U \ {r}) /\ Cardinality(B) \in Nat
  BY <1>1, FS_Subset, FS_CardinalityType
<1> QED BY <1>2, <1>3, RelayAssumption

LEMMA InitBudgetInv == Init => BudgetInv
  BY FS_EmptySet DEF Init, BudgetInv, CountIsHonest, BucketMeans,
     DeclinedMeans, DeclineTellsTheTruth, Plain

\* A submission is counted.
LEMMA ForwardBudget ==
    ASSUME RelayInv, BudgetInv, NEW r \in Request, Forward(r)
    PROVE  BudgetInv'
<1> DEFINE i == iso[r]
           S == IF Reopens(window[i], now) THEN {} ELSE inWindow[i]
<1> USE DEF RelayInv, BudgetInv
<1>1. i \in Isolate
  BY DEF Forward, Move, CallsPlaced
<1>2. S \in SUBSET Request /\ r \notin S
  BY <1>1 DEF TypeOK, Forward, Move, CountedMeans
<1>3. Cardinality(S \cup {r}) = Cardinality(S) + 1
  BY <1>2, CountOneMore
<1>4. Recorded(window[i], now).count = Cardinality(S) + 1
  BY <1>1, FS_EmptySet DEF Recorded, CountIsHonest, TypeOK, BudgetWindow
<1>5. window' = [window EXCEPT ![i] = Recorded(window[i], now)]
  BY DEF Forward
<1>6. inWindow' = [inWindow EXCEPT ![i] = S \cup {r}]
  BY DEF Forward
<1>7. /\ count' = [count EXCEPT ![r] = Recorded(window[i], now).count]
      /\ upTo' = [upTo EXCEPT ![r] = S \cup {r}]
  BY DEF Forward
<1>8. CountIsHonest'
  <2> HIDE DEF i, S
  <2> QED BY <1>1, <1>3, <1>4, <1>5, <1>6, <1>7 DEF CountIsHonest, TypeOK
<1>9. (BucketMeans /\ DeclinedMeans /\ DeclineTellsTheTruth)'
  BY DEF Forward, Move, TypeOK, BucketMeans, DeclinedMeans,
     DeclineTellsTheTruth
<1> QED BY <1>8, <1>9

\* The log declines.
LEMMA DeclineBudget ==
    ASSUME RelayInv, BudgetInv, NEW r \in Request, Decline(r)
    PROVE  BudgetInv'
<1> USE DEF RelayInv, BudgetInv
<1>1. /\ pc[r] = "sent" /\ pc' = [pc EXCEPT ![r] = "done"]
      /\ reply' = [reply EXCEPT ![r] = Declined(r)]
      /\ kind[r] = "add-leaf"
      /\ token[r] = None \/ Cardinality(bucket) >= Budget
      /\ UNCHANGED <<window, inWindow, bucket, token, count, upTo>>
  BY DEF Decline, Finish, Move, BucketFull, budgetVars, leafVars
<1>2. CountIsHonest' /\ BucketMeans' /\ DeclinedMeans'
  BY <1>1 DEF CountIsHonest, BucketMeans, DeclinedMeans, TypeOK
<1>3. r \in upTo[r] /\ upTo[r] \in SUBSET Request /\ r \notin bucket
  BY <1>1 DEF CountedMeans, Forwarded, BucketMeans, TypeOK
<1>4. ASSUME token[r] # None, Declined(r).note = "others"
      PROVE  bucket \ upTo[r] # {}
  <2>1. Cardinality(upTo[r]) <= Budget
    BY <1>4, RelayAssumption
       DEF Declined, BudgetNote, CountIsHonest, TypeOK
  <2> QED BY <1>1, <1>3, <1>4, <2>1, OthersInBucket DEF TypeOK
<1>5. DeclineTellsTheTruth'
  BY <1>1, <1>4 DEF DeclineTellsTheTruth, Declined, SpentPool, BucketFull,
     TypeOK
<1> QED BY <1>2, <1>5

\* Every other step leaves the counts alone or clears them.
LEMMA BudgetInvStep == RelayInv /\ BudgetInv /\ [Next]_vars => BudgetInv'
<1> SUFFICES ASSUME RelayInv, BudgetInv, [Next]_vars PROVE BudgetInv'
  OBVIOUS
<1> USE DEF RelayInv, BudgetInv, CountIsHonest, BucketMeans, DeclinedMeans,
    DeclineTellsTheTruth, TypeOK, isolateVars, budgetVars, callVars, leafVars,
    Plain, Finish, Move
<1>1. ASSUME NEW r \in Request, Arrive(r) PROVE BudgetInv'
  BY SMTT(30), <1>1 DEF Arrive, AdmitSession, AdmitRead, AdmitLeaf, Refuse, Identify,
     AskKey, JoinMint, KeylessPlace, KeylessReply
<1>2. ASSUME NEW r \in Request, Serve(r) PROVE BudgetInv'
  <2>1. CASE Forward(r)
    BY <2>1, ForwardBudget
  <2>2. CASE AcceptBody(r)
    BY SMTT(30), <2>2
       DEF AcceptBody, AskKey, JoinMint, KeylessPlace, KeylessReply
  <2>3. CASE TakeToken(r)
    BY <2>3 DEF TakeToken
  <2>4. CASE RejectBody(r) \/ DeriveKey(r) \/ Seal(r) \/ OpenFails(r)
    BY <2>4 DEF RejectBody, DeriveKey, Seal, OpenFails
  <2>5. CASE OpenSucceeds(r)
    BY <2>5 DEF OpenSucceeds, JoinMint
  <2> QED BY <1>2, <2>1, <2>2, <2>3, <2>4, <2>5 DEF Serve
<1>3. ASSUME NEW r \in Request, Upstream(r) PROVE BudgetInv'
  <2>1. CASE Answer(r)
    <3>1. /\ pc[r] = "sent" /\ pc' = [pc EXCEPT ![r] = "done"]
          /\ bucket' \subseteq bucket \cup {r}
          /\ \E status \in {"relayed", "timeout"} :
                reply' = [reply EXCEPT ![r] = Plain(status)]
          /\ UNCHANGED <<window, inWindow, token, count, upTo>>
      BY <2>1 DEF Answer
    <3>2. CountIsHonest' /\ BucketMeans' /\ DeclinedMeans'
      BY <3>1
    <3>3. DeclineTellsTheTruth'
      BY <3>1
    <3> QED BY <3>2, <3>3
  <2> QED BY <1>3, <2>1, DeclineBudget DEF Upstream
<1>4. ASSUME NEW i \in Isolate, MintResolves(i) \/ MintRejects(i)
      PROVE  BudgetInv'
  <2>1. /\ UNCHANGED <<window, inWindow, bucket, token, count, upTo>>
        /\ \A r \in Request :
              \/ pc'[r] = pc[r] /\ reply'[r] = reply[r]
              \/ pc[r] # "done" /\ reply'[r].status # "declined"
    BY SMTT(30), <1>4
       DEF MintResolves, MintRejects, Awaiting, KeylessPlace, KeylessReply
  <2> QED BY <2>1
<1>5. ASSUME NEW i \in Isolate, NEW s \in Secret \cup {None}, Restart(i, s)
      PROVE  BudgetInv'
  BY <1>5, FS_EmptySet DEF Restart, Serving
<1>6. CASE Tick \/ BucketDrains \/ UNCHANGED vars
  BY <1>6 DEF Tick, BucketDrains, vars
<1> QED BY <1>1, <1>2, <1>3, <1>4, <1>5, <1>6 DEF Next

\* The count a 429 quotes is the number of submissions the isolate made since
\* its window opened, over any interleaving.
THEOREM CountSafety == Spec => []CountIsHonest
<1>1. Spec => []BudgetInv
  BY InitBudgetInv, BudgetInvStep, RelayInvariant, PTL DEF Spec
<1> QED BY <1>1, PTL DEF BudgetInv

\* What a 429 says to a caller whose submission carried the token is true.
THEOREM DeclineSafety == Spec => []DeclineTellsTheTruth
<1>1. Spec => []BudgetInv
  BY InitBudgetInv, BudgetInvStep, RelayInvariant, PTL DEF Spec
<1> QED BY <1>1, PTL DEF BudgetInv

-----------------------------------------------------------------------------
(* The relay implements SubmissionGate.                                    *)

GateLeafVars(q) ==
    <<GatePhase(q), IF kind[q] = "add-leaf" THEN caller[q] ELSE None, art[q],
      IF Forwarded(q) THEN token[q] ELSE None>>

LEMMA GateInit == Init => Gate!Init
  BY RelayAssumption
     DEF Init, Gate!Init, GatePhase, Forwarded, Bare, Gate!Bare

\* A step that changes nothing the gate shows of any call, nor the clock, nor
\* the artifacts, is a stuttering step of the gate.
LEMMA GateStutter ==
    ASSUME now' = now, sealed' = sealed,
           \A q \in Request : GateLeafVars(q)' = GateLeafVars(q)
    PROVE  UNCHANGED Gate!vars
  BY DEF Gate!vars, GateLeafVars

\* Arrival of a call.
LEMMA GateArrive ==
    ASSUME RelayInv, NEW r \in Request, Arrive(r)
    PROVE  [Gate!Next]_(Gate!vars)
<1> USE DEF RelayInv, TypeOK, Forwarded, isolateVars, budgetVars, leafVars
<1>1. pc[r] = "idle" /\ kind[r] = "read" /\ art[r] = Bare("absent")
  BY DEF Arrive, AdmitSession, AdmitRead, AdmitLeaf, Refuse, AskKey, Finish,
     Move, CallsPlaced
<1>2. now' = now /\ sealed' = sealed /\ token' = token /\ upTo' = upTo
      /\ opened' = opened
  BY DEF Arrive, AdmitSession, AdmitRead, AdmitLeaf, Refuse
<1>3. PICK i \in Isolate, c \in Caller :
         \/ AdmitSession(r, i, c)
         \/ AdmitRead(r, i, c)
         \/ \E a \in Presentable : AdmitLeaf(r, i, c, a)
         \/ \E k \in Kind : Refuse(r, i, c, k, Bare("absent"))
  BY DEF Arrive
<1>4. \A q \in Request : q # r => GateLeafVars(q)' = GateLeafVars(q)
  BY <1>2, <1>3 DEF GateLeafVars, GatePhase, AdmitSession, AdmitRead,
     AdmitLeaf, Refuse, Identify, AskKey, Finish, Move
<1>5. CASE kind'[r] # "add-leaf"
  <2>1. art' = art
    BY <1>1, <1>3, <1>5 DEF AdmitSession, AdmitRead, AdmitLeaf, Refuse,
       Identify
  <2>2. GateLeafVars(r)' = GateLeafVars(r)
    BY <1>1, <1>2, <1>5, <2>1 DEF GateLeafVars, GatePhase
  <2> QED BY <1>2, <1>4, <2>2, GateStutter
<1>6. CASE kind'[r] = "add-leaf"
  <2>1. PICK a \in Presentable :
           /\ Identify(r, i, c, "add-leaf", a)
           /\ \/ pc'[r] = "reading"
              \/ pc'[r] = "done" /\ reply'[r].status = "refused"
    BY <1>3, <1>6 DEF AdmitSession, AdmitRead, AdmitLeaf, Refuse, Identify,
       Finish, Move, Plain, Presentable
  <2>2. GatePhase(r) = "new" /\ GatePhase(r)' \in {"arrived", "refused"}
    BY <1>1, <1>6, <2>1 DEF GatePhase, Outcome
  <2>3. caller'[r] = c /\ art'[r] = a
    BY <2>1 DEF Identify
  <2>4. a \in Gate!Presentable
    BY <2>1 DEF Presentable, Gate!Presentable, Bare, Gate!Bare
  <2>5. Gate!Arrive(r, c, a)
    BY <1>1, <1>2, <1>4, <1>6, <2>2, <2>3 DEF Gate!Arrive, GateLeafVars
  <2> QED BY <2>4, <2>5 DEF Gate!Next
<1> QED BY <1>5, <1>6

\* The isolate works on a call.
LEMMA GateServe ==
    ASSUME RelayInv, NEW r \in Request, Serve(r)
    PROVE  [Gate!Next]_(Gate!vars)
<1> USE DEF RelayInv, TypeOK, Forwarded, isolateVars, budgetVars, callVars,
    leafVars, Move, Finish
<1>1. /\ now' = now /\ UNCHANGED callVars
      /\ \A q \in Request : q # r =>
            /\ pc'[q] = pc[q] /\ reply'[q] = reply[q]
            /\ opened'[q] = opened[q]
            /\ token'[q] = token[q] /\ upTo'[q] = upTo[q]
  BY DEF Serve, RejectBody, AcceptBody, AskKey, JoinMint, DeriveKey, Seal,
     OpenFails, OpenSucceeds, TakeToken, Forward
<1>2. \A q \in Request : q # r => GateLeafVars(q)' = GateLeafVars(q)
  BY <1>1 DEF GateLeafVars, GatePhase
<1>3. CASE RejectBody(r)
  <2>1. GatePhase(r) = "arrived" /\ GatePhase(r)' = "refused"
    BY <1>3 DEF RejectBody, GatePhase, Outcome, Plain, AwaitsGrounded
  <2>2. UNCHANGED <<sealed, token, upTo>>
    BY <1>3 DEF RejectBody
  <2>3. Gate!Refuse(r)
    BY <1>1, <1>2, <2>1, <2>2 DEF Gate!Refuse, GateLeafVars
  <2> QED BY <2>3 DEF Gate!Next
<1>4. CASE AcceptBody(r)
  <2>1. pc[r] = "reading" /\ pc'[r] \in {"keyed", "keyWait", "send"}
    BY <1>4 DEF AcceptBody, AskKey, KeylessPlace
  <2>2. GatePhase(r) = "arrived" /\ GatePhase(r)' = "accepted"
    BY <1>1, <1>4, <2>1 DEF AcceptBody, GatePhase, AwaitsGrounded, OpenedMeans
  <2>3. Gate!Accept(r)
    BY <1>1, <1>2, <1>4, <2>2 DEF Gate!Accept, GateLeafVars, AcceptBody
  <2> QED BY <2>3 DEF Gate!Next
<1>5. CASE DeriveKey(r) \/ OpenFails(r)
  <2>1. GateLeafVars(r)' = GateLeafVars(r)
    BY <1>1, <1>5 DEF DeriveKey, OpenFails, GateLeafVars, GatePhase
  <2>2. sealed' = sealed
    BY <1>5 DEF DeriveKey, OpenFails
  <2> QED BY <1>1, <1>2, <2>1, <2>2, GateStutter
<1>6. CASE Seal(r)
  <2>1. GateLeafVars(r)' = GateLeafVars(r)
    BY <1>1, <1>6 DEF Seal, GateLeafVars, GatePhase
  <2>2. caller[r] \in Caller /\ key[iso[r]] \in Secret
    BY <1>6 DEF Seal, CallsPlaced, AwaitsGrounded
  <2>3. Gate!Seal(caller[r], key[iso[r]])
    BY <1>1, <1>2, <1>6, <2>1 DEF Seal, Gate!Seal, GateLeafVars
  <2> QED BY <2>2, <2>3 DEF Gate!Next
<1>7. CASE OpenSucceeds(r)
  <2>1. /\ GatePhase(r) = "accepted" /\ GatePhase(r)' = "vouched"
        /\ kind[r] = "add-leaf" /\ sealed' = sealed
    BY <1>1, <1>7 DEF OpenSucceeds, GatePhase, OpenedMeans
  <2>2. art[r] \in sealed /\ art[r].tag = caller[r] /\ now <= art[r].exp
    BY <1>7 DEF OpenSucceeds, Opens, ArtifactsGenuine
  <2>3. UNCHANGED <<token, upTo>>
    BY <1>7 DEF OpenSucceeds
  <2>4. Gate!Vouch(r)
    BY <1>1, <1>2, <2>1, <2>2, <2>3 DEF Gate!Vouch, GateLeafVars
  <2> QED BY <2>4 DEF Gate!Next
<1>8. CASE TakeToken(r)
  <2>1. ~Forwarded(r)
    BY <1>8 DEF TakeToken, CountedMeans
  <2>2. GateLeafVars(r)' = GateLeafVars(r) /\ sealed' = sealed
    BY <1>1, <1>8, <2>1 DEF TakeToken, GateLeafVars, GatePhase
  <2> QED BY <1>1, <1>2, <2>2, GateStutter
<1>9. CASE Forward(r)
  <2>1. kind[r] = "add-leaf" /\ ~Forwarded(r) /\ Forwarded(r)'
    BY <1>9 DEF Forward, AwaitsGrounded, CountedMeans
  <2>2. UNCHANGED <<sealed, opened, token>>
    BY <1>9 DEF Forward
  <2>3. GatePhase(r)' = "forwarded"
    BY <1>1, <1>9, <2>1 DEF Forward, GatePhase
  <2>4. CASE opened[r]
    <3>1. GatePhase(r) = "vouched" /\ token[r] = art[r].key
      BY <1>9, <2>1, <2>4 DEF Forward, GatePhase, OpenedMeans
    <3>2. [q \in Request |-> IF Forwarded(q) THEN token[q] ELSE None]'
          = [[q \in Request |-> IF Forwarded(q) THEN token[q] ELSE None]
               EXCEPT ![r] = art[r].key]
      <4>1. \A q \in Request : q # r =>
               (Forwarded(q)' <=> Forwarded(q)) /\ token'[q] = token[q]
        BY <1>1
      <4>2. Forwarded(r)' /\ token'[r] = art[r].key BY <2>1, <2>2, <3>1
      <4> HIDE DEF Forwarded
      <4> QED BY <4>1, <4>2
    <3>3. [q \in Request |-> GatePhase(q)]'
          = [[q \in Request |-> GatePhase(q)] EXCEPT ![r] = "forwarded"]
      BY <1>2, <2>3 DEF GateLeafVars
    <3>4. Gate!ForwardWithToken(r)
      BY <1>1, <2>2, <3>1, <3>2, <3>3 DEF Gate!ForwardWithToken
    <3> QED BY <3>4 DEF Gate!Next
  <2>5. CASE ~opened[r]
    <3>1. GatePhase(r) = "accepted" /\ token[r] = None
      BY <1>9, <2>1, <2>5 DEF Forward, GatePhase, TokenMeans
    <3>2. \A q \in Request : (IF Forwarded(q) THEN token[q] ELSE None)'
                             = IF Forwarded(q) THEN token[q] ELSE None
      BY <1>1, <2>1, <2>2, <3>1
    <3>3. [q \in Request |-> GatePhase(q)]'
          = [[q \in Request |-> GatePhase(q)] EXCEPT ![r] = "forwarded"]
      BY <1>2, <2>3 DEF GateLeafVars
    <3>4. Gate!ForwardTokenless(r)
      BY <1>1, <2>2, <3>1, <3>2, <3>3 DEF Gate!ForwardTokenless
    <3> QED BY <3>4 DEF Gate!Next
  <2> QED BY <2>4, <2>5
<1> QED BY <1>3, <1>4, <1>5, <1>6, <1>7, <1>8, <1>9 DEF Serve

\* The log answers, or does not.
LEMMA GateUpstream ==
    ASSUME RelayInv, NEW r \in Request, Upstream(r)
    PROVE  [Gate!Next]_(Gate!vars)
<1> USE DEF RelayInv, TypeOK, Forwarded, isolateVars, budgetVars, callVars,
    leafVars
<1>1. /\ UNCHANGED <<now, sealed, callVars, leafVars>>
      /\ pc[r] = "sent" /\ pc' = [pc EXCEPT ![r] = "done"]
      /\ \A q \in Request : q # r => reply'[q] = reply[q]
      /\ reply'[r].status \in {"relayed", "timeout", "declined"}
  BY DEF Upstream, Answer, Decline, Declined, Plain, Finish, Move
<1>2. \A q \in Request : q # r => GateLeafVars(q)' = GateLeafVars(q)
  BY <1>1 DEF GateLeafVars, GatePhase
<1>3. CASE kind[r] = "add-leaf"
  <2>1. GatePhase(r) = "forwarded" /\ GatePhase(r)' = "answered"
    BY <1>1, <1>3 DEF GatePhase, Outcome
  <2>2. Gate!Answer(r)
    BY <1>1, <1>2, <2>1 DEF Gate!Answer, GateLeafVars
  <2> QED BY <2>2 DEF Gate!Next
<1>4. CASE kind[r] # "add-leaf"
  <2>1. GateLeafVars(r)' = GateLeafVars(r)
    BY <1>1, <1>4 DEF GateLeafVars, GatePhase
  <2> QED BY <1>1, <1>2, <2>1, GateStutter
<1> QED BY <1>3, <1>4

\* A mint settles: nobody was vouched for and waiting if it rejects.
LEMMA GateMint ==
    ASSUME RelayInv, NEW i \in Isolate, MintResolves(i) \/ MintRejects(i)
    PROVE  [Gate!Next]_(Gate!vars)
<1> USE DEF RelayInv, TypeOK, Forwarded, isolateVars, budgetVars, callVars,
    leafVars
<1>1. UNCHANGED <<now, sealed, callVars, leafVars>>
  BY DEF MintResolves, MintRejects
<1>2. ASSUME NEW q \in Request, kind[q] = "add-leaf"
      PROVE  GatePhase(q)' = GatePhase(q)
  <2>1. CASE pc'[q] = pc[q] /\ reply'[q] = reply[q]
    BY <1>1, <2>1 DEF GatePhase
  <2>2. CASE pc[q] \in {"keyWait", "tokenWait"} /\ pc'[q] = "send"
    BY <1>1, <2>2 DEF GatePhase
  <2> QED BY <1>2, <2>1, <2>2
          DEF MintResolves, MintRejects, Awaiting, KeylessPlace
<1>3. \A q \in Request : GateLeafVars(q)' = GateLeafVars(q)
  BY <1>1, <1>2 DEF GateLeafVars, GatePhase
<1> QED BY <1>1, <1>3, GateStutter

\* An isolate takes the calls it was serving with it.
LEMMA GateRestart ==
    ASSUME RelayInv, NEW i \in Isolate, NEW s \in Secret \cup {None},
           Restart(i, s)
    PROVE  [Gate!Next]_(Gate!vars)
<1> DEFINE R == {q \in Request : Serving(q, i) /\ kind[q] = "add-leaf"}
<1> USE DEF RelayInv, TypeOK, Forwarded, isolateVars, budgetVars, callVars,
    leafVars
<1>1. UNCHANGED <<now, sealed, callVars, leafVars>>
  BY DEF Restart
<1>2. ASSUME NEW q \in R
      PROVE  /\ GatePhase(q) \in {"arrived", "accepted", "vouched", "forwarded"}
             /\ GatePhase(q)' = "lost"
  BY <1>1 DEF Restart, Serving, GatePhase, Outcome, Plain
<1>3. ASSUME NEW q \in Request \ R PROVE GatePhase(q)' = GatePhase(q)
  BY <1>1 DEF Restart, GatePhase
<1>4. Gate!Lose(R)
  BY <1>1, <1>2, <1>3 DEF Gate!Lose
<1> QED BY <1>4 DEF Gate!Next

LEMMA GateRefines == RelayInv /\ [Next]_vars => [Gate!Next]_(Gate!vars)
<1> SUFFICES ASSUME RelayInv, [Next]_vars PROVE [Gate!Next]_(Gate!vars)
  OBVIOUS
<1>1. CASE Tick
  <2>1. Gate!Tick
    BY <1>1 DEF Tick, Gate!Tick, GatePhase, Forwarded, callVars, leafVars
  <2> QED BY <2>1 DEF Gate!Next
<1>2. CASE BucketDrains \/ UNCHANGED vars
  BY <1>2 DEF BucketDrains, vars, Gate!vars, GatePhase, Forwarded, callVars,
     leafVars
<1> QED BY <1>1, <1>2, GateArrive, GateServe, GateUpstream, GateMint,
           GateRestart DEF Next

\* Whatever its caches, awaits, counters and restarts, the relay behaves as
\* SubmissionGate says: forwarded before answered, with the token exactly when
\* vouched for.
THEOREM Refinement == Spec => ImplementsGate
  BY GateInit, GateRefines, RelayInvariant, PTL
     DEF Spec, ImplementsGate, Gate!Spec
=============================================================================
