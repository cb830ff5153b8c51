---------------------------- MODULE SigsumRelay ----------------------------
(***************************************************************************)
(* The Sigsum relay of the Worker (src/worker.mjs, handleSigsumRelay and   *)
(* the token, session and budget code it calls), served by several         *)
(* isolates that share nothing but the secret they were deployed with.     *)
(*                                                                         *)
(* A request runs to its next await in one step, so that requests on one   *)
(* isolate interleave at its module-level state exactly where the event    *)
(* loop lets them: the cached promise of the token header, the cached      *)
(* session key and the budget window. Isolates start cold, keep the secret *)
(* they started with, and may vanish with everything they hold.            *)
(*                                                                         *)
(* The token header is a deterministic signature under the secret and the  *)
(* session key a digest of the token header, so both stand here for the    *)
(* secret they come from; an artifact opens under a key only if it was     *)
(* sealed under that key (HMAC-SHA256).                                    *)
(***************************************************************************)
EXTENDS Integers, FiniteSets

CONSTANTS
    Request,        \* calls to the relay, each made once
    Isolate,        \* worker isolates
    Caller,         \* values of CF-Connecting-IP ("no address" is one of them)
    Secret,         \* values of SIGSUM_TOKEN_PRIVATE_KEY_JWK
    Usable,         \* those a token can be minted from
    None,           \* no secret, key, token, isolate or caller
    TTL,            \* SIGSUM_SESSION_TTL_MS
    Window,         \* SIGSUM_BUDGET_WINDOW_MS
    Budget,         \* SIGSUM_DAILY_BUDGET, the log's own limit per domain
    LastTime        \* bound on the clock

ASSUME RelayAssumption ==
    /\ None \notin Secret \cup Caller \cup Isolate
    /\ Usable \subseteq Secret
    /\ TTL \in Nat
    /\ Window \in Nat
    /\ Budget \in Nat
    /\ LastTime \in Nat
    /\ IsFiniteSet(Request)

VARIABLES
    now,            \* Date.now(), one clock for all isolates
    secret,         \* env.SIGSUM_TOKEN_PRIVATE_KEY_JWK of each isolate
    mint,           \* sigsumTokenHeaderPromise: "none", "pending" or "minted"
    key,            \* sigsumSessionKeyCache
    window,         \* sigsumBudgetWindow
    inWindow,       \* history: the calls counted in that window
    bucket,         \* the log's bucket of the domain: submissions it accepted
    sealed,         \* history: every artifact an isolate has sealed
    pc, kind, iso, caller, art,    \* of each call: progress and what it is
    opened,         \* openSigsumSession said ok
    token,          \* the Sigsum-Token it forwards, or None
    count,          \* the windowCount it was given
    upTo,           \* history: the calls counted in its window, itself last
    reply           \* the answer

isolateVars == <<secret, mint, key>>
budgetVars == <<window, inWindow>>
callVars == <<kind, iso, caller, art>>
leafVars == <<opened, token, count, upTo>>
vars == <<now, isolateVars, budgetVars, bucket, sealed, pc, callVars,
          leafVars, reply>>

-----------------------------------------------------------------------------
(* Types.                                                                  *)

Kind == {"session", "read", "add-leaf"}

\* The await a call is at. "reading": its body; "keyWait" and "tokenWait": the
\* token promise, for the session key and for the header itself; "keyed": the
\* MAC, with the session key in hand; "send": nothing, it is next to fetch;
\* "sent": the log.
Place == {"idle", "reading", "keyWait", "keyed", "tokenWait", "send", "sent",
          "done"}

Artifact == [form : {"sealed", "absent", "malformed", "forged"},
             key  : Secret \cup {None},
             tag  : Caller \cup {None},
             exp  : Nat]

Bare(form) == [form |-> form, key |-> None, tag |-> None, exp |-> 0]

BudgetWindow == [start : Nat, count : Nat]

Reply == [status : {"none", "refused", "bad", "session", "relayed",
                    "declined", "timeout", "lost"},
          pool   : {"none", "ours", "shared"},
          note   : {"none", "spent", "others"},
          full   : BOOLEAN,   \* history: our bucket was full when it was written
          others : BOOLEAN]   \* history: and not only with calls counted before

Plain(status) == [status |-> status, pool |-> "none", note |-> "none",
                  full |-> FALSE, others |-> FALSE]

TypeOK ==
    /\ now \in Nat
    /\ secret \in [Isolate -> Secret \cup {None}]
    /\ mint \in [Isolate -> {"none", "pending", "minted"}]
    /\ key \in [Isolate -> Secret \cup {None}]
    /\ window \in [Isolate -> BudgetWindow]
    /\ inWindow \in [Isolate -> SUBSET Request]
    /\ bucket \subseteq Request
    /\ sealed \subseteq Artifact
    /\ pc \in [Request -> Place]
    /\ kind \in [Request -> Kind]
    /\ iso \in [Request -> Isolate \cup {None}]
    /\ caller \in [Request -> Caller \cup {None}]
    /\ art \in [Request -> Artifact]
    /\ opened \in [Request -> BOOLEAN]
    /\ token \in [Request -> Secret \cup {None}]
    /\ count \in [Request -> Nat]
    /\ upTo \in [Request -> SUBSET Request]
    /\ reply \in [Request -> Reply]

-----------------------------------------------------------------------------
(* Pure helpers.                                                           *)

\* A slip is a plausible mistake in the definition that follows it; no action
\* uses one. Each is there to be put in that definition's place, and a property
\* must then fail.

\* Slip: the artifact is not bound to the caller.
OpensForAnybody(a, k, c, t) ==
    a.form = "sealed" /\ a.key = k /\ t <= a.exp

\* openSigsumSession on an artifact with both parts, under key k, for a call
\* from c at time t. The reason of a refusal goes to the log only.
Opens(a, k, c, t) ==
    /\ a.form = "sealed"
    /\ a.key = k
    /\ t <= a.exp
    /\ a.tag = c

\* recordSigsumSubmission: a window older than Window is started afresh.
Reopens(w, t) == t - w.start > Window

\* Slip: the submission that opens a window is not counted in it.
RecordedFromZero(w, t) ==
    IF Reopens(w, t) THEN [start |-> t, count |-> 0]
                     ELSE [w EXCEPT !.count = @ + 1]

Recorded(w, t) ==
    IF Reopens(w, t) THEN [start |-> t, count |-> 1]
                     ELSE [w EXCEPT !.count = @ + 1]

\* The two sentences of a 429: which pool ran out, and what this isolate's
\* counter makes of it.
SpentPool(tok) == IF tok # None THEN "ours" ELSE "shared"

\* Slip: off by one.
BudgetNoteLate(n) == IF n > Budget + 1 THEN "spent" ELSE "others"
BudgetNote(n) == IF n > Budget THEN "spent" ELSE "others"

Presentable == sealed \cup {Bare(f) : f \in {"absent", "malformed", "forged"}}

Move(r, from, to) == pc[r] = from /\ pc' = [pc EXCEPT ![r] = to]
Finish(r, from, answer) ==
    /\ Move(r, from, "done")
    /\ reply' = [reply EXCEPT ![r] = answer]

-----------------------------------------------------------------------------
(* The session key and the token header of an isolate.                     *)

\* Slip: every call mints anew.
JoinFreshMint(i) == mint' = [mint EXCEPT ![i] = "pending"]

\* mintSigsumTokenHeader: start minting unless somebody already has.
JoinMint(i) == mint' = [mint EXCEPT ![i] = IF @ = "none" THEN "pending" ELSE @]

\* A call that learns there is no session key: the mint route answers with no
\* session, an add-leaf goes on with its artifact unopened.
KeylessPlace(k) == IF k = "session" THEN "done" ELSE "send"
KeylessReply(k) == IF k = "session" THEN Plain("session") ELSE Plain("none")

\* sigsumSessionKey: the cached key, or else the token header to derive one
\* from, or none without a secret.
AskKey(r, i, k, from) ==
    \/ /\ Move(r, from, "keyed")
       /\ key[i] # None
       /\ UNCHANGED <<mint, reply>>
    \/ /\ Move(r, from, "keyWait")
       /\ key[i] = None
       /\ secret[i] # None
       /\ JoinMint(i)
       /\ UNCHANGED reply
    \/ /\ Move(r, from, KeylessPlace(k))
       /\ key[i] = None
       /\ secret[i] = None
       /\ reply' = [reply EXCEPT ![r] = KeylessReply(k)]
       /\ UNCHANGED mint

MintResolves(i) ==
    /\ mint[i] = "pending"
    /\ secret[i] \in Usable
    /\ mint' = [mint EXCEPT ![i] = "minted"]
    /\ UNCHANGED <<now, secret, key, budgetVars, bucket, sealed, pc, callVars,
                   leafVars, reply>>

\* Slip: a rejected mint is dropped without settling its promise.
MintRejectsSilently(i) ==
    /\ mint[i] = "pending"
    /\ mint' = [mint EXCEPT ![i] = "none"]
    /\ UNCHANGED <<now, secret, key, budgetVars, bucket, sealed, pc, callVars,
                   leafVars, reply>>

\* The mint throws, for want of a usable secret or because the runtime's
\* crypto does: the promise is dropped and everybody awaiting it gets null.
Awaiting(r, i) == iso[r] = i /\ pc[r] \in {"keyWait", "tokenWait"}
MintRejects(i) ==
    /\ mint[i] = "pending"
    /\ mint' = [mint EXCEPT ![i] = "none"]
    /\ pc' = [r \in Request |->
                 IF Awaiting(r, i) THEN KeylessPlace(kind[r]) ELSE pc[r]]
    /\ reply' = [r \in Request |->
                    IF Awaiting(r, i) THEN KeylessReply(kind[r]) ELSE reply[r]]
    /\ UNCHANGED <<now, secret, key, budgetVars, bucket, sealed, callVars,
                   leafVars>>

\* Slip: what is cached is the state of the promise, not what it resolves to.
DeriveKeyUnawaited(r) ==
    /\ Move(r, "keyWait", "keyed")
    /\ mint[iso[r]] = "minted"
    /\ key' = [key EXCEPT ![iso[r]] = mint[iso[r]]]
    /\ UNCHANGED <<now, secret, mint, budgetVars, bucket, sealed, callVars,
                   leafVars, reply>>

DeriveKey(r) ==
    /\ Move(r, "keyWait", "keyed")
    /\ mint[iso[r]] = "minted"
    /\ key' = [key EXCEPT ![iso[r]] = secret[iso[r]]]
    /\ UNCHANGED <<now, secret, mint, budgetVars, bucket, sealed, callVars,
                   leafVars, reply>>

-----------------------------------------------------------------------------
(* Arrival. The rate limiter is the platform's: it may admit or refuse.    *)

\* Date.now() is far beyond any window of the epoch, so that the first
\* submission of an isolate always opens one (start = 0 in the code). Isolates
\* of several deployments may be alive at once.
Init ==
    /\ now = Window + 1
    /\ secret \in [Isolate -> Secret \cup {None}]
    /\ mint = [i \in Isolate |-> "none"]
    /\ key = [i \in Isolate |-> None]
    /\ window = [i \in Isolate |-> [start |-> 0, count |-> 0]]
    /\ inWindow = [i \in Isolate |-> {}]
    /\ bucket = {}
    /\ sealed = {}
    /\ pc = [r \in Request |-> "idle"]
    /\ kind = [r \in Request |-> "read"]
    /\ iso = [r \in Request |-> None]
    /\ caller = [r \in Request |-> None]
    /\ art = [r \in Request |-> Bare("absent")]
    /\ opened = [r \in Request |-> FALSE]
    /\ token = [r \in Request |-> None]
    /\ count = [r \in Request |-> 0]
    /\ upTo = [r \in Request |-> {}]
    /\ reply = [r \in Request |-> Plain("none")]

\* What a request says of itself. Only an add-leaf carries an artifact.
Identify(r, i, c, k, a) ==
    /\ kind' = [kind EXCEPT ![r] = k]
    /\ iso' = [iso EXCEPT ![r] = i]
    /\ caller' = [caller EXCEPT ![r] = c]
    /\ art' = [art EXCEPT ![r] = a]

Refuse(r, i, c, k, a) ==
    /\ Finish(r, "idle", Plain("refused"))
    /\ Identify(r, i, c, k, a)
    /\ UNCHANGED <<now, isolateVars, budgetVars, bucket, sealed, leafVars>>

AdmitSession(r, i, c) ==
    /\ Identify(r, i, c, "session", Bare("absent"))
    /\ AskKey(r, i, "session", "idle")
    /\ UNCHANGED <<now, secret, key, budgetVars, bucket, sealed, leafVars>>

AdmitRead(r, i, c) ==
    /\ Identify(r, i, c, "read", Bare("absent"))
    /\ Move(r, "idle", "sent")
    /\ UNCHANGED <<now, isolateVars, budgetVars, bucket, sealed, leafVars,
                   reply>>

AdmitLeaf(r, i, c, a) ==
    /\ Identify(r, i, c, "add-leaf", a)
    /\ Move(r, "idle", "reading")
    /\ UNCHANGED <<now, isolateVars, budgetVars, bucket, sealed, leafVars,
                   reply>>

\* The body is read: empty (400) or over MAX_BODY_BYTES (413).
RejectBody(r) ==
    /\ Finish(r, "reading", Plain("bad"))
    /\ UNCHANGED <<now, isolateVars, budgetVars, bucket, sealed, callVars,
                   leafVars>>

\* Otherwise the artifact is looked at: without its two parts it is turned
\* down before any key is needed.
AcceptBody(r) ==
    /\ IF art[r].form \in {"absent", "malformed"}
       THEN Move(r, "reading", "send") /\ UNCHANGED <<mint, reply>>
       ELSE AskKey(r, iso[r], "add-leaf", "reading")
    /\ UNCHANGED <<now, secret, key, budgetVars, bucket, sealed, callVars,
                   leafVars>>

-----------------------------------------------------------------------------
(* With the session key: GET session, and the session check of an add-leaf. *)

\* sealSigsumSession: an artifact for this caller, good for TTL.
Seal(r) ==
    /\ kind[r] = "session"
    /\ Finish(r, "keyed", Plain("session"))
    /\ sealed' = sealed \cup {[form |-> "sealed", key |-> key[iso[r]],
                               tag |-> caller[r], exp |-> now + TTL]}
    /\ UNCHANGED <<now, isolateVars, budgetVars, bucket, callVars, leafVars>>

OpenFails(r) ==
    /\ kind[r] = "add-leaf"
    /\ Move(r, "keyed", "send")
    /\ ~Opens(art[r], key[iso[r]], caller[r], now)
    /\ UNCHANGED <<now, isolateVars, budgetVars, bucket, sealed, callVars,
                   leafVars, reply>>

\* session.ok: the token header is asked for again, for the header itself.
OpenSucceeds(r) ==
    /\ kind[r] = "add-leaf"
    /\ pc[r] = "keyed"
    /\ Opens(art[r], key[iso[r]], caller[r], now)
    /\ opened' = [opened EXCEPT ![r] = TRUE]
    /\ IF secret[iso[r]] = None
       THEN Move(r, "keyed", "send") /\ UNCHANGED mint
       ELSE Move(r, "keyed", "tokenWait") /\ JoinMint(iso[r])
    /\ UNCHANGED <<now, secret, key, budgetVars, bucket, sealed, callVars,
                   token, count, upTo, reply>>

TakeToken(r) ==
    /\ Move(r, "tokenWait", "send")
    /\ mint[iso[r]] = "minted"
    /\ token' = [token EXCEPT ![r] = secret[iso[r]]]
    /\ UNCHANGED <<now, isolateVars, budgetVars, bucket, sealed, callVars,
                   opened, count, upTo, reply>>

-----------------------------------------------------------------------------
(* The submission itself, and the answer of the log.                       *)

\* Slip: an isolate that believes the budget spent answers 429 by itself.
ForwardWithinBudget(r) ==
    LET i == iso[r]
        w == Recorded(window[i], now)
    IN  /\ pc[r] = "send"
        /\ IF w.count > Budget
           THEN Finish(r, "send", [Plain("declined") EXCEPT !.pool = "shared"])
           ELSE Move(r, "send", "sent") /\ UNCHANGED reply
        /\ window' = [window EXCEPT ![i] = w]
        /\ inWindow' = [inWindow EXCEPT ![i] = @ \cup {r}]
        /\ count' = [count EXCEPT ![r] = w.count]
        /\ upTo' = [upTo EXCEPT ![r] = inWindow[i] \cup {r}]
        /\ UNCHANGED <<now, isolateVars, bucket, sealed, callVars, opened,
                       token>>

\* Counted, then fetched, in one go: the count is never a reason not to.
Forward(r) ==
    LET i == iso[r]
        w == Recorded(window[i], now)
        mine == (IF Reopens(window[i], now) THEN {} ELSE inWindow[i]) \cup {r}
    IN  /\ Move(r, "send", "sent")
        /\ window' = [window EXCEPT ![i] = w]
        /\ inWindow' = [inWindow EXCEPT ![i] = mine]
        /\ count' = [count EXCEPT ![r] = w.count]
        /\ upTo' = [upTo EXCEPT ![r] = mine]
        /\ UNCHANGED <<now, isolateVars, bucket, sealed, callVars, opened,
                       token, reply>>

\* The log accepts a submission made with the token as long as the bucket of
\* the domain has room; every other submission is none of that bucket's.
BucketFull == Cardinality(bucket) >= Budget
MayCharge(r) == token[r] # None /\ ~BucketFull

\* Any status but 429 is passed through; or no answer within
\* UPSTREAM_TIMEOUT_MS (504), whether or not the log took the leaf.
Answer(r) ==
    /\ \E status \in {"relayed", "timeout"} : Finish(r, "sent", Plain(status))
    /\ \/ bucket' = bucket
       \/ MayCharge(r) /\ bucket' = bucket \cup {r}
    /\ UNCHANGED <<now, isolateVars, budgetVars, sealed, callVars, leafVars>>

\* A 429: ours when the bucket of the domain is full, the shared pool's at the
\* log's pleasure.
Declined(r) == [status |-> "declined", pool |-> SpentPool(token[r]),
                note |-> BudgetNote(count[r]), full |-> BucketFull,
                others |-> bucket \ upTo[r] # {}]
Decline(r) ==
    /\ kind[r] = "add-leaf"
    /\ token[r] = None \/ BucketFull
    /\ Finish(r, "sent", Declined(r))
    /\ UNCHANGED <<now, isolateVars, budgetVars, bucket, sealed, callVars,
                   leafVars>>

-----------------------------------------------------------------------------
(* The world around the isolates.                                          *)

Tick ==
    /\ now < Window + 1 + LastTime
    /\ now' = now + 1
    /\ UNCHANGED <<isolateVars, budgetVars, bucket, sealed, pc, callVars,
                   leafVars, reply>>

\* A submission leaves the log's last 24 hours.
BucketDrains ==
    /\ \E r \in bucket : bucket' = bucket \ {r}
    /\ UNCHANGED <<now, isolateVars, budgetVars, sealed, pc, callVars,
                   leafVars, reply>>

\* An isolate is evicted with the calls it was serving; a cold one takes its
\* place, of this deployment or of one with another secret or none.
Serving(r, i) == iso[r] = i /\ pc[r] \notin {"idle", "done"}
Restart(i, s) ==
    /\ secret' = [secret EXCEPT ![i] = s]
    /\ mint' = [mint EXCEPT ![i] = "none"]
    /\ key' = [key EXCEPT ![i] = None]
    /\ window' = [window EXCEPT ![i] = [start |-> 0, count |-> 0]]
    /\ inWindow' = [inWindow EXCEPT ![i] = {}]
    /\ pc' = [r \in Request |-> IF Serving(r, i) THEN "done" ELSE pc[r]]
    /\ reply' = [r \in Request |->
                    IF Serving(r, i) THEN Plain("lost") ELSE reply[r]]
    /\ UNCHANGED <<now, bucket, sealed, callVars, leafVars>>

-----------------------------------------------------------------------------
(* The specification.                                                      *)

Arrive(r) ==
    \E i \in Isolate, c \in Caller :
       \/ AdmitSession(r, i, c)
       \/ AdmitRead(r, i, c)
       \/ \E a \in Presentable : AdmitLeaf(r, i, c, a)
       \/ \E k \in Kind : Refuse(r, i, c, k, Bare("absent"))

\* What the isolate does for a call it need not wait for anybody to do.
Serve(r) ==
    \/ RejectBody(r) \/ AcceptBody(r)
    \/ DeriveKey(r) \/ Seal(r)
    \/ OpenFails(r) \/ OpenSucceeds(r) \/ TakeToken(r)
    \/ Forward(r)

Upstream(r) == Answer(r) \/ Decline(r)

Next ==
    \/ \E r \in Request : Arrive(r) \/ Serve(r) \/ Upstream(r)
    \/ \E i \in Isolate : MintResolves(i) \/ MintRejects(i)
    \/ \E i \in Isolate, s \in Secret \cup {None} : Restart(i, s)
    \/ Tick
    \/ BucketDrains

Spec == Init /\ [][Next]_vars

\* The event loop runs what can run, crypto settles, and every fetch carries
\* an AbortSignal.timeout. Nothing obliges a caller, an operator, the platform
\* or the clock to act.
Fairness ==
    /\ \A r \in Request : WF_vars(Serve(r)) /\ WF_vars(Upstream(r))
    /\ \A i \in Isolate : WF_vars(MintResolves(i) \/ MintRejects(i))

FairSpec == Spec /\ Fairness

-----------------------------------------------------------------------------
(* What the relay guarantees.                                              *)

Forwarded(r) == r \in upTo[r]

\* A submission carries the token only if the artifact it came with had been
\* sealed by the relay, for the very caller that presents it and under the
\* secret the token is minted from: whatever isolate sealed it, whatever
\* isolate opens it, and whatever was redeployed or restarted in between
\* (worker.mjs: "the token now rides ONLY on requests carrying a valid session
\* artifact", "the artifact is bound to the caller").
TokenRidesOnSession ==
    \A r \in Request :
       token[r] # None =>
          /\ art[r] \in sealed
          /\ art[r].tag = caller[r]
          /\ art[r].key = token[r]

\* The reverse: a submission whose session check said ok never goes out
\* without the token. The check needed the session key, the key was derived
\* from a minted token header, and no rejected mint can take that header away
\* again. Any caching of the two values that lets them come apart breaks it.
ValidSessionHasToken ==
    \A r \in Request : Forwarded(r) /\ opened[r] => token[r] # None

\* The counter a 429 quotes: it is the number of submissions the isolate has
\* itself made since the window opened, this one included, over every
\* interleaving, window rollover and restart (recordSigsumSubmission).
CountIsHonest ==
    /\ \A i \in Isolate : window[i].count = Cardinality(inWindow[i])
    /\ \A r \in Request : count[r] = Cardinality(upTo[r])

\* What a 429 tells a caller whose submission carried the token is true when
\* it is written: our budget is reported spent only when it is, and blamed on
\* others only when somebody other than the submissions counted before this
\* one, in this window of this isolate, is in the bucket.
DeclineTellsTheTruth ==
    \A r \in Request :
       reply[r].status = "declined" =>
          /\ reply[r].pool = "ours" => token[r] # None /\ reply[r].full
          /\ token[r] # None => reply[r].pool = "ours"
          /\ token[r] # None /\ reply[r].note = "others" => reply[r].others

\* "A tokenless submission never touches ainumbers.co's budget, so reporting
\* ours as spent would be false" (worker.mjs:2239): neither of the two
\* sentences a 429 carries tells a tokenless caller that our budget is spent.
TokenlessNeverToldSpent ==
    \A r \in Request :
       reply[r].status = "declined" /\ token[r] = None =>
          reply[r].pool # "ours" /\ reply[r].note # "spent"

\* Every call gets an answer, unless its isolate is lost: no call is left
\* awaiting a token promise nobody will settle.
EveryCallAnswered ==
    \A r \in Request : (pc[r] # "idle") ~> (pc[r] = "done")

-----------------------------------------------------------------------------
(* The relay implements SubmissionGate, where only the add-leaf calls and  *)
(* the artifacts are seen.                                                 *)

Outcome(status) ==
    CASE status \in {"refused", "bad"} -> "refused"
      [] status = "lost"               -> "lost"
      [] OTHER                         -> "answered"

GatePhase(r) ==
    IF kind[r] # "add-leaf" THEN "new"
    ELSE CASE pc[r] = "reading" -> "arrived"
           [] pc[r] = "sent"    -> "forwarded"
           [] pc[r] = "done"    -> Outcome(reply[r].status)
           [] OTHER             -> IF opened[r] THEN "vouched" ELSE "accepted"

Gate == INSTANCE SubmissionGate WITH
    phase  <- [r \in Request |-> GatePhase(r)],
    caller <- [r \in Request |->
                 IF kind[r] = "add-leaf" THEN caller[r] ELSE None],
    art    <- [r \in Request |-> art[r]],
    token  <- [r \in Request |-> IF Forwarded(r) THEN token[r] ELSE None]

\* Seen from the outside the relay is SubmissionGate: an accepted submission
\* is always forwarded before it is answered, whatever its session is worth
\* and however far over budget the isolate believes itself ("NEVER pre-block"),
\* and with the token exactly when it was vouched for.
ImplementsGate == Gate!Spec

-----------------------------------------------------------------------------
(* The inductive invariant behind the safety properties.                   *)

\* A call that has arrived is on an isolate; one that has not is blank.
CallsPlaced ==
    \A r \in Request :
       IF pc[r] = "idle"
       THEN kind[r] = "read" /\ art[r] = Bare("absent")
       ELSE iso[r] \in Isolate /\ caller[r] \in Caller

\* The two caches of an isolate agree with each other and with its secret.
CachesAgree ==
    \A i \in Isolate :
       /\ mint[i] # "none" => secret[i] # None
       /\ key[i] # None => key[i] = secret[i] /\ mint[i] = "minted"

\* A call awaits only what is coming, and holds the key its isolate caches.
AwaitsGrounded ==
    \A r \in Request :
       /\ pc[r] = "keyWait" => mint[iso[r]] # "none"
       /\ pc[r] = "keyed" => key[iso[r]] # None
       /\ pc[r] = "tokenWait" => opened[r] /\ mint[iso[r]] = "minted"
       /\ pc[r] \in {"reading", "send"} => kind[r] = "add-leaf"
       /\ pc[r] = "keyWait" => kind[r] # "read"

\* Artifacts come from the relay.
ArtifactsGenuine ==
    /\ \A a \in sealed : a.form = "sealed" /\ a.key \in Secret
    /\ \A r \in Request : art[r].form = "sealed" => art[r] \in sealed

\* What a session check that said ok leaves behind.
OpenedMeans ==
    \A r \in Request :
       opened[r] =>
          /\ kind[r] = "add-leaf"
          /\ pc[r] \in {"tokenWait", "send", "sent", "done"}
          /\ art[r] \in sealed
          /\ art[r].tag = caller[r]
          /\ pc[r] = "tokenWait" => secret[iso[r]] = art[r].key
          /\ pc[r] = "send" \/ Forwarded(r) => token[r] = art[r].key

TokenMeans ==
    \A r \in Request : token[r] # None => opened[r] /\ token[r] = art[r].key

\* Only what was fetched was counted.
CountedMeans ==
    /\ \A i \in Isolate : \A r \in inWindow[i] : Forwarded(r)
    /\ \A r \in Request : Forwarded(r) =>
          pc[r] \in {"sent", "done"} /\ kind[r] = "add-leaf"
    /\ \A r \in Request : pc[r] = "sent" /\ kind[r] = "add-leaf" => Forwarded(r)
    /\ \A r \in Request : ~Forwarded(r) => upTo[r] = {} /\ count[r] = 0

\* The conjuncts above, inductive together.
RelayInv ==
    /\ TypeOK
    /\ CallsPlaced
    /\ CachesAgree
    /\ AwaitsGrounded
    /\ ArtifactsGenuine
    /\ OpenedMeans
    /\ TokenMeans
    /\ CountedMeans

\* The bucket holds calls that are over, and so do the refusals.
BucketMeans == \A r \in bucket : pc[r] = "done"
DeclinedMeans == \A r \in Request : reply[r].status = "declined" => pc[r] = "done"

\* Inductive relative to RelayInv.
BudgetInv ==
    /\ CountIsHonest
    /\ BucketMeans
    /\ DeclinedMeans
    /\ DeclineTellsTheTruth
=============================================================================
