---------------------------- MODULE SigsumReceipt ----------------------------
(***************************************************************************)
(* The Sigsum client of the pages (public/lib/sigsum.mjs): stampSigsum, the *)
(* session artifact it caches, the quick look for an inclusion proof that  *)
(* ends a stamp, and upgradeSigsumBinding, the same look repeated later,   *)
(* against a log that takes, sequences and publishes leaves on its own     *)
(* cadence.                                                                *)
(*                                                                         *)
(* Stamps may overlap (a batch builds its tree before it disables the      *)
(* stamp button) and share the cached artifact; checks of pending bindings *)
(* run beside them and beside each other. A fetch may end in any way at    *)
(* all, by its own timeout at the latest: the relay's limiter, the relay,  *)
(* the network and the log are not told apart, except that the log can     *)
(* take a leaf nobody is told about.                                       *)
(*                                                                         *)
(* The relay's side of the session is SigsumRelay; here an artifact is     *)
(* known by the time the relay will stop accepting it. The page's clock is *)
(* only ever compared with itself, so one clock does for both.             *)
(***************************************************************************)
EXTENDS Integers, Sequences

CONSTANTS
    Stamp,          \* calls of stampSigsum, each with a leaf of its own
    None,           \* no artifact, no binding
    Attempts,       \* of tryFetchInclusion (3)
    TTL,            \* lifetime of a session artifact (10 min)
    MintTimeout,    \* AbortSignal.timeout of the mint (10 s)
    Margin,         \* what a cached artifact must have left (5 s)
    LastTime        \* bound on the clock

ASSUME ReceiptAssumption ==
    /\ Attempts \in Nat \ {0}
    /\ TTL \in Nat
    /\ MintTimeout \in Nat
    /\ Margin \in Nat
    /\ LastTime \in Nat
    /\ TTL >= 2 * MintTimeout + Margin
    /\ None \notin Nat

VARIABLES
    now,            \* Date.now()
    session,        \* sessionArtifact
    pc,             \* progress of each stamp
    since,          \* when its session was asked for, then when it was sent
    offered,        \* expiry of the artifact the relay sealed for it
    carried,        \* expiry of the artifact its add-leaf carries
    acked,          \* history: its add-leaf was answered 200 or 202
    look,           \* tryFetchInclusion, for the stamp or for a later check
    binding,        \* the anchor binding the user holds
    flight,         \* add-leaf requests that may still reach the log
    taken,          \* leaves the log has accepted and not yet sequenced
    log,            \* the leaves of its tree, oldest first
    head            \* size of the tree head it publishes

pageVars == <<session, pc, since, offered, carried, acked, look, binding>>
logVars == <<flight, taken, log, head>>
vars == <<now, pageVars, logVars>>

-----------------------------------------------------------------------------
\* What the page keeps as sessionArtifact.value is, to the relay, when it expires.
Session == [value : Nat, expiresAt : Int]

\* "mint": awaiting the session; "sent": the add-leaf; "look": the first look.
\* Then "done" with a binding, "failed" with a leaf submitted and no binding,
\* or "closed" before anything was submitted.
Place == {"idle", "mint", "sent", "look", "done", "failed", "closed"}
Look == [at : {"off", "head", "proof"}, attempt : Nat, size : Nat]

Pending == [type |-> "pending"]
Proof(root, size, index) ==
    [type |-> "proof", root |-> root, size |-> size, index |-> index]
Binding == {Pending} \cup
           [type : {"proof"}, root : Nat, size : Nat, index : Nat]

ASSUME NoneAssumption == None \notin Binding

TypeOK ==
    /\ now \in Nat
    /\ session \in Session \cup {None}
    /\ pc \in [Stamp -> Place]
    /\ since \in [Stamp -> Nat]
    /\ offered \in [Stamp -> Nat \cup {None}]
    /\ carried \in [Stamp -> Nat \cup {None}]
    /\ acked \in [Stamp -> BOOLEAN]
    /\ look \in [Stamp -> Look]
    /\ binding \in [Stamp -> Binding \cup {None}]
    /\ flight \subseteq Stamp
    /\ taken \subseteq Stamp
    /\ log \in Seq(Stamp)
    /\ head \in Nat

Logged == {log[i] : i \in 1..Len(log)}
Accepted == taken \cup Logged

Off == [at |-> "off", attempt |-> 0, size |-> 0]
Try(n) == [at |-> "head", attempt |-> n, size |-> 0]

Stamping(s) == pc[s] \in {"mint", "sent", "look"}
Running(s) == Stamping(s) \/ look[s].at # "off"

Init ==
    /\ now = 0
    /\ session = None
    /\ pc = [s \in Stamp |-> "idle"]
    /\ since = [s \in Stamp |-> 0]
    /\ offered = [s \in Stamp |-> None]
    /\ carried = [s \in Stamp |-> None]
    /\ acked = [s \in Stamp |-> FALSE]
    /\ look = [s \in Stamp |-> Off]
    /\ binding = [s \in Stamp |-> None]
    /\ flight = {}
    /\ taken = {}
    /\ log = <<>>
    /\ head = 0

-----------------------------------------------------------------------------
\* A slip is a plausible mistake in the definition that follows it; no action
\* uses one. Each is there to be put in that definition's place, and a property
\* must then fail.

(* stampSigsum: the session, then the submission.                          *)

\* Slip: an artifact once cached is used whatever its age.
FreshForever(a) == a # None

\* sessionHeaders: a cached artifact is used only with some time left.
Fresh(a) == a # None /\ a.expiresAt > now + Margin

\* The add-leaf is fetched with an artifact or without one.
Send(s, exp) ==
    /\ pc' = [pc EXCEPT ![s] = "sent"]
    /\ carried' = [carried EXCEPT ![s] = exp]
    /\ since' = [since EXCEPT ![s] = now]
    /\ offered' = [offered EXCEPT ![s] = None]
    /\ flight' = flight \cup {s}

\* A fetch that is over leaves nothing of what was sent.
Over(S) ==
    /\ since' = [s \in Stamp |-> IF s \in S THEN 0 ELSE since[s]]
    /\ carried' = [s \in Stamp |-> IF s \in S THEN None ELSE carried[s]]

\* The call begins. A stale artifact is dropped before the mint is tried.
Begin(s) ==
    /\ pc[s] = "idle"
    /\ \/ /\ Fresh(session)
          /\ Send(s, session.value)
          /\ UNCHANGED session
       \/ /\ ~Fresh(session)
          /\ session' = None
          /\ pc' = [pc EXCEPT ![s] = "mint"]
          /\ since' = [since EXCEPT ![s] = now]
          /\ UNCHANGED <<carried, offered, flight>>
    /\ UNCHANGED <<now, acked, look, binding, taken, log, head>>

\* The relay seals an artifact, whether or not the page ever sees it.
RelaySeals(s) ==
    /\ pc[s] = "mint"
    /\ offered[s] = None
    /\ offered' = [offered EXCEPT ![s] = now + TTL]
    /\ UNCHANGED <<now, session, pc, since, carried, acked, look, binding,
                   logVars>>

\* Slip: any JSON that comes back is taken for a session.
MintReturnsUnchecked(s) ==
    /\ pc[s] = "mint"
    /\ session' = [value |-> offered[s], expiresAt |-> since[s] + TTL]
    /\ Send(s, offered[s])
    /\ UNCHANGED <<now, acked, look, binding, taken, log, head>>

\* Its lifetime is counted from before the mint was asked for.
MintReturns(s) ==
    /\ pc[s] = "mint"
    /\ offered[s] # None
    /\ session' = [value |-> offered[s], expiresAt |-> since[s] + TTL]
    /\ Send(s, offered[s])
    /\ UNCHANGED <<now, acked, look, binding, taken, log, head>>

\* The mint fails, is refused by the limiter, or says there is no session. The
\* artifact that another stamp has cached meanwhile is taken as it is.
MintFails(s) ==
    /\ pc[s] = "mint"
    /\ Send(s, IF session = None THEN None ELSE session.value)
    /\ UNCHANGED <<now, session, acked, look, binding, taken, log, head>>

\* Slip: any status will do.
SubmitAnswered(s) ==
    /\ pc[s] = "sent"
    /\ pc' = [pc EXCEPT ![s] = "look"]
    /\ acked' = [acked EXCEPT ![s] = TRUE]
    /\ look' = [look EXCEPT ![s] = Try(1)]
    /\ Over({s})
    /\ UNCHANGED <<now, session, offered, binding, logVars>>

\* 200 or 202: the log has the leaf, and the first look for a proof begins.
SubmitAcked(s) ==
    /\ pc[s] = "sent"
    /\ s \in Accepted
    /\ pc' = [pc EXCEPT ![s] = "look"]
    /\ acked' = [acked EXCEPT ![s] = TRUE]
    /\ look' = [look EXCEPT ![s] = Try(1)]
    /\ Over({s})
    /\ UNCHANGED <<now, session, offered, binding, logVars>>

\* Any other status, or no answer: the call throws. The request may yet reach
\* the log, or may have reached it.
SubmitFails(s) ==
    /\ pc[s] = "sent"
    /\ pc' = [pc EXCEPT ![s] = "failed"]
    /\ Over({s})
    /\ UNCHANGED <<now, session, offered, acked, look, binding, logVars>>

-----------------------------------------------------------------------------
(* tryFetchInclusion, on behalf of the stamp or of a later check: the tree *)
(* head, then a proof for the tree of that size.                           *)

\* The look ends and its caller is handed b, which it keeps.
Return(s, b) ==
    /\ look' = [look EXCEPT ![s] = Off]
    /\ binding' = [binding EXCEPT ![s] = b]
    /\ pc' = [pc EXCEPT ![s] = "done"]

\* Slip: an attempt that fails is not counted.
RetryUncounted(s) ==
    \/ /\ look[s].attempt < Attempts
       /\ look' = [look EXCEPT ![s] = Try(@.attempt)]
       /\ UNCHANGED <<binding, pc>>
    \/ /\ look[s].attempt >= Attempts
       /\ Return(s, Pending)

\* On to the next attempt, or back with what there is: the pending binding.
Retry(s) ==
    \/ /\ look[s].attempt < Attempts
       /\ look' = [look EXCEPT ![s] = Try(@.attempt + 1)]
       /\ UNCHANGED <<binding, pc>>
    \/ /\ look[s].attempt >= Attempts
       /\ Return(s, Pending)

\* Slip: a tree of one leaf is taken for an empty one.
HeadArrivesOfTwo(s) ==
    /\ look[s].at = "head"
    /\ head > 1
    /\ look' = [look EXCEPT ![s].at = "proof", ![s].size = head]
    /\ UNCHANGED <<now, session, pc, since, offered, carried, acked, binding,
                   logVars>>

HeadArrives(s) ==
    /\ look[s].at = "head"
    /\ head >= 1
    /\ look' = [look EXCEPT ![s].at = "proof", ![s].size = head]
    /\ UNCHANGED <<now, session, pc, since, offered, carried, acked, binding,
                   logVars>>

\* Slip: the proof that comes back is one for the tree of this moment.
ProofArrivesForNow(s) ==
    /\ look[s].at = "proof"
    /\ \E i \in 1..head :
          /\ log[i] = s
          /\ Return(s, Proof(look[s].size, head, i - 1))
    /\ UNCHANGED <<now, session, since, offered, carried, acked, logVars>>

\* The log answers for the tree of the size asked for, if the leaf is in it.
ProofArrives(s) ==
    /\ look[s].at = "proof"
    /\ \E i \in 1..look[s].size :
          /\ log[i] = s
          /\ Return(s, Proof(look[s].size, look[s].size, i - 1))
    /\ UNCHANGED <<now, session, since, offered, carried, acked, logVars>>

\* No answer, another status, an empty tree.
TryFails(s) ==
    /\ look[s].at # "off"
    /\ Retry(s)
    /\ UNCHANGED <<now, session, since, offered, carried, acked, logVars>>

\* A 200 whose body cannot be read or lacks a field: nothing catches that in
\* the look. A check leaves the user with the pending binding it was given; a
\* stamp fails.
LookThrows(s) ==
    /\ look[s].at # "off"
    /\ look' = [look EXCEPT ![s] = Off]
    /\ pc' = [pc EXCEPT ![s] = IF @ = "look" THEN "failed" ELSE @]
    /\ UNCHANGED <<now, session, since, offered, carried, acked, binding,
                   logVars>>

\* Slip: a check submits the leaf once more.
CheckByRestamping(s) ==
    /\ binding[s] = Pending
    /\ look[s].at = "off"
    /\ look' = [look EXCEPT ![s] = Try(1)]
    /\ flight' = flight \cup {s}
    /\ UNCHANGED <<now, session, pc, since, offered, carried, acked, binding,
                   taken, log, head>>

\* upgradeSigsumBinding, from any page that holds the pending binding.
Check(s) ==
    /\ binding[s] = Pending
    /\ look[s].at = "off"
    /\ look' = [look EXCEPT ![s] = Try(1)]
    /\ UNCHANGED <<now, session, pc, since, offered, carried, acked, binding,
                   logVars>>

\* The tab is closed with all it is doing; the bindings it handed out stay.
Ended(p) == CASE p = "mint"             -> "closed"
              [] p \in {"sent", "look"} -> "failed"
              [] OTHER                  -> p
CloseTab ==
    /\ \E s \in Stamp : Running(s)
    /\ session' = None
    /\ pc' = [s \in Stamp |-> Ended(pc[s])]
    /\ look' = [s \in Stamp |-> Off]
    /\ Over(Stamp)
    /\ offered' = [s \in Stamp |-> None]
    /\ UNCHANGED <<now, acked, binding, logVars>>

-----------------------------------------------------------------------------
(* The log and the clock.                                                  *)

LogTakes(s) ==
    /\ s \in flight
    /\ flight' = flight \ {s}
    /\ taken' = taken \cup {s}
    /\ UNCHANGED <<now, pageVars, log, head>>

LogMisses(s) ==
    /\ s \in flight
    /\ flight' = flight \ {s}
    /\ UNCHANGED <<now, pageVars, taken, log, head>>

LogSequences(s) ==
    /\ s \in taken
    /\ taken' = taken \ {s}
    /\ log' = Append(log, s)
    /\ UNCHANGED <<now, pageVars, flight, head>>

LogPublishes ==
    /\ \E n \in (head + 1)..Len(log) : head' = n
    /\ UNCHANGED <<now, pageVars, flight, taken, log>>

\* A mint that is due has timed out before the clock moves on.
Tick ==
    /\ now < LastTime
    /\ \A s \in Stamp : pc[s] = "mint" => now < since[s] + MintTimeout
    /\ now' = now + 1
    /\ UNCHANGED <<pageVars, logVars>>

-----------------------------------------------------------------------------
\* Every fetch of the page ends, if only by its timeout.
FetchEnds(s) ==
    \/ MintReturns(s) \/ MintFails(s)
    \/ SubmitAcked(s) \/ SubmitFails(s)
    \/ HeadArrives(s) \/ ProofArrives(s) \/ TryFails(s) \/ LookThrows(s)

Log(s) == LogTakes(s) \/ LogMisses(s) \/ LogSequences(s)

Next ==
    \/ \E s \in Stamp : Begin(s) \/ RelaySeals(s) \/ FetchEnds(s) \/ Check(s)
    \/ \E s \in Stamp : Log(s)
    \/ CloseTab
    \/ LogPublishes
    \/ Tick

Spec == Init /\ [][Next]_vars

FairSpec == Spec /\ \A s \in Stamp : WF_vars(FetchEnds(s))

-----------------------------------------------------------------------------
(* What the client guarantees.                                             *)

\* The artifact of an add-leaf is still good Margin after it was sent, however
\* long the mint took, however old the cached one was, and although a stamp
\* whose own mint failed takes another's artifact unseen: a submission the relay
\* looks at within that time is not turned tokenless by an expiry.
SessionOutlivesTheTrip ==
    \A s \in Stamp :
       pc[s] = "sent" /\ carried[s] # None => carried[s] >= since[s] + Margin

\* A complete binding holds together and holds against the log, although the
\* tree head and the proof were fetched one after the other while the log grew:
\* the proof is for the tree whose root the binding carries, and that tree has
\* the leaf at the index it names.
ProofsMatchTheLog ==
    \A s \in Stamp :
       binding[s] # None /\ binding[s].type = "proof" =>
          /\ binding[s].root = binding[s].size
          /\ binding[s].index < binding[s].size
          /\ binding[s].size <= Len(log)
          /\ log[binding[s].index + 1] = s

\* Nobody holds a binding, pending or complete, of a leaf the log did not take.
NoReceiptWithoutLeaf == \A s \in Stamp : binding[s] # None => s \in Accepted

\* What the client hands out holds against the log, whatever is lost, late or
\* fetched apart: a receipt is of a leaf the log took, and a proof places it
\* (sigsum.mjs 194-284).
ReceiptsHold == NoReceiptWithoutLeaf /\ ProofsMatchTheLog

\* A stamp and a check come to an end whatever the log and the network do, and
\* with no more to rely on than that a fetch ends: FairSpec obliges neither of
\* them to answer ("the tab never blocks on a witness round", sigsum.mjs:213;
\* the attempts of the look, 254-276).
EveryCallReturns == \A s \in Stamp : Running(s) ~> ~Running(s)

\* Under what circumstances a pending binding can be expected to become a proof:
\* its holder keeps checking, the log keeps merging and publishing, and the
\* network does not fail every single time.
Patience ==
    /\ WF_vars(LogPublishes)
    /\ \A s \in Stamp :
          /\ WF_vars(LogSequences(s))
          /\ WF_vars(Check(s))
          /\ SF_vars(HeadArrives(s))
          /\ SF_vars(ProofArrives(s))

\* Then it does (upgradeSigsumBinding, sigsum.mjs 237-249). The code grants none
\* of Patience, so it is a premise here and no part of a specification.
PendingCompletes ==
    Patience =>
       \A s \in Stamp : (binding[s] = Pending) ~> (binding[s] # Pending)

\* "The stamp returns immediately with everything needed to upgrade later", so
\* that nothing can "orphan a submitted leaf whose proof was never collected"
\* (sigsum.mjs:212, 215): a stamp whose submission was acknowledged does not
\* fail.
AckedIsNeverOrphaned == \A s \in Stamp : acked[s] => pc[s] # "failed"

\* To its user the client is LeafReceipt.
Receipt == INSTANCE LeafReceipt WITH
    submitted <- {s \in Stamp : pc[s] \notin {"idle", "mint", "closed"}},
    receipt   <- binding

ImplementsReceipt == Receipt!Spec

-----------------------------------------------------------------------------
(* The inductive invariant behind the safety properties.                   *)

\* The page never believes an artifact to live longer than the relay does, be
\* it the one it holds or the one on its way; and one that was cached while a
\* mint is out was itself asked for not long before that mint.
SessionsSound ==
    /\ session # None => session.expiresAt <= session.value
    /\ \A s \in Stamp :
          /\ pc[s] = "idle" => offered[s] = None
          /\ pc[s] = "mint" =>
                /\ since[s] <= now
                /\ now <= since[s] + MintTimeout
                /\ offered[s] # None => offered[s] >= since[s] + TTL
                /\ session # None =>
                      session.expiresAt + MintTimeout >= since[s] + TTL

\* A leaf is in one place, and nowhere before its stamp has submitted it.
LeafOnce ==
    /\ \A s \in flight : s \notin Accepted
    /\ \A s \in taken : s \notin Logged
    /\ \A i, j \in 1..Len(log) : log[i] = log[j] => i = j
    /\ \A s \in flight \cup Accepted : pc[s] \notin {"idle", "mint", "closed"}

\* A look is on behalf of a stamp or of a pending binding, for a tree that was.
LooksGrounded ==
    /\ head <= Len(log)
    /\ \A s \in Stamp :
          /\ pc[s] = "look" => s \in Accepted
          /\ binding[s] # None <=> pc[s] = "done"
          /\ look[s].at # "off" =>
                pc[s] = "look" \/ binding[s] = Pending
          /\ look[s].at = "proof" => look[s].size <= Len(log)

\* All of it, inductive together.
ReceiptInv ==
    /\ TypeOK
    /\ SessionsSound
    /\ SessionOutlivesTheTrip
    /\ LeafOnce
    /\ LooksGrounded
    /\ NoReceiptWithoutLeaf
    /\ ProofsMatchTheLog
=============================================================================
