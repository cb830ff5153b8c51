--------------------------- MODULE SubmissionGate ---------------------------
(***************************************************************************)
(* What the Sigsum relay of the Worker promises about one add-leaf call,   *)
(* with none of its caches, awaits or counters.                            *)
(*                                                                         *)
(*   - an accepted submission is forwarded to the log before it is         *)
(*     answered: nothing the relay knows or predicts makes it refuse one   *)
(*     ("a real submission into the log's shared pool, never a rejection", *)
(*     worker.mjs, handleSigsumRelay);                                     *)
(*   - the domain-bound token rides only on a submission that was vouched  *)
(*     for: at one instant between its acceptance and its forwarding, the  *)
(*     artifact it carries was genuine, unexpired and its own caller's.    *)
(*                                                                         *)
(* SigsumRelay implements this specification.                              *)
(***************************************************************************)
EXTENDS Naturals

CONSTANTS
    Request,    \* the calls made to the relay
    Caller,     \* the addresses they come from
    Secret,     \* token secrets an operator may deploy
    None,       \* no caller, no secret
    TTL         \* lifetime of a session artifact

VARIABLES
    now,        \* the time the artifacts are measured against
    sealed,     \* every session artifact issued so far
    phase,      \* what has become of each call
    caller,     \* who made it (None until it arrives)
    art,        \* the artifact it carries
    token       \* the secret whose token it was forwarded with, or None

vars == <<now, sealed, phase, caller, art, token>>

Phase == {"new", "arrived", "refused", "accepted", "vouched", "forwarded",
          "answered", "lost"}

Artifact == [form : {"sealed", "absent", "malformed", "forged"},
             key  : Secret \cup {None},
             tag  : Caller \cup {None},
             exp  : Nat]

Bare(form) == [form |-> form, key |-> None, tag |-> None, exp |-> 0]

\* What a call can carry in its X-Anchor-Session header: an artifact that was
\* issued, to it or to somebody else, or something that is none.
Presentable == sealed \cup {Bare(f) : f \in {"absent", "malformed", "forged"}}

TypeOK ==
    /\ now \in Nat
    /\ sealed \subseteq Artifact
    /\ phase \in [Request -> Phase]
    /\ caller \in [Request -> Caller \cup {None}]
    /\ art \in [Request -> Artifact]
    /\ token \in [Request -> Secret \cup {None}]

Init ==
    /\ now \in Nat
    /\ sealed = {}
    /\ phase = [r \in Request |-> "new"]
    /\ caller = [r \in Request |-> None]
    /\ art = [r \in Request |-> Bare("absent")]
    /\ token = [r \in Request |-> None]

Tick ==
    /\ now' = now + 1
    /\ UNCHANGED <<sealed, phase, caller, art, token>>

\* An artifact is issued to caller c, good for TTL from now.
Seal(c, s) ==
    /\ sealed' = sealed \cup
         {[form |-> "sealed", key |-> s, tag |-> c, exp |-> now + TTL]}
    /\ UNCHANGED <<now, phase, caller, art, token>>

\* A call may be turned away at the door (rate limit) or for its body.
Arrive(r, c, a) ==
    /\ phase[r] = "new"
    /\ \E p \in {"arrived", "refused"} : phase' = [phase EXCEPT ![r] = p]
    /\ caller' = [caller EXCEPT ![r] = c]
    /\ art' = [art EXCEPT ![r] = a]
    /\ UNCHANGED <<now, sealed, token>>

Refuse(r) ==
    /\ phase[r] = "arrived"
    /\ phase' = [phase EXCEPT ![r] = "refused"]
    /\ UNCHANGED <<now, sealed, caller, art, token>>

Accept(r) ==
    /\ phase[r] = "arrived"
    /\ phase' = [phase EXCEPT ![r] = "accepted"]
    /\ UNCHANGED <<now, sealed, caller, art, token>>

Vouch(r) ==
    /\ phase[r] = "accepted"
    /\ art[r] \in sealed
    /\ art[r].tag = caller[r]
    /\ now <= art[r].exp
    /\ phase' = [phase EXCEPT ![r] = "vouched"]
    /\ UNCHANGED <<now, sealed, caller, art, token>>

ForwardTokenless(r) ==
    /\ phase[r] = "accepted"
    /\ phase' = [phase EXCEPT ![r] = "forwarded"]
    /\ UNCHANGED <<now, sealed, caller, art, token>>

\* The token is minted from the secret the artifact was sealed under.
ForwardWithToken(r) ==
    /\ phase[r] = "vouched"
    /\ phase' = [phase EXCEPT ![r] = "forwarded"]
    /\ token' = [token EXCEPT ![r] = art[r].key]
    /\ UNCHANGED <<now, sealed, caller, art>>

Answer(r) ==
    /\ phase[r] = "forwarded"
    /\ phase' = [phase EXCEPT ![r] = "answered"]
    /\ UNCHANGED <<now, sealed, caller, art, token>>

\* The isolates that were serving the calls in R are gone.
Lose(R) ==
    /\ \A r \in R : phase[r] \in {"arrived", "accepted", "vouched", "forwarded"}
    /\ phase' = [r \in Request |-> IF r \in R THEN "lost" ELSE phase[r]]
    /\ UNCHANGED <<now, sealed, caller, art, token>>

Next ==
    \/ Tick
    \/ \E c \in Caller, s \in Secret : Seal(c, s)
    \/ \E r \in Request :
          \/ \E c \in Caller, a \in Presentable : Arrive(r, c, a)
          \/ Refuse(r)
          \/ Accept(r)
          \/ Vouch(r)
          \/ ForwardTokenless(r)
          \/ ForwardWithToken(r)
          \/ Answer(r)
    \/ \E R \in SUBSET Request : Lose(R)

Spec == Init /\ [][Next]_vars
=============================================================================
