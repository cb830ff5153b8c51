----------------------------- MODULE LeafReceipt -----------------------------
(***************************************************************************)
(* What a user may expect of stamping with the transparency log, with none *)
(* of the fetches, retries and surfaces the page needs to get there:       *)
(*                                                                         *)
(*   - a leaf is submitted once, so the log holds it at most once ("a      *)
(*     re-stamp would [...] write a duplicate leaf into a permanent public *)
(*     log", sigsum.mjs);                                                  *)
(*   - its receipt is nothing, then pending, then a proof, and never goes  *)
(*     back;                                                               *)
(*   - a proof places the leaf in the very tree whose root it carries.     *)
(*                                                                         *)
(* SigsumReceipt implements this specification.                            *)
(***************************************************************************)
EXTENDS Naturals, Sequences

CONSTANTS
    Stamp,      \* the stamp calls: each makes a key, hence a leaf, of its own
    None        \* no receipt

VARIABLES
    submitted,  \* the leaves sent to the log
    log,        \* the leaves of the log's tree, oldest first
    receipt     \* what the user holds for each leaf

vars == <<submitted, log, receipt>>

Pending == [type |-> "pending"]
Proof(root, size, index) ==
    [type |-> "proof", root |-> root, size |-> size, index |-> index]

Logged == {log[i] : i \in 1..Len(log)}

Init ==
    /\ submitted = {}
    /\ log = <<>>
    /\ receipt = [s \in Stamp |-> None]

Submit(s) ==
    /\ s \notin submitted
    /\ submitted' = submitted \cup {s}
    /\ UNCHANGED <<log, receipt>>

Sequence(s) ==
    /\ s \in submitted
    /\ s \notin Logged
    /\ log' = Append(log, s)
    /\ UNCHANGED <<submitted, receipt>>

Pend(s) ==
    /\ s \in submitted
    /\ receipt[s] = None
    /\ receipt' = [receipt EXCEPT ![s] = Pending]
    /\ UNCHANGED <<submitted, log>>

\* A tree is given by its size: the log only ever appends.
Prove(s) ==
    /\ receipt[s] \in {None, Pending}
    /\ \E size \in 1..Len(log) : \E index \in 0..(size - 1) :
          /\ log[index + 1] = s
          /\ receipt' = [receipt EXCEPT ![s] = Proof(size, size, index)]
    /\ UNCHANGED <<submitted, log>>

Next == \E s \in Stamp : Submit(s) \/ Sequence(s) \/ Pend(s) \/ Prove(s)

Spec == Init /\ [][Next]_vars
=============================================================================
