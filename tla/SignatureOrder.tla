---------------------------- MODULE SignatureOrder ----------------------------
(***************************************************************************)
(* What the parties to a signing may expect of the three pages, with none  *)
(* of the files, prompts, buttons and timestamps these need to get there:  *)
(*                                                                         *)
(*   - a link that is opened was sent, or is the one the request page      *)
(*     shows;                                                              *)
(*   - under a link one signature is given, once, of the document and the  *)
(*     envelope that the link asks for, as far as it asks for one;         *)
(*   - a second signature is given once, under a first that is good and    *)
(*     says to be of the document at hand ("if hash matched and signature  *)
(*     verified", sign-verify.js), and its event names both;               *)
(*   - other files at hand call for another verification.                  *)
(*                                                                         *)
(* SignCeremony implements this specification.                             *)
(***************************************************************************)
EXTENDS Naturals

CONSTANTS
    Doc,        \* documents
    None,       \* no document, envelope, signature or event
    Sent,       \* links that were there before
    Received    \* signatures that were there before

VARIABLES
    asked,      \* the link that the request page shows
    link,       \* the link that the signer has opened
    signature,  \* what the signer has given under it
    given,      \* every signature that can be at hand
    doc,        \* the document at hand
    verified,   \* the signature that passed the checks for it
    counter     \* the second signature under that one

vars == <<asked, link, signature, given, doc, verified, counter>>

Envelope == [id : Nat, doc : Doc]
Link == [h : Doc \cup {None}, e : Nat \cup {None}]
NoLink == [h |-> None, e |-> None]

SignedEvent(env, key) == [type |-> "signed", env |-> env, key |-> key]
CompletedEvent(env, signer, key) ==
    [type |-> "completed", env |-> env, signer |-> signer, key |-> key]

\* A signature is good when its assertion is its key's, over its message;
\* whether this is of the same document nobody looks.
\* SigOf is one that is, whether its event was anchored or not.
SigOf(env, key, anchor) ==
    [env |-> env, key |-> key, anchor |-> anchor, good |-> TRUE]

Init ==
    /\ asked = None
    /\ link \in Sent \cup {NoLink}
    /\ signature = None
    /\ given = Received
    /\ doc = None
    /\ verified = None
    /\ counter = None

Ask ==
    /\ asked' \in Link
    /\ UNCHANGED <<link, signature, given, doc, verified, counter>>

Follow ==
    /\ link' \in Sent \cup {NoLink} \cup ({asked} \ {None})
    /\ signature' = None
    /\ UNCHANGED <<asked, given, doc, verified, counter>>

\* What the link leaves open is for the signer to choose.
MaySign(env) ==
    /\ env \in Envelope
    /\ link.h # None => env.doc = link.h
    /\ link.e # None => env.id = link.e

Sign ==
    /\ signature = None
    /\ signature' # None
    /\ LET env == signature'.env
           key == signature'.key
       IN /\ MaySign(env)
          /\ key \in Nat
          /\ \E anchor \in {None, SignedEvent(env, key)} :
                signature' = SigOf(env, key, anchor)
    /\ given' = given \cup {signature'}
    /\ UNCHANGED <<asked, link, doc, verified, counter>>

Load ==
    /\ doc' \in Doc
    /\ verified' = None
    /\ counter' = None
    /\ UNCHANGED <<asked, link, signature, given>>

Verify(sig) ==
    /\ verified = None
    /\ sig.env.doc = doc
    /\ sig.good
    /\ verified' = sig
    /\ UNCHANGED <<asked, link, signature, given, doc, counter>>

Countersign ==
    /\ verified # None
    /\ counter = None
    /\ counter' # None
    /\ LET env == verified.env
           key == counter'.key
       IN /\ key \in Nat
          /\ \E anchor \in {None, CompletedEvent(env, verified.key, key)} :
                counter' = SigOf(env, key, anchor)
    /\ UNCHANGED <<asked, link, signature, given, doc, verified>>

Next ==
    \/ Ask
    \/ Follow
    \/ Sign
    \/ Load
    \/ \E sig \in given : Verify(sig)
    \/ Countersign

Spec == Init /\ [][Next]_vars
=============================================================================
