------------------------------- MODULE Library -------------------------------
(***************************************************************************)
(* The artifact library: records in IndexedDB (public/lib/                 *)
(* library-bridge.mjs), the library pages that list, pin, re-verify and    *)
(* delete them (public/js/artifacts.js), and the anchor and verify pages,  *)
(* which only save.                                                        *)
(*                                                                         *)
(* A save or an update reads the stored record, waits, and writes it back  *)
(* whole; nothing holds the record meanwhile. Each library page lists the  *)
(* records as it last read them, and reads again when a change is          *)
(* broadcast, its own changes included: the broadcast goes out on a        *)
(* channel of its own. An operation is what one handler still has to do;   *)
(* an action takes it from one await to the next.                          *)
(*                                                                         *)
(* Of what a record holds the model keeps one Sigsum binding: the leaf it  *)
(* is for, and whether its proof has been collected. Dates, tags, the      *)
(* filter and the drawing are left out; a filter only decides which pinned *)
(* records are neighbours, so any two may be.                              *)
(***************************************************************************)
EXTENDS Naturals, Sequences, FiniteSets

CONSTANTS
    Tab,            \* open library pages
    Key,            \* storage keys
    Leaf,           \* stamps: leaves of the Sigsum log
    HashOf,         \* the hash each stamps, by the key it is stored under
    None,
    Visits,         \* libraries as earlier visits may have left them
    Ops,            \* bound on the operations in progress at once
    Patience        \* bound on what users do in a trace

ASSUME LibraryAssumption ==
    /\ HashOf \in [Leaf -> Key]
    /\ IsFiniteSet(Key)
    /\ Ops \in Nat
    /\ Patience \in Nat
    /\ None \notin Key \cup Tab \cup Nat \cup BOOLEAN
    /\ None \notin [leaf : Leaf, proof : BOOLEAN]

VARIABLES
    store,          \* the object store: key -> record
    list,           \* allRecords of each page
    selected,       \* selectedKey
    verdict,        \* detailVerifyResults: of which record
    stale,          \* pages with a refresh() under way
    op,             \* the operations
    acts,           \* what users have done so far
    ideal,          \* history: the store, had every write been one step
    raced,          \* history: keys two operations have gone by at once, or
                    \* one by less than the record there was
    hasty,          \* history: an act did not wait for those before it
    failed,         \* history: the database has refused something, as it does
                    \* at most once in a trace
    strayed         \* history: pages left for another record mid-verification

pages == <<list, selected, verdict, stale>>
history == <<ideal, raced, hasty, failed, strayed>>
vars == <<store, pages, op, acts, history>>

-----------------------------------------------------------------------------
Content == [leaf : Leaf, proof : BOOLEAN]
Record == [parsed : Content, rawText : Content, pinned : BOOLEAN,
           pinnedIndex : Nat]
Stored == Record \cup {None}

ASSUME NoneAssumption == None \notin Record

\* What an earlier visit leaves: whole records, the pinned in their places.
ASSUME VisitsAssumption == \A visit \in Visits :
    /\ visit \in [Key -> Stored]
    /\ \A k \in Key : visit[k] # None => visit[k].rawText = visit[k].parsed
    /\ \A j, k \in Key :
           /\ j # k /\ None \notin {visit[j], visit[k]}
           /\ visit[j].pinned /\ visit[k].pinned
           => visit[j].pinnedIndex # visit[k].pinnedIndex

\* What a write changes of a record: its content, its pin, its place.
Update == [content : Content \cup {None}, pinned : BOOLEAN \cup {None},
           pinnedIndex : Nat \cup {None}]
Write == [key : Key, update : Update]

Rest == [at |-> "rest"]
Operation == {Rest} \cup
    [at : {"get", "set", "show", "log", "verify", "del"},
     kind : {"save", "import", "update", "reverify", "delete"},
     tab : Tab \cup {None}, todo : Seq(Write) \ {<<>>}, read : Stored]

TypeOK ==
    /\ store \in [Key -> Stored]
    /\ list \in [Tab -> [Key -> Stored]]
    /\ selected \in [Tab -> Key \cup {None}]
    /\ verdict \in [Tab -> Key \cup {None}]
    /\ stale \subseteq Tab
    /\ op \in [1..Ops -> Operation]
    /\ acts \in Nat
    /\ ideal \in [Key -> Stored]
    /\ raced \subseteq Key
    /\ hasty \in BOOLEAN /\ failed \in BOOLEAN
    /\ strayed \subseteq Tab

Empty == [k \in Key |-> None]

\* The pages are open, each on a record or on none.
Init ==
    /\ store \in Visits
    /\ list = [t \in Tab |-> store]
    /\ selected \in [Tab -> {None} \cup {k \in Key : store[k] # None}]
    /\ verdict = [t \in Tab |-> None]
    /\ stale = {}
    /\ op = [o \in 1..Ops |-> Rest]
    /\ acts = 0
    /\ ideal = store
    /\ raced = {} /\ hasty = FALSE /\ failed = FALSE /\ strayed = {}

AtRest == stale = {} /\ \A o \in 1..Ops : op[o] = Rest

\* The operations that go by what they know of a record.
Holding(k) == {o \in 1..Ops :
    /\ op[o] # Rest /\ op[o].todo[1].key = k
    /\ \/ op[o].at \in {"set", "log"}
       \/ op[o].at = "get" /\ op[o].kind = "reverify"}

\* A page is in the middle of a re-verification.
Verifying(t) == \E o \in 1..Ops :
    op[o] # Rest /\ op[o].kind = "reverify" /\ op[o].tab = t

\* The next operation takes the first place that is free.
Begin(kind, at, t, todo, read) == \E o \in 1..Ops :
    /\ op[o] = Rest /\ \A i \in 1..(o - 1) : op[i] # Rest
    /\ op' = [op EXCEPT ![o] = [at |-> at, kind |-> kind, tab |-> t,
                                todo |-> todo, read |-> read]]
End(o) == op' = [op EXCEPT ![o] = Rest]

-----------------------------------------------------------------------------
\* A slip is a plausible mistake in the definition that follows it; no action
\* uses one. Each is there to be put in that definition's place, and a property
\* must then fail.

(* library-bridge.mjs                                                      *)

\* storageKey: by the hash the artifact carries or its bindings are of.
storageKey(c) == HashOf[c.leaf]

Or(new, old) == IF new = None THEN old ELSE new

\* Slip: new content replaces the parsed artifact only.
MergeParsed(r, u) ==
    [parsed |-> Or(u.content, r.parsed), rawText |-> r.rawText,
     pinned |-> Or(u.pinned, r.pinned),
     pinnedIndex |-> Or(u.pinnedIndex, r.pinnedIndex)]

\* updateRecord: { ...existing, ...updates }.
Merge(r, u) ==
    [parsed |-> Or(u.content, r.parsed), rawText |-> Or(u.content, r.rawText),
     pinned |-> Or(u.pinned, r.pinned),
     pinnedIndex |-> Or(u.pinnedIndex, r.pinnedIndex)]

\* Slip: a saved record starts out unpinned.
SavedAfresh(r, c) ==
    [parsed |-> c, rawText |-> c, pinned |-> FALSE, pinnedIndex |-> 0]

\* Slip: a new record has no pin rather than none set.
SavedBare(r, c) ==
    [parsed |-> c, rawText |-> c,
     pinned |-> IF r = None THEN None ELSE r.pinned,
     pinnedIndex |-> IF r = None THEN 0 ELSE r.pinnedIndex]

\* saveToLibrary: new content, under the pin the record had.
Saved(r, c) ==
    [parsed |-> c, rawText |-> c,
     pinned |-> IF r = None THEN FALSE ELSE r.pinned,
     pinnedIndex |-> IF r = None THEN 0 ELSE r.pinnedIndex]

\* What an operation makes of the record it has read; an update makes nothing
\* of none.
Written(kind, r, u) ==
    IF kind \in {"save", "import"} THEN Saved(r, u.content)
    ELSE IF r = None THEN None ELSE Merge(r, u)

\* What a reader of the bridge expects of one: content is replaced whole, a
\* pin and a place stay until they are changed, and only a save creates.
Ideally(kind, r, u) ==
    IF r = None /\ kind \notin {"save", "import"} THEN None
    ELSE LET old == IF r = None THEN [pinned |-> FALSE, pinnedIndex |-> 0]
                    ELSE r
             c == IF u.content = None THEN r.parsed ELSE u.content
         IN [parsed |-> c, rawText |-> c,
             pinned |-> IF u.pinned = None THEN old.pinned ELSE u.pinned,
             pinnedIndex |-> IF u.pinnedIndex = None THEN old.pinnedIndex
                             ELSE u.pinnedIndex]

\* lib.get: the record is read; another operation may go by it too.
Get(o) ==
    /\ op[o] # Rest /\ op[o].at = "get"
    /\ LET k == op[o].todo[1].key IN
       /\ op' = [op EXCEPT ![o].at = "set", ![o].read = store[k]]
       /\ raced' = IF Holding(k) \subseteq {o} THEN raced ELSE raced \cup {k}
    /\ UNCHANGED <<store, pages, acts, ideal, hasty, failed,
                   strayed>>

\* It fails, which is taken for no record at all.
GetFails(o) ==
    /\ op[o] # Rest /\ op[o].at = "get"
    /\ op' = [op EXCEPT ![o].at = "set", ![o].read = None]
    /\ raced' = raced \cup {op[o].todo[1].key}
    /\ ~failed /\ failed' = TRUE
    /\ UNCHANGED <<store, pages, acts, ideal, hasty, strayed>>

\* What an operation does once it has written: its next write; the verifiers;
\* the record it has imported, on its page; or nothing.
Continue(o) ==
    LET w == op[o] IN
    IF Len(w.todo) > 1
    THEN op' = [op EXCEPT ![o].at = "get", ![o].todo = Tail(w.todo)]
    ELSE IF w.kind \in {"reverify", "import"}
    THEN op' = [op EXCEPT ![o].at = IF w.kind = "import" THEN "show"
                                    ELSE "verify"]
    ELSE End(o)

\* Slip: a page hears only of its own changes.
BroadcastToSelf(o) == stale \cup ({op[o].tab} \ {None})

\* broadcast: every library page refreshes, the one at work too.
Broadcast(o) == Tab

\* lib.set, and what follows. An update of a record that is gone writes nothing
\* and tells nobody; the page refreshes all the same.
Set(o) ==
    /\ op[o] # Rest /\ op[o].at = "set"
    /\ LET w == op[o]
           k == w.todo[1].key
           u == w.todo[1].update
           new == Written(w.kind, w.read, u)
       IN
       /\ store' = IF new = None THEN store ELSE [store EXCEPT ![k] = new]
       /\ ideal' = [ideal EXCEPT ![k] = Ideally(w.kind, @, u)]
       /\ stale' = IF new # None THEN Broadcast(o)
                   ELSE IF w.kind = "update" THEN stale \cup {w.tab}
                   ELSE stale
    /\ Continue(o)
    /\ UNCHANGED <<list, selected, verdict, acts, raced, hasty,
                   failed, strayed>>

\* It fails: no space. The handler ends, whatever it had left to do.
SetFails(o) ==
    /\ op[o] # Rest /\ op[o].at = "set"
    /\ Written(op[o].kind, op[o].read, op[o].todo[1].update) # None
    /\ End(o)
    /\ ~failed /\ failed' = TRUE
    /\ UNCHANGED <<store, pages, acts, ideal, raced, hasty, strayed>>

\* deleteRecord: one step, which no operation that holds the record notices.
\* When it fails, the pages are told all the same.
DelFails(o) ==
    /\ op[o] # Rest /\ op[o].at = "del"
    /\ stale' = Broadcast(o)
    /\ ~failed /\ failed' = TRUE
    /\ End(o)
    /\ UNCHANGED <<store, list, selected, verdict, acts, ideal,
                   raced, hasty, strayed>>

Del(o) ==
    /\ op[o] # Rest /\ op[o].at = "del"
    /\ LET k == op[o].todo[1].key IN
       /\ store' = [store EXCEPT ![k] = None]
       /\ ideal' = [ideal EXCEPT ![k] = None]
       /\ raced' = IF Holding(k) = {} THEN raced \ {k} ELSE raced \cup {k}
    /\ stale' = Broadcast(o)
    /\ End(o)
    /\ UNCHANGED <<list, selected, verdict, acts, hasty, failed,
                   strayed>>

-----------------------------------------------------------------------------
(* artifacts.js                                                            *)

\* Slip: what was verified stays.
TurnKeeps(t, k) ==
    /\ selected' = [selected EXCEPT ![t] = k]
    /\ verdict' = verdict
    /\ strayed' = IF Verifying(t) THEN strayed \cup {t} ELSE strayed \ {t}

\* A page turns to a record, or to none: what was verified goes, and a page
\* that was verifying has strayed from it.
Turn(t, k) ==
    /\ selected' = [selected EXCEPT ![t] = k]
    /\ verdict' = [verdict EXCEPT ![t] = None]
    /\ strayed' = IF Verifying(t) THEN strayed \cup {t} ELSE strayed \ {t}

\* loadLibrary, render: a selected record that is gone is hidden, one being
\* re-verified is another object from now on.
Listed(t, records) ==
    /\ list' = [list EXCEPT ![t] = records]
    /\ stale' = stale \ {t}

Detached(t) == [o \in 1..Ops |->
    IF op[o] # Rest /\ op[o].at = "log" /\ op[o].tab = t
    THEN [op[o] EXCEPT !.read = None] ELSE op[o]]

Refresh(t) ==
    /\ t \in stale
    /\ Listed(t, store)
    /\ op' = Detached(t)
    /\ IF selected[t] # None /\ store[selected[t]] = None THEN Turn(t, None)
       ELSE UNCHANGED <<selected, verdict, strayed>>
    /\ UNCHANGED <<store, acts, ideal, raced, hasty, failed>>

\* The records cannot be read: the page lists none.
RefreshFails(t) ==
    /\ t \in stale
    /\ Listed(t, Empty)
    /\ op' = Detached(t)
    /\ Turn(t, None)
    /\ ~failed /\ failed' = TRUE
    /\ UNCHANGED <<store, acts, ideal, raced, hasty>>

\* The end of doImportText: the page refreshes and selects what it has saved.
Show(o) ==
    /\ op[o] # Rest /\ op[o].at = "show"
    /\ Listed(op[o].tab, store)
    /\ op' = [Detached(op[o].tab) EXCEPT ![o] = Rest]
    /\ Turn(op[o].tab, op[o].todo[1].key)
    /\ UNCHANGED <<store, acts, ideal, raced, hasty, failed>>

\* An act of a user; it counts as hasty when others are still going on.
Act ==
    /\ acts < Patience
    /\ acts' = acts + 1
    /\ hasty' = (hasty \/ ~AtRest)

Nothing == [content |-> None, pinned |-> None, pinnedIndex |-> None]
WriteOf(k, u) == [key |-> k, update |-> u]

\* The anchor page or the verify page saves, or a library page imports, any
\* artifact, with a proof it has got elsewhere or without: an old file may be
\* saved again.
Save(t, c) ==
    /\ Act
    /\ Begin(IF t = None THEN "save" ELSE "import", "get", t,
             <<WriteOf(storageKey(c), [Nothing EXCEPT !.content = c])>>, None)
    /\ UNCHANGED <<store, pages, ideal, raced, failed, strayed>>

\* toggleDetail.
Toggle(t, k) ==
    /\ Act
    /\ list[t][k] # None
    /\ Turn(t, IF selected[t] = k THEN None ELSE k)
    /\ UNCHANGED <<store, list, stale, op, ideal, raced, failed>>

\* The Delete button of the record on show.
Delete(t) ==
    /\ Act
    /\ selected[t] # None
    /\ Turn(t, None)
    /\ Begin("delete", "del", t, <<WriteOf(selected[t], Nothing)>>, None)
    /\ UNCHANGED <<store, list, stale, ideal, raced, failed>>

Pinned(t) == {k \in Key : list[t][k] # None /\ list[t][k].pinned}

\* Slip: a record is pinned at the place of the last one.
PlaceSame(t) ==
    LET taken == {0} \cup {list[t][k].pinnedIndex : k \in Pinned(t)}
    IN CHOOSE n \in taken : \A m \in taken : m <= n

\* The place after all those pinned on the page.
Place(t) ==
    LET taken == {0} \cup {list[t][k].pinnedIndex : k \in Pinned(t)}
    IN 1 + CHOOSE n \in taken : \A m \in taken : m <= n

\* doPin, by the record as it is listed.
Pin(t, k) ==
    /\ Act
    /\ list[t][k] # None
    /\ LET on == ~list[t][k].pinned IN
       Begin("update", "get", t,
             <<WriteOf(k, [content |-> None, pinned |-> on,
                           pinnedIndex |-> IF on THEN Place(t) ELSE 0])>>,
             None)
    /\ UNCHANGED <<store, pages, ideal, raced, failed, strayed>>

\* doMove: two neighbours change places, one write after the other.
Move(t, a, b) ==
    /\ Act
    /\ a # b /\ {a, b} \subseteq Pinned(t)
    /\ LET at(k) == [Nothing EXCEPT !.pinnedIndex = list[t][k].pinnedIndex]
       IN Begin("update", "get", t, <<WriteOf(a, at(b)), WriteOf(b, at(a))>>,
                None)
    /\ UNCHANGED <<store, pages, ideal, raced, failed, strayed>>

\* The Re-verify button; every drawing of the page brings an enabled one. The
\* record is the one listed, which may be behind the store.
ReVerify(t) ==
    /\ Act
    /\ LET k == selected[t] IN
       /\ k # None /\ list[t][k] # None
       /\ Begin("reverify", "log", t,
                <<WriteOf(k, [Nothing EXCEPT !.content = list[t][k].parsed])>>,
                list[t][k])
       /\ raced' = IF /\ Holding(k) = {} /\ store[k] # None
                      /\ list[t][k].parsed = store[k].parsed
                   THEN raced ELSE raced \cup {k}
    /\ UNCHANGED <<store, pages, ideal, failed, strayed>>

\* upgradePendingSigsumBindings: the log gives the proof; the record listed has
\* it at once, the stored one after an update.
ProofCollected(o) ==
    /\ op[o] # Rest /\ op[o].at = "log"
    /\ LET w == op[o]
           k == w.todo[1].key
           c == w.todo[1].update.content
           done == [c EXCEPT !.proof = TRUE]
       IN
       /\ ~c.proof
       /\ op' = [op EXCEPT ![o].at = "get", ![o].read = None,
                           ![o].todo[1].update.content = done]
       /\ list' = IF w.read = None THEN list
                  ELSE [list EXCEPT ![w.tab][k].parsed = done]
    /\ UNCHANGED <<store, selected, verdict, stale, acts, history>>

\* Nothing is pending, or nothing comes of it; the verifiers run.
NoProof(o) ==
    /\ op[o] # Rest /\ op[o].at = "log"
    /\ op' = [op EXCEPT ![o].at = "verify", ![o].read = None]
    /\ UNCHANGED <<store, pages, acts, history>>

\* doReVerify: the verdict is the page's, whatever record it is on by now.
Verified(o) ==
    /\ op[o] # Rest /\ op[o].at = "verify"
    /\ verdict' = [verdict EXCEPT ![op[o].tab] = op[o].todo[1].key]
    /\ End(o)
    /\ UNCHANGED <<store, list, selected, stale, acts, history>>

VerifyFails(o) ==
    /\ op[o] # Rest /\ op[o].at = "verify"
    /\ End(o)
    /\ UNCHANGED <<store, pages, acts, history>>

-----------------------------------------------------------------------------
Step(o) == \/ Get(o) \/ GetFails(o) \/ Set(o) \/ SetFails(o)
           \/ Del(o) \/ DelFails(o) \/ Show(o)
           \/ ProofCollected(o) \/ NoProof(o) \/ Verified(o) \/ VerifyFails(o)

Reload(t) == Refresh(t) \/ RefreshFails(t)

Next ==
    \/ \E o \in 1..Ops : Step(o)
    \/ \E t \in Tab : Reload(t)
    \/ \E t \in Tab \cup {None}, c \in Content : Save(t, c)
    \/ \E t \in Tab, k \in Key : Toggle(t, k) \/ Pin(t, k)
    \/ \E t \in Tab : Delete(t) \/ ReVerify(t)
    \/ \E t \in Tab, a, b \in Key : Move(t, a, b)

Spec == Init /\ [][Next]_vars

\* Every await comes back, and a broadcast reaches every page.
Fairness == /\ \A o \in 1..Ops : WF_vars(Step(o))
            /\ \A t \in Tab : WF_vars(Reload(t))

FairSpec == Spec /\ Fairness

-----------------------------------------------------------------------------
\* The file a record exports is the artifact its badges and its list item are
\* drawn from, whichever saves, pins, and collected proofs have overlapped
\* (library-bridge.mjs 60-108, artifacts.js 429-434, 492-493).
RawTextIsParsed ==
    \A k \in Key : store[k] # None => store[k].rawText = store[k].parsed

\* As long as no two operations went by the same record at once, the library is
\* a map of whole records: new content replaces all of the old, a pin and a
\* place survive it, nothing deleted comes back (library-bridge.mjs 60-116).
ActsLikeAMap == \A k \in Key \ raced : store[k] = ideal[k]

\* The badges on show are of the record on show, unless the page turned to
\* another while it was verifying (artifacts.js 207-229, 463, 547-548).
BadgesAreOfTheSelected ==
    \A t \in Tab \ strayed : verdict[t] \in {None, selected[t]}

\* Users who wait for a page to finish, and a database that writes, give every
\* pinned record a place of its own, so that Up and Down can always move it
\* (artifacts.js 472-488).
PinOrder ==
    AtRest /\ ~hasty /\ ~failed =>
        \A a, b \in {k \in Key : store[k] # None /\ store[k].pinned} :
            a # b => store[a].pinnedIndex # store[b].pinnedIndex

\* Once nobody does anything more, every page lists what is stored, unless the
\* database has refused something (artifacts.js 68-76, library-bridge.mjs
\* 56-58, 119-127).
ListsBecomeCurrent == <>[](failed \/ \A t \in Tab : list[t] = store)
=============================================================================
