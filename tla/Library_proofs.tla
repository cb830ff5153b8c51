--------------------------- MODULE Library_proofs ---------------------------
(***************************************************************************)
(* Safety of the artifact library, for any number of library pages,        *)
(* records, stamps and operations in progress, and databases that have     *)
(* been left in any way VisitsAssumption allows.                           *)
(*                                                                         *)
(* LibInv is inductive. Its parts are proved one after another, each from  *)
(* those before it, with one step per action.                              *)
(* InOrder, which PinOrder needs besides, is inductive together with it.   *)
(***************************************************************************)
EXTENDS Library, SequenceTheorems, FiniteSetTheorems, TLAPS

\* An operation that is doing something does what one of its kind may do.
WellFormed(w) ==
    w # Rest =>
        LET u == w.todo[1].update IN
        /\ w.kind \in {"save", "import"} =>
              /\ w.at \in {"get", "set", "show"}
              /\ u.content \in Content
              /\ u.pinned = None /\ u.pinnedIndex = None
        /\ w.at = "show" => w.kind = "import"
        /\ w.kind \in {"import", "update", "reverify"} => w.tab \in Tab
        /\ w.kind = "update" => w.at \in {"get", "set"}
        /\ w.kind = "reverify" =>
              w.at \in {"log", "get", "set", "verify"} /\ u.content \in Content
        /\ w.kind = "delete" <=> w.at = "del"
        /\ w.kind # "update" => Len(w.todo) = 1

OpsSound == \A o \in 1..Ops : WellFormed(op[o])

\* A page that re-verifies a record has it on its list, unless the list has
\* been read again since.
Attached ==
    \A o \in 1..Ops :
        op[o] # Rest /\ op[o].at = "log" /\ op[o].read # None =>
            list[op[o].tab][op[o].todo[1].key] # None

\* What a write is made from is a whole record.
ReadsSound ==
    \A o \in 1..Ops :
        op[o].at = "set" /\ op[o].read # None =>
            op[o].read.rawText = op[o].read.parsed

\* A key nobody has raced for is held by one operation at most, which writes
\* what it makes of the record as it is stored.
HeldAlone ==
    \A k \in Key \ raced :
        /\ \A o, p \in Holding(k) : o = p
        /\ \A o \in Holding(k) : op[o].at = "set" => op[o].read = store[k]

\* A page that has not turned away verifies the record it is on.
VerifiesTheSelected ==
    \A o \in 1..Ops :
        op[o] # Rest =>
            (op[o].kind = "reverify" /\ op[o].tab \notin strayed =>
                 op[o].todo[1].key = selected[op[o].tab])

LibInv ==
    /\ TypeOK /\ OpsSound /\ Attached
    /\ RawTextIsParsed /\ ReadsSound
    /\ HeldAlone /\ ActsLikeAMap
    /\ VerifiesTheSelected /\ BadgesAreOfTheSelected

-----------------------------------------------------------------------------
(***************************************************************************)
(* Operations.                                                             *)
(***************************************************************************)

\* What an operation in progress is made of.
LEMMA ActiveIsRecord ==
    ASSUME NEW w \in Operation, w # Rest
    PROVE  /\ w.at \in {"get", "set", "show", "log", "verify", "del"}
           /\ w.kind \in {"save", "import", "update", "reverify", "delete"}
           /\ w.tab \in Tab \cup {None}
           /\ w.todo \in Seq(Write) /\ w.todo # <<>>
           /\ w.read \in Stored
           /\ w = [at |-> w.at, kind |-> w.kind, tab |-> w.tab,
                   todo |-> w.todo, read |-> w.read]
BY DEF Operation

\* The write at hand.
LEMMA FirstWrite ==
    ASSUME NEW w \in Operation, w # Rest
    PROVE  /\ Len(w.todo) \in Nat \ {0}
           /\ w.todo[1] \in Write
           /\ w.todo[1].key \in Key
           /\ w.todo[1].update \in Update
<1>1. w.todo \in Seq(Write) /\ w.todo # <<>>
  BY ActiveIsRecord
<1>2. Len(w.todo) \in Nat \ {0}
  BY <1>1, EmptySeq
<1>3. w.todo[1] \in Write
  BY <1>1, <1>2, ElementOfSeq
<1> QED BY <1>2, <1>3 DEF Write

\* An operation at rest is at no await.
LEMMA RestIsNowhere ==
    ASSUME NEW o \in 1..Ops, op[o] = Rest
    PROVE  op[o].at \notin {"get", "set", "show", "log", "verify", "del"}
BY DEF Rest

\* One operation changes, in a way that suits its kind.
LEMMA OneMoves ==
    ASSUME TypeOK, OpsSound, NEW o \in 1..Ops, NEW w \in Operation,
           WellFormed(w), op' = [op EXCEPT ![o] = w]
    PROVE  op' \in [1..Ops -> Operation] /\ OpsSound'
BY DEF TypeOK, OpsSound

\* So does the beginning of one.
LEMMA BeginIsSound ==
    ASSUME TypeOK, OpsSound, NEW kind, NEW at, NEW t, NEW todo, NEW read,
           Begin(kind, at, t, todo, read),
           [at |-> at, kind |-> kind, tab |-> t, todo |-> todo, read |-> read]
               \in Operation,
           WellFormed([at |-> at, kind |-> kind, tab |-> t, todo |-> todo,
                       read |-> read])
    PROVE  op' \in [1..Ops -> Operation] /\ OpsSound'
BY DEF Begin, TypeOK, OpsSound

\* And the end.
LEMMA EndIsSound ==
    ASSUME TypeOK, OpsSound, NEW o \in 1..Ops, End(o)
    PROVE  op' \in [1..Ops -> Operation] /\ OpsSound'
<1>1. Rest \in Operation /\ WellFormed(Rest)
  BY DEF Operation, WellFormed
<1> QED BY <1>1, OneMoves DEF End

\* A page that lists other records lets go of those it was verifying.
LEMMA DetachedIsSound ==
    ASSUME TypeOK, OpsSound, NEW t
    PROVE  /\ Detached(t) \in [1..Ops -> Operation]
           /\ \A o \in 1..Ops : WellFormed(Detached(t)[o])
<1>1. ASSUME NEW o \in 1..Ops
      PROVE  Detached(t)[o] \in Operation /\ WellFormed(Detached(t)[o])
  <2>1. op[o] \in Operation /\ WellFormed(op[o])
    BY DEF TypeOK, OpsSound
  <2>2. CASE op[o] # Rest
    <3>1. [op[o] EXCEPT !.read = None] \in Operation
      BY <2>1, <2>2 DEF Operation, Stored
    <3>2. WellFormed([op[o] EXCEPT !.read = None])
      BY <2>1, <2>2, ActiveIsRecord DEF WellFormed, Rest
    <3> QED BY <2>1, <3>1, <3>2 DEF Detached
  <2>3. CASE op[o] = Rest
    BY <2>1, <2>3 DEF Detached
  <2> QED BY <2>2, <2>3
<1> QED BY <1>1 DEF Detached

\* What follows a write.
LEMMA ContinueIsSound ==
    ASSUME TypeOK, OpsSound, NEW o \in 1..Ops, op[o].at = "set", Continue(o)
    PROVE  op' \in [1..Ops -> Operation] /\ OpsSound'
<1> DEFINE w == op[o]
<1>1. w \in Operation /\ w # Rest /\ WellFormed(w)
  BY DEF TypeOK, OpsSound, Rest
<1>2. /\ w.todo \in Seq(Write) /\ w.todo # <<>> /\ Len(w.todo) \in Nat \ {0}
  BY <1>1, ActiveIsRecord, FirstWrite
<1>3. CASE Len(w.todo) > 1
  <2> DEFINE v == [w EXCEPT !.at = "get", !.todo = Tail(w.todo)]
  <2>1. Tail(w.todo) \in Seq(Write) /\ Len(Tail(w.todo)) = Len(w.todo) - 1
    BY <1>2, HeadTailProperties
  <2>2. Tail(w.todo) # <<>>
    BY SMTT(15), <1>2, <1>3, <2>1, EmptySeq
  <2>3. v \in Operation
    BY <1>1, <2>1, <2>2 DEF Operation
  <2>4. w.kind = "update"
    <3>1. \A n \in Nat : n > 1 => n # 1
      OBVIOUS
    <3>2. Len(w.todo) # 1
      BY <1>2, <1>3, <3>1, Zenon
    <3> QED BY <1>1, <3>2 DEF WellFormed
  <2>5. v.kind = "update" /\ v.at = "get" /\ v.tab = w.tab
    BY <1>1, <2>4, ActiveIsRecord
  <2>6. WellFormed(v)
    BY <1>1, <2>4, <2>5 DEF WellFormed
  <2>7. op' = [op EXCEPT ![o] = v]
    BY <1>3 DEF Continue
  <2> QED BY <2>3, <2>6, <2>7, OneMoves
<1>4. CASE ~(Len(w.todo) > 1) /\ w.kind \in {"reverify", "import"}
  <2> DEFINE v == [w EXCEPT !.at = IF w.kind = "import" THEN "show"
                                   ELSE "verify"]
  <2>1. v \in Operation
    BY <1>1 DEF Operation
  <2>2. /\ v.kind = w.kind /\ v.tab = w.tab /\ v.todo = w.todo
        /\ v.at = IF w.kind = "import" THEN "show" ELSE "verify"
    BY <1>1, ActiveIsRecord
  <2>3. WellFormed(v)
    BY <1>1, <1>4, <2>2 DEF WellFormed
  <2>4. op' = [op EXCEPT ![o] = v]
    BY <1>4 DEF Continue
  <2> QED BY <2>1, <2>3, <2>4, OneMoves
<1>5. CASE ~(Len(w.todo) > 1) /\ w.kind \notin {"reverify", "import"}
  BY <1>5, EndIsSound DEF Continue
<1> QED BY <1>3, <1>4, <1>5

\* An operation that has a write to do may stand at another await.
LEMMA MovesOn ==
    ASSUME TypeOK, OpsSound, NEW o \in 1..Ops, op[o] # Rest,
           NEW at \in {"get", "set", "show", "log", "verify", "del"},
           NEW read \in Stored,
           op' = [op EXCEPT ![o].at = at, ![o].read = read],
           at # "show", at = "log" => op[o].at = "log",
           at = "verify" => op[o].kind = "reverify",
           at = "del" <=> op[o].at = "del"
    PROVE  op' \in [1..Ops -> Operation] /\ OpsSound'
<1> DEFINE w == op[o]
           v == [w EXCEPT !.at = at, !.read = read]
<1>1. w \in Operation /\ w # Rest /\ WellFormed(w)
  BY DEF TypeOK, OpsSound
<1>2. v \in Operation
  BY <1>1 DEF Operation
<1>3. /\ v.kind = w.kind /\ v.tab = w.tab /\ v.todo = w.todo
      /\ v.at = at
  BY <1>1, ActiveIsRecord
<1>4. WellFormed(v)
  BY <1>1, <1>3, ActiveIsRecord DEF WellFormed
<1>5. op' = [op EXCEPT ![o] = v]
  OBVIOUS
<1> QED BY <1>2, <1>4, <1>5, OneMoves

\* What a library starts from.
LEMMA InitIsSound == Init => TypeOK /\ OpsSound
<1> SUFFICES ASSUME Init PROVE TypeOK /\ OpsSound
  OBVIOUS
<1>1. store \in [Key -> Stored]
  BY VisitsAssumption DEF Init
<1>2. TypeOK
  BY <1>1 DEF Init, TypeOK, Operation
<1>3. OpsSound
  BY DEF Init, OpsSound, WellFormed
<1> QED BY <1>2, <1>3

\* A record made of a sound one and a change of it is a record.
LEMMA WrittenIsStored ==
    ASSUME NEW w \in Operation, w # Rest, WellFormed(w), w.at = "set"
    PROVE  /\ Written(w.kind, w.read, w.todo[1].update) \in Stored
           /\ \A r \in Stored :
                 Ideally(w.kind, r, w.todo[1].update) \in Stored
<1> DEFINE u == w.todo[1].update
<1>1. w.read \in Stored /\ u \in Update
  BY ActiveIsRecord, FirstWrite
<1>2. w.kind \in {"save", "import"} => u.content \in Content
  BY DEF WellFormed
<1>3. /\ u.content \in Content \cup {None}
      /\ u.pinned \in BOOLEAN \cup {None}
      /\ u.pinnedIndex \in Nat \cup {None}
  BY <1>1 DEF Update
<1> HIDE DEF u
<1>4. ASSUME NEW r \in Stored, r # None
      PROVE  /\ r.parsed \in Content /\ r.rawText \in Content
             /\ r.pinned \in BOOLEAN /\ r.pinnedIndex \in Nat
  BY <1>4 DEF Stored, Record
<1>5. Written(w.kind, w.read, u) \in Stored
  <2>1. CASE w.kind \in {"save", "import"}
    BY <1>1, <1>2, <1>4, <2>1 DEF Written, Saved, Stored, Record
  <2>2. CASE w.kind \notin {"save", "import"} /\ w.read # None
    BY <1>1, <1>3, <1>4, <2>2 DEF Written, Merge, Or, Stored, Record
  <2>3. CASE w.kind \notin {"save", "import"} /\ w.read = None
    BY <2>3 DEF Written, Stored
  <2> QED BY <2>1, <2>2, <2>3
<1>6. ASSUME NEW r \in Stored
      PROVE  Ideally(w.kind, r, u) \in Stored
  <2>1. CASE r = None
    <3>1. CASE w.kind \in {"save", "import"}
      <4>1. u.content # None
        BY <1>2, <3>1, LibraryAssumption DEF Content
      <4> QED BY <1>2, <1>3, <2>1, <3>1, <4>1 DEF Ideally, Stored, Record
    <3>2. CASE w.kind \notin {"save", "import"}
      BY <2>1, <3>2 DEF Ideally, Stored
    <3> QED BY <3>1, <3>2
  <2>2. CASE r # None
    BY <1>3, <1>4, <2>2 DEF Ideally, Stored, Record
  <2> QED BY <2>1, <2>2
<1> QED BY <1>5, <1>6 DEF u

\* A finite set of numbers that is not empty has a greatest.
LEMMA GreatestExists ==
    ASSUME NEW T \in SUBSET Nat, IsFiniteSet(T), T # {}
    PROVE  \E n \in T : \A m \in T : m <= n
<1> DEFINE Great(U) == \E n \in U : \A m \in U : m <= n
           Bad == {U \in FiniteSubsetsOf(Nat) : U # {} /\ ~Great(U)}
<1>1. SUFFICES ASSUME Bad # {} PROVE FALSE
  BY DEF FiniteSubsetsOf
<1>2. PICK U \in Bad : \A V \in Bad :
          <<V, U>> \notin StrictSubsetOrdering(Nat)
  <2>1. IsWellFoundedOn(StrictSubsetOrdering(Nat), FiniteSubsetsOf(Nat))
    BY FS_StrictSubsetOrderingWellFounded
  <2>2. Bad \subseteq FiniteSubsetsOf(Nat)
    OBVIOUS
  <2> HIDE DEF Bad
  <2> QED BY <1>1, <2>1, <2>2, WFMin
<1>3. U \in SUBSET Nat /\ IsFiniteSet(U) /\ U # {} /\ ~Great(U)
  BY DEF FiniteSubsetsOf
<1>4. PICK x \in U : TRUE
  BY <1>3
<1> DEFINE V == U \ {x}
<1>5. V \in FiniteSubsetsOf(Nat)
  BY <1>3, FS_RemoveElement DEF FiniteSubsetsOf
<1>6. <<V, U>> \in StrictSubsetOrdering(Nat)
  BY <1>3, <1>4 DEF StrictSubsetOrdering
<1>7. V = {} \/ Great(V)
  BY <1>2, <1>5, <1>6
<1>8. CASE V = {}
  <2>1. \A m \in U : m = x
    BY <1>8
  <2> QED BY <1>3, <1>4, <2>1
<1>9. CASE Great(V)
  <2>1. PICK n \in V : \A m \in V : m <= n
    BY <1>9
  <2>2. n \in Nat /\ x \in Nat /\ n \in U
    BY <1>3, <1>4, <2>1
  <2>3. \A m \in U : m \in V \/ m = x
    OBVIOUS
  <2>4. CASE x <= n
    BY <1>3, <2>1, <2>2, <2>3, <2>4
  <2>5. CASE n < x
    <3>1. \A m \in U : m <= x
      BY <1>3, <2>1, <2>2, <2>3, <2>5
    <3> QED BY <1>3, <1>4, <3>1
  <2> QED BY <2>2, <2>4, <2>5
<1> QED BY <1>7, <1>8, <1>9

\* There is a place after the last that is taken.
LEMMA PlaceIsNat ==
    ASSUME TypeOK, NEW t \in Tab
    PROVE  /\ Place(t) \in Nat
           /\ \A k \in Pinned(t) : list[t][k].pinnedIndex < Place(t)
<1> DEFINE taken == {list[t][k].pinnedIndex : k \in Pinned(t)}
           f == [k \in Pinned(t) |-> list[t][k].pinnedIndex]
<1>1. Pinned(t) \subseteq Key /\ IsFiniteSet(Key)
  BY LibraryAssumption DEF Pinned
<1>2. IsFiniteSet(Pinned(t))
  BY <1>1, FS_Subset
<1>3. f \in Surjection(Pinned(t), taken)
  BY DEF Surjection
<1>4. IsFiniteSet(taken)
  BY <1>2, <1>3, FS_Surjection
<1>5. taken \subseteq Nat
  <2>1. SUFFICES ASSUME NEW k \in Pinned(t)
                 PROVE  list[t][k].pinnedIndex \in Nat
    OBVIOUS
  <2>2. list[t][k] \in Record
    BY <1>1 DEF TypeOK, Stored, Pinned
  <2> QED BY <2>2 DEF Record
<1>6. IsFiniteSet({0} \cup taken)
  <2>1. IsFiniteSet(taken \cup {0})
    BY <1>4, FS_AddElement
  <2>2. taken \cup {0} = {0} \cup taken
    OBVIOUS
  <2> QED BY <2>1, <2>2
<1>7. {0} \cup taken \in SUBSET Nat /\ {0} \cup taken # {}
  BY <1>5
<1>8. \E n \in {0} \cup taken : \A m \in {0} \cup taken : m <= n
  BY <1>6, <1>7, GreatestExists
<1> DEFINE last == CHOOSE n \in {0} \cup taken :
                       \A m \in {0} \cup taken : m <= n
<1>9. last \in {0} \cup taken /\ \A m \in {0} \cup taken : m <= last
  BY <1>8
<1>10. Place(t) = 1 + last
  BY DEF Place
<1> HIDE DEF last
<1>11. last \in Nat
  BY <1>7, <1>9
<1>12. ASSUME NEW k \in Pinned(t)
       PROVE  list[t][k].pinnedIndex < Place(t)
  <2>1. list[t][k].pinnedIndex \in taken
    OBVIOUS
  <2>2. list[t][k].pinnedIndex \in Nat
    BY <1>5, <2>1
  <2>3. list[t][k].pinnedIndex <= last
    BY <1>9, <2>1
  <2> QED BY <1>10, <1>11, <2>2, <2>3
<1> QED BY <1>10, <1>11, <1>12

-----------------------------------------------------------------------------
(***************************************************************************)
(* Types.                                                                  *)
(***************************************************************************)

\* One write to do.
LEMMA OneWrite ==
    ASSUME NEW k \in Key, NEW u \in Update
    PROVE  /\ <<WriteOf(k, u)>> \in Seq(Write) \ {<<>>}
           /\ Len(<<WriteOf(k, u)>>) = 1
           /\ <<WriteOf(k, u)>>[1] = WriteOf(k, u)
           /\ WriteOf(k, u).key = k /\ WriteOf(k, u).update = u
BY DEF WriteOf, Write

\* What the pages show may change as long as it stays of its type.
LEMMA PageTypes ==
    ASSUME TypeOK, UNCHANGED pages
    PROVE  /\ list' \in [Tab -> [Key -> Stored]]
           /\ selected' \in [Tab -> Key \cup {None}]
           /\ verdict' \in [Tab -> Key \cup {None}]
           /\ stale' \subseteq Tab
BY DEF TypeOK, pages

LEMMA TurnTypes ==
    ASSUME TypeOK, NEW t \in Tab, NEW k \in Key \cup {None}, Turn(t, k)
    PROVE  /\ selected' \in [Tab -> Key \cup {None}]
           /\ verdict' \in [Tab -> Key \cup {None}]
           /\ strayed' \subseteq Tab
BY DEF TypeOK, Turn

LEMMA ActTypes ==
    ASSUME TypeOK, Act
    PROVE  acts' \in Nat /\ hasty' \in BOOLEAN
BY DEF TypeOK, Act, AtRest

\* Each step of an operation.
LEMMA StepIsSound ==
    ASSUME TypeOK, OpsSound, Attached, NEW o \in 1..Ops, Step(o)
    PROVE  TypeOK' /\ OpsSound'
<1>0. ASSUME op[o] # Rest
      PROVE  /\ op[o] \in Operation /\ WellFormed(op[o])
             /\ op[o].todo[1].key \in Key
             /\ op[o].tab \in Tab \cup {None}
  BY <1>0, FirstWrite, ActiveIsRecord DEF TypeOK, OpsSound
<1>1. CASE Get(o)
  <2>1. store[op[o].todo[1].key] \in Stored
    BY <1>0, <1>1 DEF Get, TypeOK
  <2>2. op' \in [1..Ops -> Operation] /\ OpsSound'
    BY <1>1, <2>1, MovesOn DEF Get
  <2>3. raced' \subseteq Key
    BY <1>0, <1>1 DEF Get, TypeOK
  <2> QED BY <1>1, <2>2, <2>3, PageTypes DEF Get, TypeOK
<1>2. CASE GetFails(o)
  <2>1. op' \in [1..Ops -> Operation] /\ OpsSound'
    BY <1>2, MovesOn DEF GetFails, Stored
  <2>2. raced' \subseteq Key
    BY <1>0, <1>2 DEF GetFails, TypeOK
  <2> QED BY <1>2, <2>1, <2>2, PageTypes DEF GetFails, TypeOK
<1>3. CASE Set(o)
  <2> DEFINE w == op[o]
             new == Written(w.kind, w.read, w.todo[1].update)
  <2>1. op' \in [1..Ops -> Operation] /\ OpsSound'
    BY <1>3, ContinueIsSound DEF Set
  <2>2. /\ new \in Stored
        /\ \A r \in Stored : Ideally(w.kind, r, w.todo[1].update) \in Stored
    BY <1>0, <1>3, WrittenIsStored DEF Set
  <2>3. store' \in [Key -> Stored]
    BY <1>0, <1>3, <2>2 DEF Set, TypeOK
  <2>4. ideal' \in [Key -> Stored]
    BY <1>0, <1>3, <2>2 DEF Set, TypeOK
  <2>5. stale' \subseteq Tab
    <3>1. w.kind = "update" => w.tab \in Tab
      BY <1>0, <1>3 DEF WellFormed, Set
    <3> QED BY <1>3, <3>1 DEF Set, Broadcast, TypeOK
  <2> QED BY <1>3, <2>1, <2>3, <2>4, <2>5 DEF Set, TypeOK
<1>4. CASE SetFails(o)
  BY <1>4, EndIsSound, PageTypes DEF SetFails, TypeOK
<1>5. CASE Del(o)
  <2>1. store' \in [Key -> Stored] /\ ideal' \in [Key -> Stored]
    BY <1>5 DEF Del, TypeOK, Stored
  <2>2. raced' \subseteq Key /\ stale' \subseteq Tab
    BY <1>0, <1>5 DEF Del, TypeOK, Broadcast
  <2>3. op' \in [1..Ops -> Operation] /\ OpsSound'
    BY <1>5, EndIsSound DEF Del
  <2> QED BY <1>5, <2>1, <2>2, <2>3 DEF Del, TypeOK
<1>6. CASE DelFails(o)
  BY <1>6, EndIsSound DEF DelFails, TypeOK, Broadcast
<1>7. CASE Show(o)
  <2> DEFINE t == op[o].tab
             k == op[o].todo[1].key
  <2>1. t \in Tab /\ k \in Key
    BY <1>0, <1>7 DEF Show, WellFormed
  <2>2. op' \in [1..Ops -> Operation] /\ OpsSound'
    <3>1. Rest \in Operation /\ WellFormed(Rest)
      BY DEF Operation, WellFormed
    <3>2. /\ Detached(t) \in [1..Ops -> Operation]
          /\ \A p \in 1..Ops : WellFormed(Detached(t)[p])
      BY DetachedIsSound
    <3>3. op' = [Detached(t) EXCEPT ![o] = Rest]
      BY <1>7 DEF Show
    <3> QED BY <3>1, <3>2, <3>3 DEF OpsSound
  <2>3. /\ list' \in [Tab -> [Key -> Stored]]
        /\ stale' \subseteq Tab
    BY <1>7, <2>1 DEF Show, Listed, TypeOK
  <2>4. /\ selected' \in [Tab -> Key \cup {None}]
        /\ verdict' \in [Tab -> Key \cup {None}]
        /\ strayed' \subseteq Tab
    BY <1>7, <2>1, TurnTypes DEF Show
  <2> QED BY <1>7, <2>2, <2>3, <2>4 DEF Show, TypeOK
<1>8. CASE ProofCollected(o)
  <2> DEFINE w == op[o]
             k == w.todo[1].key
             c == w.todo[1].update.content
             done == [c EXCEPT !.proof = TRUE]
             write == [w.todo[1] EXCEPT !.update.content = done]
             todo == [w.todo EXCEPT ![1] = write]
             v == [w EXCEPT !.at = "get", !.read = None, !.todo = todo]
  <2>1. /\ w \in Operation /\ w # Rest /\ WellFormed(w) /\ w.at = "log"
        /\ k \in Key
    BY <1>0, <1>8 DEF ProofCollected
  <2>2. w.kind = "reverify" /\ w.tab \in Tab /\ c \in Content
        /\ Len(w.todo) = 1
    BY <2>1, ActiveIsRecord DEF WellFormed
  <2>3. done \in Content
    BY <2>2 DEF Content
  <2>4. w.todo[1] \in Write /\ w.todo[1].update \in Update
    BY <2>1, FirstWrite
  <2>5. /\ write \in Write
        /\ write.update.content = done
    BY <2>3, <2>4 DEF Write, Update
  <2>6. /\ todo \in Seq(Write) /\ Len(todo) = 1 /\ todo[1] = write
        /\ todo # <<>>
    <3>1. w.todo \in Seq(Write)
      BY <2>1, ActiveIsRecord
    <3>2. 1 \in 1..Len(w.todo)
      BY <2>2
    <3>3. /\ todo \in Seq(Write) /\ Len(todo) = 1
          /\ \A j \in 1..Len(w.todo) :
                todo[j] = IF j = 1 THEN write ELSE w.todo[j]
      <4>1. write \in Write
        BY <2>5
      <4> HIDE DEF write, w
      <4> QED BY <2>2, <3>1, <3>2, <4>1, ExceptSeq, SMTT(15)
    <3>4. todo # <<>>
      BY SMTT(15), <3>3, EmptySeq
    <3> QED BY <3>2, <3>3, <3>4
  <2> HIDE DEF todo
  <2>7. v \in Operation
    BY <2>1, <2>6 DEF Operation, Stored
  <2>8. /\ v.kind = "reverify" /\ v.at = "get" /\ v.tab = w.tab
        /\ v.todo = todo
    BY <2>1, <2>2, ActiveIsRecord
  <2>9. WellFormed(v)
    <3> HIDE DEF write, done
    <3>0. todo[1].update.content \in Content
      BY <2>3, <2>5, <2>6
    <3> HIDE DEF v
    <3>1. /\ v.todo[1].update.content \in Content /\ Len(v.todo) = 1
          /\ v.tab \in Tab
      BY <2>2, <2>6, <2>8, <3>0
    <3> QED BY <2>8, <3>1 DEF WellFormed
  <2>10. op' = [op EXCEPT ![o] = v]
    BY <1>8, <2>1 DEF ProofCollected, todo
  <2>11. op' \in [1..Ops -> Operation] /\ OpsSound'
    BY <2>7, <2>9, <2>10, OneMoves
  <2>12. list' \in [Tab -> [Key -> Stored]]
    <3>1. CASE w.read = None
      BY <1>8, <3>1 DEF ProofCollected, TypeOK
    <3>2. CASE w.read # None
      <4>1. list[w.tab][k] \in Record
        BY <2>1, <2>2, <3>2 DEF Attached, TypeOK, Stored
      <4>2. [list[w.tab][k] EXCEPT !.parsed = done] \in Stored
        BY <2>3, <4>1 DEF Record, Stored
      <4>3. list' = [list EXCEPT ![w.tab][k].parsed = done]
        BY <1>8, <3>2 DEF ProofCollected
      <4> QED BY <2>1, <2>2, <4>2, <4>3 DEF TypeOK
    <3> QED BY <3>1, <3>2
  <2>13. UNCHANGED <<store, selected, verdict, stale, acts, ideal, raced,
                     hasty, failed, strayed>>
    BY <1>8 DEF ProofCollected, history
  <2> QED BY <2>11, <2>12, <2>13 DEF TypeOK
<1>9. CASE NoProof(o)
  <2>1. op[o].kind = "reverify"
    BY <1>0, <1>9, ActiveIsRecord DEF NoProof, WellFormed
  <2>2. op' \in [1..Ops -> Operation] /\ OpsSound'
    BY <1>9, <2>1, MovesOn DEF NoProof, Stored
  <2> QED BY <1>9, <2>2, PageTypes DEF NoProof, TypeOK, history
<1>10. CASE Verified(o)
  <2>1. op[o].tab \in Tab /\ op[o].todo[1].key \in Key
    BY <1>0, <1>10, ActiveIsRecord DEF Verified, WellFormed
  <2>2. verdict' \in [Tab -> Key \cup {None}]
    BY <1>10, <2>1 DEF Verified, TypeOK
  <2> QED BY <1>10, <2>2, EndIsSound DEF Verified, TypeOK, history
<1>11. CASE VerifyFails(o)
  BY <1>11, EndIsSound, PageTypes DEF VerifyFails, TypeOK, history
<1> QED BY <1>1, <1>2, <1>3, <1>4, <1>5, <1>6, <1>7, <1>8, <1>9, <1>10,
           <1>11 DEF Step

\* A page that reads the list again.
LEMMA ReloadIsSound ==
    ASSUME TypeOK, OpsSound, NEW t \in Tab, Reload(t)
    PROVE  TypeOK' /\ OpsSound'
<1>1. op' \in [1..Ops -> Operation] /\ OpsSound'
  BY DetachedIsSound DEF Reload, Refresh, RefreshFails, OpsSound
<1>2. list' \in [Tab -> [Key -> Stored]] /\ stale' \subseteq Tab
  <2>1. Empty \in [Key -> Stored] /\ store \in [Key -> Stored]
    BY DEF Empty, Stored, TypeOK
  <2>2. PICK records \in [Key -> Stored] : Listed(t, records)
    BY <2>1 DEF Reload, Refresh, RefreshFails
  <2> QED BY <2>2 DEF Listed, TypeOK
<1>3. /\ selected' \in [Tab -> Key \cup {None}]
      /\ verdict' \in [Tab -> Key \cup {None}]
      /\ strayed' \subseteq Tab
  <2>1. CASE Turn(t, None)
    BY <2>1, TurnTypes
  <2>2. CASE UNCHANGED <<selected, verdict, strayed>>
    BY <2>2 DEF TypeOK
  <2> QED BY <2>1, <2>2 DEF Reload, Refresh, RefreshFails
<1> QED BY <1>1, <1>2, <1>3 DEF Reload, Refresh, RefreshFails, TypeOK

\* A single write an operation begins with.
LEMMA BeginsWithOne ==
    ASSUME TypeOK, OpsSound, NEW t \in Tab \cup {None}, NEW k \in Key,
           NEW u \in Update, NEW read \in Stored,
           NEW at, NEW kind, Begin(kind, at, t, <<WriteOf(k, u)>>, read),
           \/ /\ at = "get" /\ kind = "save"
              /\ u.content \in Content
              /\ u.pinned = None /\ u.pinnedIndex = None
           \/ /\ at = "get" /\ kind = "import" /\ t \in Tab
              /\ u.content \in Content
              /\ u.pinned = None /\ u.pinnedIndex = None
           \/ at = "get" /\ kind = "update" /\ t \in Tab
           \/ at = "del" /\ kind = "delete"
           \/ /\ at = "log" /\ kind = "reverify" /\ t \in Tab
              /\ u.content \in Content
    PROVE  op' \in [1..Ops -> Operation] /\ OpsSound'
<1> DEFINE todo == <<WriteOf(k, u)>>
           w == [at |-> at, kind |-> kind, tab |-> t, todo |-> todo,
                 read |-> read]
<1>1. /\ todo \in Seq(Write) \ {<<>>} /\ Len(todo) = 1
      /\ todo[1].update = u
  BY OneWrite
<1> HIDE DEF todo
<1>2. w \in Operation
  BY <1>1 DEF Operation
<1>3. WellFormed(w)
  BY <1>1 DEF WellFormed
<1> QED BY <1>2, <1>3, BeginIsSound DEF todo

\* Whatever a user does.
LEMMA ActIsSound ==
    ASSUME TypeOK, OpsSound, NEW t \in Tab
    PROVE  /\ \A c \in Content : Save(t, c) => TypeOK' /\ OpsSound'
           /\ \A k \in Key : Toggle(t, k) => TypeOK' /\ OpsSound'
           /\ \A k \in Key : Pin(t, k) => TypeOK' /\ OpsSound'
           /\ \A a, b \in Key : Move(t, a, b) => TypeOK' /\ OpsSound'
           /\ Delete(t) => TypeOK' /\ OpsSound'
           /\ ReVerify(t) => TypeOK' /\ OpsSound'
<1>0. Nothing \in Update /\ None \in Stored
  BY DEF Nothing, Update, Stored
<1>1. ASSUME NEW c \in Content, Save(t, c) PROVE TypeOK' /\ OpsSound'
  <2> DEFINE u == [Nothing EXCEPT !.content = c]
  <2>1. /\ u \in Update /\ u.content = c
        /\ u.pinned = None /\ u.pinnedIndex = None
    BY DEF Nothing, Update
  <2>2. storageKey(c) \in Key
    BY LibraryAssumption DEF storageKey, Content
  <2>3. t # None
    BY LibraryAssumption
  <2>4. Begin("import", "get", t, <<WriteOf(storageKey(c), u)>>, None)
    BY <1>1, <2>3 DEF Save
  <2>5. op' \in [1..Ops -> Operation] /\ OpsSound'
    BY <1>0, <2>1, <2>2, <2>4, BeginsWithOne
  <2> QED BY <1>1, <2>5, ActTypes, PageTypes DEF Save, TypeOK
<1>2. ASSUME NEW k \in Key, Toggle(t, k) PROVE TypeOK' /\ OpsSound'
  <2>1. PICK n \in Key \cup {None} : Turn(t, n)
    BY <1>2 DEF Toggle
  <2>2. OpsSound'
    BY <1>2 DEF Toggle, OpsSound
  <2> QED BY <1>2, <2>1, <2>2, ActTypes, TurnTypes DEF Toggle, TypeOK
<1>3. ASSUME NEW k \in Key, Pin(t, k) PROVE TypeOK' /\ OpsSound'
  <2> DEFINE on == ~list[t][k].pinned
             u == [content |-> None, pinned |-> on,
                   pinnedIndex |-> IF on THEN Place(t) ELSE 0]
  <2>1. u \in Update
    BY PlaceIsNat DEF Update
  <2>2. Begin("update", "get", t, <<WriteOf(k, u)>>, None)
    BY <1>3 DEF Pin
  <2>3. op' \in [1..Ops -> Operation] /\ OpsSound'
    BY <1>0, <2>1, <2>2, BeginsWithOne
  <2> QED BY <1>3, <2>3, ActTypes, PageTypes DEF Pin, TypeOK
<1>4. ASSUME NEW a \in Key, NEW b \in Key, Move(t, a, b)
      PROVE  TypeOK' /\ OpsSound'
  <2> DEFINE at(k) == [Nothing EXCEPT !.pinnedIndex = list[t][k].pinnedIndex]
             todo == <<WriteOf(a, at(b)), WriteOf(b, at(a))>>
             w == [at |-> "get", kind |-> "update", tab |-> t,
                   todo |-> todo, read |-> None]
  <2>1. ASSUME NEW k \in Pinned(t) PROVE at(k) \in Update
    <3>1. list[t][k] \in Record
      BY DEF TypeOK, Stored, Pinned
    <3> QED BY <3>1 DEF Record, Nothing, Update
  <2>2. todo \in Seq(Write) \ {<<>>}
    <3>1. WriteOf(a, at(b)) \in Write /\ WriteOf(b, at(a)) \in Write
      BY <1>4, <2>1 DEF Move, WriteOf, Write
    <3> HIDE DEF at
    <3> QED BY <3>1
  <2> HIDE DEF todo
  <2>3. w \in Operation
    BY <1>0, <2>2 DEF Operation
  <2>4. WellFormed(w)
    BY DEF WellFormed
  <2>5. Begin("update", "get", t, todo, None)
    BY <1>4 DEF Move, todo
  <2>6. op' \in [1..Ops -> Operation] /\ OpsSound'
    BY <2>3, <2>4, <2>5, BeginIsSound
  <2> QED BY <1>4, <2>6, ActTypes, PageTypes DEF Move, TypeOK
<1>5. ASSUME Delete(t) PROVE TypeOK' /\ OpsSound'
  <2>1. selected[t] \in Key
    BY <1>5 DEF Delete, TypeOK
  <2>2. op' \in [1..Ops -> Operation] /\ OpsSound'
    BY <1>0, <1>5, <2>1, BeginsWithOne DEF Delete
  <2> QED BY <1>5, <2>2, ActTypes, TurnTypes DEF Delete, TypeOK
<1>6. ASSUME ReVerify(t) PROVE TypeOK' /\ OpsSound'
  <2> DEFINE k == selected[t]
             u == [Nothing EXCEPT !.content = list[t][k].parsed]
  <2>1. k \in Key /\ list[t][k] \in Record
    BY <1>6 DEF ReVerify, TypeOK, Stored
  <2>2. u \in Update /\ u.content \in Content
    BY <2>1 DEF Record, Nothing, Update
  <2>3. Begin("reverify", "log", t, <<WriteOf(k, u)>>, list[t][k])
    BY <1>6 DEF ReVerify
  <2>4. op' \in [1..Ops -> Operation] /\ OpsSound'
    BY <2>1, <2>2, <2>3, BeginsWithOne DEF Stored
  <2>5. raced' \subseteq Key
    BY <1>6, <2>1 DEF ReVerify, TypeOK
  <2> QED BY <1>6, <2>4, <2>5, ActTypes, PageTypes DEF ReVerify, TypeOK
<1> QED BY <1>1, <1>2, <1>3, <1>4, <1>5, <1>6

\* The anchor page or the verify page saves.
LEMMA SaveIsSound ==
    ASSUME TypeOK, OpsSound, NEW c \in Content, Save(None, c)
    PROVE  TypeOK' /\ OpsSound'
<1> DEFINE u == [Nothing EXCEPT !.content = c]
<1>1. /\ u \in Update /\ u.content = c
      /\ u.pinned = None /\ u.pinnedIndex = None
  BY DEF Nothing, Update
<1>2. storageKey(c) \in Key
  BY LibraryAssumption DEF storageKey, Content
<1>3. Begin("save", "get", None, <<WriteOf(storageKey(c), u)>>, None)
  BY DEF Save
<1>4. op' \in [1..Ops -> Operation] /\ OpsSound'
  BY <1>1, <1>2, <1>3, BeginsWithOne DEF Stored
<1> QED BY <1>4, ActTypes, PageTypes DEF Save, TypeOK

-----------------------------------------------------------------------------
(***************************************************************************)
(* What an action leaves alone. Most actions are tame: no operation comes  *)
(* to hold a record it did not hold before, none gets ready to write, and  *)
(* a re-verification stays that of the record and the page it was of.      *)
(***************************************************************************)
Same(v, w) ==
    /\ w # Rest /\ w.kind = "reverify"
    /\ v.tab = w.tab /\ v.todo[1].key = w.todo[1].key

TameChange(v, w) ==
    /\ v.at = "set" => v = w
    /\ v # Rest /\ v.kind = "reverify" =>
          /\ Same(v, w)
          /\ v.at = "log" => w.at = "log" /\ v.read \in {w.read, None}
          /\ v.at = "get" => w.at \in {"get", "log"}

Tame == \A p \in 1..Ops : TameChange(op'[p], op[p])

LEMMA UnchangedIsTame ==
    ASSUME NEW w, w # Rest => w.kind # "reverify" \/ Same(w, w)
    PROVE  TameChange(w, w)
BY DEF TameChange, Same

LEMMA RestIsTame ==
    ASSUME NEW w PROVE TameChange(Rest, w)
BY DEF TameChange, Rest

\* One operation moves, tamely.
LEMMA OneMovesTamely ==
    ASSUME TypeOK, NEW o \in 1..Ops, NEW v,
           op' = [op EXCEPT ![o] = v], TameChange(v, op[o])
    PROVE  Tame
BY UnchangedIsTame DEF Tame, TypeOK, Same

LEMMA EndIsTame ==
    ASSUME TypeOK, NEW o \in 1..Ops, End(o)
    PROVE  Tame
BY OneMovesTamely, RestIsTame DEF End

LEMMA StillIsTame ==
    ASSUME TypeOK, op' = op
    PROVE  Tame
BY UnchangedIsTame DEF Tame, TypeOK, Same

LEMMA BeginIsTame ==
    ASSUME TypeOK, NEW kind, NEW at, NEW t, NEW todo, NEW read,
           Begin(kind, at, t, todo, read),
           kind # "reverify", at # "set"
    PROVE  Tame
<1>1. PICK o \in 1..Ops :
        op' = [op EXCEPT ![o] = [at |-> at, kind |-> kind, tab |-> t,
                                 todo |-> todo, read |-> read]]
  BY DEF Begin
<1>2. TameChange([at |-> at, kind |-> kind, tab |-> t, todo |-> todo,
                  read |-> read], op[o])
  BY DEF TameChange
<1> QED BY <1>1, <1>2, OneMovesTamely

\* The last write, or not, of an operation.
LEMMA ContinueIsTame ==
    ASSUME TypeOK, OpsSound, NEW o \in 1..Ops, op[o].at = "set", Continue(o)
    PROVE  /\ Tame
           /\ op'[o].at \in {"rest", "get", "show", "verify"}
           /\ op'[o].at = "get" => op'[o].kind = "update"
<1> DEFINE w == op[o]
<1>1. w \in Operation /\ w # Rest /\ WellFormed(w)
  BY DEF TypeOK, OpsSound, Rest
<1>2. CASE Len(w.todo) > 1
  <2> DEFINE v == [w EXCEPT !.at = "get", !.todo = Tail(w.todo)]
  <2>1. w.kind = "update"
    <3>1. \A n \in Nat : n > 1 => n # 1
      OBVIOUS
    <3>2. Len(w.todo) # 1
      BY <1>1, <1>2, <3>1, FirstWrite, Zenon
    <3> QED BY <1>1, <3>2 DEF WellFormed
  <2>2. v.kind = "update" /\ v.at = "get"
    BY <1>1, <2>1, ActiveIsRecord
  <2>3. TameChange(v, w)
    BY <2>2 DEF TameChange
  <2>4. op' = [op EXCEPT ![o] = v]
    BY <1>2 DEF Continue
  <2>5. op'[o] = v
    BY <2>4 DEF TypeOK
  <2> QED BY <2>2, <2>3, <2>4, <2>5, OneMovesTamely
<1>3. CASE ~(Len(w.todo) > 1) /\ w.kind \in {"reverify", "import"}
  <2> DEFINE v == [w EXCEPT !.at = IF w.kind = "import" THEN "show"
                                   ELSE "verify"]
  <2>1. /\ v.kind = w.kind /\ v.tab = w.tab /\ v.todo = w.todo
        /\ v.at \in {"show", "verify"}
    BY <1>1, ActiveIsRecord
  <2>2. TameChange(v, w)
    BY <1>1, <2>1 DEF TameChange, Same
  <2>3. op' = [op EXCEPT ![o] = v]
    BY <1>3 DEF Continue
  <2>4. op'[o] = v
    BY <2>3 DEF TypeOK
  <2> QED BY <2>1, <2>2, <2>3, <2>4, OneMovesTamely
<1>4. CASE ~(Len(w.todo) > 1) /\ w.kind \notin {"reverify", "import"}
  <2>1. End(o)
    BY <1>4 DEF Continue
  <2>2. op'[o] = Rest
    BY <2>1 DEF End, TypeOK
  <2> QED BY <2>1, <2>2, EndIsTame DEF Rest
<1> QED BY <1>2, <1>3, <1>4

\* A list that is read anew.
LEMMA DetachedIsTame ==
    ASSUME TypeOK, NEW t, NEW p \in 1..Ops
    PROVE  TameChange(Detached(t)[p], op[p])
<1> DEFINE w == op[p]
<1>1. w \in Operation
  BY DEF TypeOK
<1>2. CASE w # Rest /\ w.at = "log" /\ w.tab = t
  <2> DEFINE v == [w EXCEPT !.read = None]
  <2>1. /\ v.at = "log" /\ v.kind = w.kind /\ v.tab = w.tab
        /\ v.todo = w.todo /\ v.read = None
    BY <1>1, <1>2, ActiveIsRecord
  <2>2. TameChange(v, w)
    BY <1>2, <2>1 DEF TameChange, Same
  <2> QED BY <1>2, <2>2 DEF Detached
<1>3. CASE ~(w # Rest /\ w.at = "log" /\ w.tab = t)
  <2>1. Detached(t)[p] = w
    BY <1>3 DEF Detached
  <2> QED BY <2>1, UnchangedIsTame DEF Same
<1> QED BY <1>2, <1>3

\* A tame step gives no operation a record to go by.
LEMMA TameHolds ==
    ASSUME TypeOK', OpsSound', Tame, NEW k \in Key, NEW o \in Holding(k)'
    PROVE  /\ o \in Holding(k)
           /\ op'[o].at = "set" => op[o].at = "set" /\ op'[o] = op[o]
<1> DEFINE v == op'[o]
           w == op[o]
<1>1. /\ o \in 1..Ops /\ v # Rest /\ v.todo[1].key = k
      /\ \/ v.at \in {"set", "log"}
         \/ v.at = "get" /\ v.kind = "reverify"
  BY DEF Holding
<1>2. TameChange(v, w) /\ v \in Operation /\ WellFormed(v)
  BY <1>1 DEF Tame, TypeOK, OpsSound
<1>3. CASE v.at = "set"
  BY <1>1, <1>2, <1>3 DEF Holding, TameChange
<1>4. CASE v.at = "log"
  <2>1. v.kind = "reverify"
    BY <1>1, <1>2, <1>4, ActiveIsRecord DEF WellFormed
  <2> QED BY <1>1, <1>2, <1>4, <2>1 DEF Holding, TameChange, Same
<1>5. CASE v.at = "get" /\ v.kind = "reverify"
  BY <1>1, <1>2, <1>5 DEF Holding, TameChange, Same
<1> QED BY <1>1, <1>3, <1>4, <1>5

\* So a tame step that writes nothing disturbs no one.
LEMMA TameStep ==
    ASSUME LibInv, TypeOK', OpsSound', Tame,
           store' = store, ideal' = ideal, raced \subseteq raced'
    PROVE  RawTextIsParsed' /\ ReadsSound' /\ HeldAlone' /\ ActsLikeAMap'
<1>1. RawTextIsParsed' /\ ActsLikeAMap'
  BY DEF LibInv, RawTextIsParsed, ActsLikeAMap
<1>2. ReadsSound'
  <2>1. SUFFICES ASSUME NEW o \in 1..Ops, op'[o].at = "set",
                        op'[o].read # None
                 PROVE  op'[o].read.rawText = op'[o].read.parsed
    BY DEF ReadsSound
  <2>2. op'[o] = op[o]
    BY <2>1 DEF Tame, TameChange
  <2> QED BY <2>1, <2>2 DEF LibInv, ReadsSound
<1>3. HeldAlone'
  <2>1. SUFFICES ASSUME NEW k \in Key, k \notin raced'
                 PROVE  /\ \A o, p \in Holding(k)' : o = p
                        /\ \A o \in Holding(k)' :
                              op'[o].at = "set" => op'[o].read = store'[k]
    BY DEF HeldAlone
  <2>2. /\ \A o, p \in Holding(k) : o = p
        /\ \A o \in Holding(k) : op[o].at = "set" => op[o].read = store[k]
    BY <2>1 DEF LibInv, HeldAlone
  <2> QED BY <2>2, TameHolds
<1> QED BY <1>1, <1>2, <1>3

\* What a re-verification is of, a tame step leaves.
LEMMA TameVerifies ==
    ASSUME Tame, NEW o \in 1..Ops, op'[o] # Rest, op'[o].kind = "reverify"
    PROVE  Same(op'[o], op[o])
BY DEF Tame, TameChange

\* A list that keeps its records keeps those that are being verified.
LEMMA ListKept ==
    ASSUME TypeOK, Attached, TypeOK', OpsSound', Tame,
           \A t \in Tab, k \in Key : list[t][k] # None => list'[t][k] # None
    PROVE  Attached'
<1>1. SUFFICES ASSUME NEW o \in 1..Ops, op'[o] # Rest, op'[o].at = "log",
                      op'[o].read # None
               PROVE  list'[op'[o].tab][op'[o].todo[1].key] # None
  BY DEF Attached
<1> DEFINE v == op'[o]
           w == op[o]
<1>2. v \in Operation /\ WellFormed(v)
  BY DEF TypeOK, OpsSound
<1>3. v.kind = "reverify"
  BY <1>1, <1>2, ActiveIsRecord DEF WellFormed
<1>4. /\ w # Rest /\ w.at = "log" /\ w.read # None
      /\ v.tab = w.tab /\ v.todo[1].key = w.todo[1].key
  BY <1>1, <1>3 DEF Tame, TameChange, Same
<1>5. v.tab \in Tab /\ v.todo[1].key \in Key
  BY <1>1, <1>2, <1>3, FirstWrite DEF WellFormed
<1>6. list[w.tab][w.todo[1].key] # None
  BY <1>4 DEF Attached
<1> QED BY <1>4, <1>5, <1>6

\* A page that reads its list anew verifies nothing of the old one.
LEMMA ListRead ==
    ASSUME TypeOK, Attached, TypeOK', OpsSound', NEW t \in Tab,
           NEW records, Listed(t, records),
           \A p \in 1..Ops : op'[p] \in {Detached(t)[p], Rest}
    PROVE  Attached' /\ Tame
<1>1. Tame
  BY DetachedIsTame, RestIsTame DEF Tame
<1>2. SUFFICES ASSUME NEW o \in 1..Ops, op'[o] # Rest, op'[o].at = "log",
                      op'[o].read # None
               PROVE  list'[op'[o].tab][op'[o].todo[1].key] # None
  BY <1>1 DEF Attached
<1>3. op[o] \in Operation
  BY DEF TypeOK
<1>4. op'[o] = Detached(t)[o]
  BY <1>2
<1>5. CASE op[o] # Rest /\ op[o].at = "log" /\ op[o].tab = t
  <2>1. [op[o] EXCEPT !.read = None].read = None
    BY <1>3, <1>5, ActiveIsRecord
  <2> QED BY <1>2, <1>4, <1>5, <2>1 DEF Detached
<1>6. CASE ~(op[o] # Rest /\ op[o].at = "log" /\ op[o].tab = t)
  <2>1. op'[o] = op[o]
    BY <1>4, <1>6 DEF Detached
  <2>2. op[o].tab # t /\ list[op[o].tab][op[o].todo[1].key] # None
    BY <1>2, <1>6, <2>1 DEF Attached
  <2>3. WellFormed(op[o]) /\ op[o].kind = "reverify"
    BY <1>2, <1>3, <2>1, ActiveIsRecord DEF OpsSound, WellFormed
  <2>4. op[o].tab \in Tab
    BY <1>2, <2>1, <2>3 DEF WellFormed
  <2>5. list'[op[o].tab] = list[op[o].tab]
    BY <2>2, <2>4 DEF Listed, TypeOK
  <2> QED BY <2>1, <2>2, <2>5
<1> QED BY <1>5, <1>6

\* A page that stays where it is.
LEMMA PageStays ==
    ASSUME VerifiesTheSelected, Tame,
           UNCHANGED <<selected, strayed>>
    PROVE  VerifiesTheSelected'
BY TameVerifies DEF VerifiesTheSelected, Same

\* A page that turns to another record.
LEMMA PageTurns ==
    ASSUME TypeOK, VerifiesTheSelected, BadgesAreOfTheSelected, Tame,
           TypeOK', OpsSound', NEW t \in Tab, NEW k, Turn(t, k)
    PROVE  VerifiesTheSelected' /\ BadgesAreOfTheSelected'
<1>1. VerifiesTheSelected'
  <2>1. SUFFICES ASSUME NEW o \in 1..Ops, op'[o] # Rest,
                        op'[o].kind = "reverify", op'[o].tab \notin strayed'
                 PROVE  op'[o].todo[1].key = selected'[op'[o].tab]
    BY DEF VerifiesTheSelected
  <2>2. Same(op'[o], op[o])
    BY <2>1, TameVerifies
  <2>3. Verifying(op[o].tab)
    BY <2>2 DEF Verifying, Same
  <2>4. op[o].tab # t /\ op[o].tab \notin strayed
    BY <2>1, <2>2, <2>3 DEF Turn, Same
  <2>5. op[o].todo[1].key = selected[op[o].tab]
    BY <2>2, <2>4 DEF VerifiesTheSelected, Same
  <2>6. op[o].tab \in Tab
    BY <2>1, <2>2 DEF OpsSound, WellFormed, Same
  <2>7. selected'[op[o].tab] = selected[op[o].tab]
    BY <2>4, <2>6 DEF Turn, TypeOK
  <2> QED BY <2>2, <2>5, <2>7 DEF Same
<1>2. BadgesAreOfTheSelected'
  <2>1. SUFFICES ASSUME NEW s \in Tab, s \notin strayed'
                 PROVE  verdict'[s] \in {None, selected'[s]}
    BY DEF BadgesAreOfTheSelected
  <2>2. CASE s = t
    BY <2>2 DEF Turn, TypeOK
  <2>3. CASE s # t
    BY <2>1, <2>3 DEF Turn, TypeOK, BadgesAreOfTheSelected
  <2> QED BY <2>2, <2>3
<1> QED BY <1>1, <1>2

-----------------------------------------------------------------------------
(***************************************************************************)
(* Every action keeps the invariant.                                       *)
(***************************************************************************)
LEMMA InitIsInv == Init => LibInv
<1> SUFFICES ASSUME Init PROVE LibInv
  OBVIOUS
<1>1. TypeOK /\ OpsSound
  BY InitIsSound
<1>2. \A k \in Key : Holding(k) = {}
  BY DEF Init, Holding
<1>3. RawTextIsParsed
  BY VisitsAssumption DEF Init, RawTextIsParsed
<1>4. Attached /\ ReadsSound /\ HeldAlone /\ VerifiesTheSelected
  BY <1>2 DEF Init, Attached, ReadsSound, HeldAlone, VerifiesTheSelected,
              Rest
<1>5. ActsLikeAMap /\ BadgesAreOfTheSelected
  BY DEF Init, ActsLikeAMap, BadgesAreOfTheSelected
<1> QED BY <1>1, <1>3, <1>4, <1>5 DEF LibInv

\* A tame step that leaves the store and the pages alone.
LEMMA QuietStep ==
    ASSUME LibInv, TypeOK', OpsSound', Tame,
           UNCHANGED <<store, list, selected, verdict, ideal, strayed>>,
           raced \subseteq raced'
    PROVE  LibInv'
<1>1. RawTextIsParsed' /\ ReadsSound' /\ HeldAlone' /\ ActsLikeAMap'
  BY TameStep
<1>2. Attached'
  BY ListKept DEF LibInv
<1>3. VerifiesTheSelected'
  BY PageStays DEF LibInv
<1>4. BadgesAreOfTheSelected'
  BY DEF LibInv, BadgesAreOfTheSelected
<1> QED BY <1>1, <1>2, <1>3, <1>4 DEF LibInv

\* One that turns a page.
LEMMA TurningStep ==
    ASSUME LibInv, TypeOK', OpsSound', Tame, Attached',
           UNCHANGED <<store, ideal, raced>>,
           NEW t \in Tab, NEW k, Turn(t, k)
    PROVE  LibInv'
<1>1. RawTextIsParsed' /\ ReadsSound' /\ HeldAlone' /\ ActsLikeAMap'
  BY TameStep
<1>2. VerifiesTheSelected' /\ BadgesAreOfTheSelected'
  BY PageTurns DEF LibInv
<1> QED BY <1>1, <1>2 DEF LibInv

LEMMA ReloadKeepsInv ==
    ASSUME LibInv, NEW t \in Tab, Reload(t)
    PROVE  LibInv'
<1>1. TypeOK' /\ OpsSound'
  BY ReloadIsSound DEF LibInv
<1>2. PICK records : Listed(t, records)
  BY DEF Reload, Refresh, RefreshFails
<1>3. op' = Detached(t) /\ UNCHANGED <<store, ideal, raced>>
  BY DEF Reload, Refresh, RefreshFails
<1>4. Attached' /\ Tame
  BY <1>1, <1>2, <1>3, ListRead DEF LibInv
<1>5. CASE Turn(t, None)
  BY <1>1, <1>3, <1>4, <1>5, TurningStep
<1>6. CASE UNCHANGED <<selected, verdict, strayed>>
  <2>1. RawTextIsParsed' /\ ReadsSound' /\ HeldAlone' /\ ActsLikeAMap'
    BY <1>1, <1>3, <1>4, TameStep
  <2>2. VerifiesTheSelected'
    BY <1>4, <1>6, PageStays DEF LibInv
  <2>3. BadgesAreOfTheSelected'
    BY <1>6 DEF LibInv, BadgesAreOfTheSelected
  <2> QED BY <1>1, <1>4, <2>1, <2>2, <2>3 DEF LibInv
<1> QED BY <1>5, <1>6 DEF Reload, Refresh, RefreshFails

LEMMA ShowKeepsInv ==
    ASSUME LibInv, NEW o \in 1..Ops, Show(o)
    PROVE  LibInv'
<1>0. op[o] \in Operation /\ WellFormed(op[o])
  BY DEF LibInv, TypeOK, OpsSound
<1>1. TypeOK' /\ OpsSound'
  BY StepIsSound DEF LibInv, Step
<1> DEFINE t == op[o].tab
<1>2. t \in Tab
  BY <1>0, ActiveIsRecord DEF Show, WellFormed
<1>3. \A p \in 1..Ops : op'[p] \in {Detached(t)[p], Rest}
  BY DEF Show, Detached
<1>4. Listed(t, store)
  BY DEF Show
<1>5. Attached' /\ Tame
  BY <1>1, <1>2, <1>3, <1>4, ListRead DEF LibInv
<1>6. Turn(t, op[o].todo[1].key) /\ UNCHANGED <<store, ideal, raced>>
  BY DEF Show
<1> QED BY <1>1, <1>2, <1>5, <1>6, TurningStep

\* The handlers that write nothing.
LEMMA HandlerKeepsInv ==
    ASSUME LibInv, NEW o \in 1..Ops,
           \/ SetFails(o) \/ DelFails(o) \/ ProofCollected(o)
           \/ NoProof(o) \/ Verified(o) \/ VerifyFails(o)
    PROVE  LibInv'
<1> DEFINE w == op[o]
<1>0. TypeOK /\ OpsSound /\ Attached /\ w \in Operation /\ WellFormed(w)
  BY DEF LibInv, TypeOK, OpsSound
<1>1. TypeOK' /\ OpsSound'
  BY <1>0, StepIsSound DEF Step
<1>2. CASE SetFails(o)
  BY <1>0, <1>1, <1>2, EndIsTame, QuietStep DEF SetFails, pages
<1>3. CASE DelFails(o)
  BY <1>0, <1>1, <1>3, EndIsTame, QuietStep DEF DelFails
<1>4. CASE ProofCollected(o)
  <2> DEFINE c == w.todo[1].update.content
             done == [c EXCEPT !.proof = TRUE]
             v == [w EXCEPT !.at = "get", !.read = None,
                            !.todo[1].update.content = done]
  <2>1. w # Rest /\ w.at = "log"
    BY <1>4 DEF ProofCollected
  <2>2. w.kind = "reverify" /\ w.tab \in Tab /\ w.todo[1].key \in Key
    BY <1>0, <2>1, ActiveIsRecord, FirstWrite DEF WellFormed
  <2>3. /\ v.at = "get" /\ v.kind = w.kind /\ v.tab = w.tab
        /\ v.todo[1].key = w.todo[1].key
    <3>1. w.todo \in Seq(Write) /\ 1 \in 1..Len(w.todo)
      BY <1>0, <2>1, ActiveIsRecord, FirstWrite
    <3>2. w.todo[1] \in Write
      BY <1>0, <2>1, FirstWrite
    <3> DEFINE first == [w.todo[1] EXCEPT !.update.content = done]
    <3>3. first.key = w.todo[1].key
      BY <3>2 DEF Write
    <3>4. [w.todo EXCEPT ![1] = first][1] = first
      BY <3>1
    <3>5. v.todo = [w.todo EXCEPT ![1] = first]
      BY <1>0, <2>1, ActiveIsRecord
    <3> QED BY <1>0, <2>1, <3>3, <3>4, <3>5, ActiveIsRecord
  <2>4. op' = [op EXCEPT ![o] = v]
    BY <1>4 DEF ProofCollected
  <2> HIDE DEF v
  <2>5. TameChange(v, w)
    BY <2>1, <2>2, <2>3 DEF TameChange, Same
  <2>6. Tame
    BY <1>0, <2>4, <2>5, OneMovesTamely
  <2>7. ASSUME NEW t \in Tab, NEW k \in Key, list[t][k] # None
        PROVE  list'[t][k] # None
    <3>1. CASE w.read = None
      BY <1>4, <2>7, <3>1 DEF ProofCollected
    <3>2. CASE w.read # None
      <4> DEFINE j == w.todo[1].key
      <4>1. list' = [list EXCEPT ![w.tab][j].parsed = done]
        BY <1>4, <3>2 DEF ProofCollected
      <4>2. list[w.tab][j] \in Record
        BY <1>0, <2>1, <2>2, <3>2 DEF Attached, TypeOK, Stored
      <4>3. [list[w.tab][j] EXCEPT !.parsed = done] \in Record
        <5>1. c \in Content
          BY <1>0, <2>1, <2>2 DEF WellFormed
        <5> QED BY <4>2, <5>1 DEF Record, Content
      <4>4. [list[w.tab][j] EXCEPT !.parsed = done] # None
        BY <4>3, NoneAssumption
      <4> QED BY <1>0, <2>2, <2>7, <4>1, <4>4 DEF TypeOK
    <3> QED BY <3>1, <3>2
  <2>8. Attached'
    BY <1>0, <1>1, <2>6, <2>7, ListKept
  <2>9. /\ UNCHANGED <<store, ideal, raced, selected, verdict, strayed>>
    BY <1>4 DEF ProofCollected, history
  <2>10. RawTextIsParsed' /\ ReadsSound' /\ HeldAlone' /\ ActsLikeAMap'
    BY <1>1, <2>6, <2>9, TameStep
  <2>11. VerifiesTheSelected' /\ BadgesAreOfTheSelected'
    BY <2>6, <2>9, PageStays DEF LibInv, BadgesAreOfTheSelected
  <2> QED BY <1>1, <2>8, <2>10, <2>11 DEF LibInv
<1>5. CASE NoProof(o)
  <2> DEFINE v == [w EXCEPT !.at = "verify", !.read = None]
  <2>1. w # Rest /\ w.at = "log" /\ op' = [op EXCEPT ![o] = v]
    BY <1>5 DEF NoProof
  <2>2. /\ v.at = "verify" /\ v.kind = w.kind /\ v.tab = w.tab
        /\ v.todo = w.todo
    BY <1>0, <2>1, ActiveIsRecord
  <2>3. TameChange(v, w)
    BY <2>1, <2>2 DEF TameChange, Same
  <2>4. Tame
    BY <1>0, <2>1, <2>3, OneMovesTamely
  <2> QED BY <1>1, <1>5, <2>4, QuietStep DEF NoProof, pages, history
<1>6. CASE Verified(o)
  <2>1. Tame
    BY <1>0, <1>6, EndIsTame DEF Verified
  <2>2. UNCHANGED <<store, list, selected, ideal, raced, strayed>>
    BY <1>6 DEF Verified, history
  <2>3. RawTextIsParsed' /\ ReadsSound' /\ HeldAlone' /\ ActsLikeAMap'
    BY <1>1, <2>1, <2>2, TameStep
  <2>4. Attached'
    BY <1>0, <1>1, <2>1, <2>2, ListKept
  <2>5. VerifiesTheSelected'
    BY <2>1, <2>2, PageStays DEF LibInv
  <2>6. BadgesAreOfTheSelected'
    <3>1. w # Rest /\ w.at = "verify"
          /\ verdict' = [verdict EXCEPT ![w.tab] = w.todo[1].key]
      BY <1>6 DEF Verified
    <3>2. w.kind = "reverify"
      BY <1>0, <3>1, ActiveIsRecord DEF WellFormed
    <3>3. w.tab \notin strayed => w.todo[1].key = selected[w.tab]
      BY <3>1, <3>2 DEF LibInv, VerifiesTheSelected
    <3> QED BY <1>0, <2>2, <3>1, <3>3 DEF LibInv, BadgesAreOfTheSelected,
                                          TypeOK
  <2> QED BY <1>1, <2>3, <2>4, <2>5, <2>6 DEF LibInv
<1>7. CASE VerifyFails(o)
  BY <1>0, <1>1, <1>7, EndIsTame, QuietStep DEF VerifyFails, pages, history
<1> QED BY <1>2, <1>3, <1>4, <1>5, <1>6, <1>7

\* What users do, except to re-verify.
LEMMA ActKeepsInv ==
    ASSUME LibInv
    PROVE  /\ \A t \in Tab \cup {None}, c \in Content : Save(t, c) => LibInv'
           /\ \A t \in Tab, k \in Key : Toggle(t, k) => LibInv'
           /\ \A t \in Tab, k \in Key : Pin(t, k) => LibInv'
           /\ \A t \in Tab, a, b \in Key : Move(t, a, b) => LibInv'
           /\ \A t \in Tab : Delete(t) => LibInv'
<1>0. TypeOK /\ OpsSound /\ Attached
  BY DEF LibInv
<1>1. ASSUME NEW t \in Tab \cup {None}, NEW c \in Content, Save(t, c)
      PROVE  LibInv'
  <2>1. TypeOK' /\ OpsSound'
    BY <1>0, <1>1, ActIsSound, SaveIsSound
  <2>2. PICK kind \in {"save", "import"} : \E todo :
            Begin(kind, "get", t, todo, None)
    BY <1>1 DEF Save
  <2>3. Tame
    BY <1>0, <2>2, BeginIsTame
  <2> QED BY <1>1, <2>1, <2>3, QuietStep DEF Save, pages
<1>2. ASSUME NEW t \in Tab, NEW k \in Key, Toggle(t, k) PROVE LibInv'
  <2>1. TypeOK' /\ OpsSound'
    BY <1>0, <1>2, ActIsSound
  <2>2. Tame
    BY <1>0, <1>2, StillIsTame DEF Toggle
  <2>3. Attached'
    BY <1>0, <1>2, <2>1, <2>2, ListKept DEF Toggle
  <2>4. PICK n : Turn(t, n)
    BY <1>2 DEF Toggle
  <2> QED BY <1>2, <2>1, <2>2, <2>3, <2>4, TurningStep DEF Toggle
<1>3. ASSUME NEW t \in Tab, NEW k \in Key, Pin(t, k) PROVE LibInv'
  <2>1. TypeOK' /\ OpsSound'
    BY <1>0, <1>3, ActIsSound
  <2>2. PICK todo : Begin("update", "get", t, todo, None)
    BY <1>3 DEF Pin
  <2>3. Tame
    BY <1>0, <2>2, BeginIsTame
  <2> QED BY <1>3, <2>1, <2>3, QuietStep DEF Pin, pages
<1>4. ASSUME NEW t \in Tab, NEW a \in Key, NEW b \in Key, Move(t, a, b)
      PROVE  LibInv'
  <2>1. TypeOK' /\ OpsSound'
    BY <1>0, <1>4, ActIsSound
  <2>2. PICK todo : Begin("update", "get", t, todo, None)
    BY <1>4 DEF Move
  <2>3. Tame
    BY <1>0, <2>2, BeginIsTame
  <2> QED BY <1>4, <2>1, <2>3, QuietStep DEF Move, pages
<1>5. ASSUME NEW t \in Tab, Delete(t) PROVE LibInv'
  <2>1. TypeOK' /\ OpsSound'
    BY <1>0, <1>5, ActIsSound
  <2>2. PICK todo : Begin("delete", "del", t, todo, None)
    BY <1>5 DEF Delete
  <2>3. Tame
    BY <1>0, <2>2, BeginIsTame
  <2>4. Attached'
    BY <1>0, <1>5, <2>1, <2>3, ListKept DEF Delete
  <2> QED BY <1>5, <2>1, <2>3, <2>4, TurningStep DEF Delete
<1> QED BY <1>1, <1>2, <1>3, <1>4, <1>5

\* An operation comes to hold the record it has read, or one it takes for it.
LEMMA ReadingKeepsInv ==
    ASSUME LibInv, TypeOK', OpsSound', NEW o \in 1..Ops, op[o] # Rest,
           NEW read \in Stored,
           op' = [op EXCEPT ![o] = [op[o] EXCEPT !.at = "set",
                                                 !.read = read]],
           read # None => read.rawText = read.parsed,
           UNCHANGED <<store, pages, ideal, strayed>>,
           raced \subseteq raced',
           op[o].todo[1].key \notin raced' =>
               /\ Holding(op[o].todo[1].key) \subseteq {o}
               /\ read = store[op[o].todo[1].key]
    PROVE  LibInv'
<1> DEFINE w == op[o]
           v == [w EXCEPT !.at = "set", !.read = read]
           k == w.todo[1].key
<1>1. w \in Operation
  BY DEF LibInv, TypeOK
<1>2. /\ v.at = "set" /\ v.kind = w.kind /\ v.tab = w.tab
      /\ v.todo = w.todo /\ v.read = read
  BY <1>1, ActiveIsRecord
<1>3. op'[o] = v /\ \A p \in 1..Ops : p # o => op'[p] = op[p]
  BY DEF LibInv, TypeOK
<1> HIDE DEF v
<1>4. RawTextIsParsed' /\ ActsLikeAMap' /\ BadgesAreOfTheSelected'
  BY DEF LibInv, RawTextIsParsed, ActsLikeAMap, BadgesAreOfTheSelected, pages
<1>5. Attached' /\ ReadsSound' /\ VerifiesTheSelected'
  <2>1. Attached'
    BY <1>2, <1>3 DEF LibInv, Attached, pages
  <2>2. ReadsSound'
    BY <1>2, <1>3 DEF LibInv, ReadsSound
  <2>3. VerifiesTheSelected'
    BY <1>2, <1>3 DEF LibInv, VerifiesTheSelected, pages
  <2> QED BY <2>1, <2>2, <2>3
<1>6. HeldAlone'
  <2>1. SUFFICES ASSUME NEW j \in Key, j \notin raced'
                 PROVE  /\ \A p, q \in Holding(j)' : p = q
                        /\ \A p \in Holding(j)' :
                              op'[p].at = "set" => op'[p].read = store'[j]
    BY DEF HeldAlone
  <2>2. \A p \in Holding(j)' : p \in 1..Ops /\ (p # o => p \in Holding(j))
    BY <1>3 DEF Holding
  <2>3. CASE j = k
    <3>1. \A p \in Holding(j)' : p = o
      BY <2>1, <2>2, <2>3
    <3>2. op'[o].read = store[j]
      BY <1>2, <1>3, <2>1, <2>3
    <3> QED BY <3>1, <3>2
  <2>4. CASE j # k
    <3>1. \A p \in Holding(j)' : p # o /\ p \in Holding(j)
      BY <1>2, <1>3, <2>2, <2>4 DEF Holding
    <3>2. /\ \A p, q \in Holding(j) : p = q
          /\ \A p \in Holding(j) : op[p].at = "set" => op[p].read = store[j]
      BY <2>1 DEF LibInv, HeldAlone
    <3> QED BY <1>3, <2>2, <3>1, <3>2
  <2> QED BY <2>3, <2>4
<1> QED BY <1>4, <1>5, <1>6 DEF LibInv

LEMMA GetKeepsInv ==
    ASSUME LibInv, NEW o \in 1..Ops, Get(o) \/ GetFails(o)
    PROVE  LibInv'
<1> DEFINE w == op[o]
           k == w.todo[1].key
<1>1. /\ TypeOK /\ w \in Operation /\ w # Rest
  BY DEF LibInv, TypeOK, Get, GetFails
<1>2. TypeOK' /\ OpsSound'
  BY StepIsSound DEF LibInv, Step
<1>3. k \in Key
  BY <1>1, FirstWrite
<1>4. CASE Get(o)
  <2>1. store[k] \in Stored
    BY <1>1, <1>3 DEF TypeOK
  <2>2. store[k] # None => store[k].rawText = store[k].parsed
    BY <1>3 DEF LibInv, RawTextIsParsed
  <2>3. op' = [op EXCEPT ![o] = [w EXCEPT !.at = "set", !.read = store[k]]]
    BY <1>4 DEF Get
  <2>4. raced \subseteq raced' /\ (k \notin raced' => Holding(k) \subseteq {o})
    BY <1>4 DEF Get
  <2> QED BY <1>1, <1>2, <1>4, <2>1, <2>2, <2>3, <2>4, ReadingKeepsInv
          DEF Get
<1>5. CASE GetFails(o)
  <2>1. op' = [op EXCEPT ![o] = [w EXCEPT !.at = "set", !.read = None]]
    BY <1>5 DEF GetFails
  <2>2. raced \subseteq raced' /\ k \in raced'
    BY <1>5 DEF GetFails
  <2> QED BY <1>1, <1>2, <1>5, <2>1, <2>2, ReadingKeepsInv
          DEF GetFails, Stored
<1> QED BY <1>4, <1>5

\* A page sets out to verify the record it is on.
LEMMA ReVerifyKeepsInv ==
    ASSUME LibInv, NEW t \in Tab, ReVerify(t)
    PROVE  LibInv'
<1> DEFINE k == selected[t]
           u == [Nothing EXCEPT !.content = list[t][k].parsed]
           v == [at |-> "log", kind |-> "reverify", tab |-> t,
                 todo |-> <<WriteOf(k, u)>>, read |-> list[t][k]]
<1>1. TypeOK' /\ OpsSound'
  BY ActIsSound DEF LibInv
<1>2. PICK o \in 1..Ops : op[o] = Rest /\ op' = [op EXCEPT ![o] = v]
  BY DEF ReVerify, Begin
<1>3. v.todo[1].key = k
  BY DEF WriteOf
<1>4. /\ v.at = "log" /\ v.kind = "reverify" /\ v.tab = t
      /\ v.read = list[t][k] /\ v # Rest
  BY DEF Rest
<1> HIDE DEF v
<1>5. op'[o] = v /\ \A p \in 1..Ops : p # o => op'[p] = op[p]
  BY <1>2 DEF LibInv, TypeOK
<1>6. /\ UNCHANGED <<store, list, selected, verdict, ideal, strayed>>
      /\ k # None /\ list[t][k] # None /\ raced \subseteq raced'
      /\ k \notin raced' => Holding(k) = {}
  BY DEF ReVerify, pages
<1>7. RawTextIsParsed' /\ ActsLikeAMap' /\ BadgesAreOfTheSelected'
  BY <1>6 DEF LibInv, RawTextIsParsed, ActsLikeAMap, BadgesAreOfTheSelected
<1>8. Attached' /\ ReadsSound' /\ VerifiesTheSelected'
  BY <1>3, <1>4, <1>5, <1>6 DEF LibInv, Attached, ReadsSound,
                                VerifiesTheSelected
<1>9. HeldAlone'
  <2>1. SUFFICES ASSUME NEW j \in Key, j \notin raced'
                 PROVE  /\ \A p, q \in Holding(j)' : p = q
                        /\ \A p \in Holding(j)' :
                              op'[p].at = "set" => op'[p].read = store'[j]
    BY DEF HeldAlone
  <2>2. \A p \in Holding(j)' : p \in 1..Ops /\ (p # o => p \in Holding(j))
    BY <1>5 DEF Holding
  <2>3. CASE j = k
    <3>1. \A p \in Holding(j)' : p = o
      BY <1>6, <2>1, <2>2, <2>3
    <3> QED BY <1>4, <1>5, <3>1
  <2>4. CASE j # k
    <3>1. \A p \in Holding(j)' : p # o /\ p \in Holding(j)
      BY <1>3, <1>5, <2>2, <2>4 DEF Holding
    <3>2. /\ \A p, q \in Holding(j) : p = q
          /\ \A p \in Holding(j) : op[p].at = "set" => op[p].read = store[j]
      BY <1>6, <2>1 DEF LibInv, HeldAlone
    <3> QED BY <1>5, <1>6, <2>2, <3>1, <3>2
  <2> QED BY <2>3, <2>4
<1> QED BY <1>1, <1>7, <1>8, <1>9 DEF LibInv

\* A key that is written, or deleted, by the only operation that holds it, or
\* by one while none does, is held by none afterwards.
LEMMA FreedKeepsHeld ==
    ASSUME LibInv, TypeOK', OpsSound', Tame, NEW k \in Key,
           \A j \in Key : j # k => store'[j] = store[j],
           raced \subseteq raced' \cup {k},
           k \notin raced' => Holding(k)' = {}
    PROVE  HeldAlone' /\ ReadsSound'
<1>1. HeldAlone'
  <2>1. SUFFICES ASSUME NEW j \in Key, j \notin raced'
                 PROVE  /\ \A p, q \in Holding(j)' : p = q
                        /\ \A p \in Holding(j)' :
                              op'[p].at = "set" => op'[p].read = store'[j]
    BY DEF HeldAlone
  <2>2. CASE j = k
    BY <2>1, <2>2
  <2>3. CASE j # k
    <3>1. j \notin raced
      BY <2>1, <2>3
    <3>2. /\ \A p, q \in Holding(j) : p = q
          /\ \A p \in Holding(j) : op[p].at = "set" => op[p].read = store[j]
      BY <3>1 DEF LibInv, HeldAlone
    <3> QED BY <2>3, <3>2, TameHolds
  <2> QED BY <2>2, <2>3
<1>2. ReadsSound'
  <2>1. SUFFICES ASSUME NEW o \in 1..Ops, op'[o].at = "set",
                        op'[o].read # None
                 PROVE  op'[o].read.rawText = op'[o].read.parsed
    BY DEF ReadsSound
  <2>2. op'[o] = op[o]
    BY <2>1 DEF Tame, TameChange
  <2> QED BY <2>1, <2>2 DEF LibInv, ReadsSound
<1> QED BY <1>1, <1>2

LEMMA DelKeepsInv ==
    ASSUME LibInv, NEW o \in 1..Ops, Del(o)
    PROVE  LibInv'
<1>1. TypeOK /\ OpsSound /\ Attached /\ op[o] \in Operation /\ op[o] # Rest
  BY DEF LibInv, TypeOK, Del
<1>2. TypeOK' /\ OpsSound'
  BY <1>1, StepIsSound DEF Step
<1>3. PICK k \in Key : k = op[o].todo[1].key
  BY <1>1, FirstWrite
<1>4. Tame
  BY <1>1, EndIsTame DEF Del
<1>5. /\ store' = [store EXCEPT ![k] = None]
      /\ ideal' = [ideal EXCEPT ![k] = None]
      /\ UNCHANGED <<list, selected, verdict, strayed>>
      /\ raced' = IF Holding(k) = {} THEN raced \ {k} ELSE raced \cup {k}
  BY <1>3 DEF Del
<1>6. k \notin raced' => Holding(k)' = {}
  BY <1>2, <1>3, <1>4, <1>5, TameHolds
<1>7. HeldAlone' /\ ReadsSound'
  <2>1. \A j \in Key : j # k => store'[j] = store[j]
    BY <1>1, <1>5 DEF TypeOK
  <2>2. raced \subseteq raced' \cup {k}
    BY <1>5
  <2> QED BY <1>2, <1>3, <1>4, <1>6, <2>1, <2>2, FreedKeepsHeld
<1>8. RawTextIsParsed' /\ ActsLikeAMap'
  BY <1>1, <1>3, <1>5 DEF LibInv, RawTextIsParsed, ActsLikeAMap, TypeOK
<1>9. Attached'
  BY <1>1, <1>2, <1>4, <1>5, ListKept
<1>10. VerifiesTheSelected' /\ BadgesAreOfTheSelected'
  BY <1>4, <1>5, PageStays DEF LibInv, BadgesAreOfTheSelected
<1> QED BY <1>2, <1>7, <1>8, <1>9, <1>10 DEF LibInv

\* What is made of a whole record is whole, and what is expected of it.
LEMMA WrittenIsIdeal ==
    ASSUME NEW w \in Operation, w # Rest, WellFormed(w), w.at = "set",
           w.read # None => w.read.rawText = w.read.parsed
    PROVE  LET new == Written(w.kind, w.read, w.todo[1].update) IN
           /\ new # None => new.rawText = new.parsed
           /\ new = Ideally(w.kind, w.read, w.todo[1].update)
           /\ new = None => w.read = None
<1> DEFINE u == w.todo[1].update
           new == Written(w.kind, w.read, u)
<1>1. w.read \in Stored /\ u \in Update
  BY ActiveIsRecord, FirstWrite
<1>2. w.kind \in {"save", "import"} =>
          /\ u.content \in Content /\ u.content # None
          /\ u.pinned = None /\ u.pinnedIndex = None
  BY LibraryAssumption DEF WellFormed, Content
<1>3. new \in Stored
  BY WrittenIsStored
<1> HIDE DEF u
<1>4. CASE w.kind \in {"save", "import"}
  <2>1. new = Saved(w.read, u.content)
    BY <1>4 DEF Written
  <2>2. new.rawText = new.parsed
    BY <2>1 DEF Saved
  <2>3. new = Ideally(w.kind, w.read, u)
    BY <1>2, <1>4, <2>1 DEF Saved, Ideally
  <2>4. new # None
    <3>1. CASE w.read = None
      <4>1. /\ new = [parsed |-> u.content, rawText |-> u.content,
                      pinned |-> FALSE, pinnedIndex |-> 0]
        BY <2>1, <3>1 DEF Saved
      <4>2. new \in Record
        BY <1>2, <1>4, <4>1 DEF Record
      <4> QED BY <4>2, NoneAssumption
    <3>2. CASE w.read # None
      BY <1>1, <1>2, <1>4, <2>1, <3>2, NoneAssumption
         DEF Saved, Stored, Record
    <3> QED BY <3>1, <3>2
  <2> QED BY <2>2, <2>3, <2>4 DEF u
<1>5. CASE w.kind \notin {"save", "import"} /\ w.read = None
  BY <1>5 DEF Written, Ideally, u
<1>6. CASE w.kind \notin {"save", "import"} /\ w.read # None
  <2>1. new = Merge(w.read, u)
    BY <1>6 DEF Written
  <2>2. new.rawText = new.parsed
    BY <1>6, <2>1 DEF Merge, Or
  <2>3. new = Ideally(w.kind, w.read, u)
    BY <1>6, <2>1 DEF Merge, Or, Ideally
  <2>4. new # None
    <3>1. w.read \in Record
      BY <1>1, <1>6 DEF Stored
    <3>2. new \in Record
      BY <1>1, <2>1, <3>1 DEF Merge, Or, Record, Update
    <3> QED BY <3>2, NoneAssumption
  <2> QED BY <2>2, <2>3, <2>4 DEF u
<1> QED BY <1>4, <1>5, <1>6

LEMMA SetKeepsInv ==
    ASSUME LibInv, NEW o \in 1..Ops, Set(o)
    PROVE  LibInv'
<1> DEFINE w == op[o]
           u == w.todo[1].update
           new == Written(w.kind, w.read, u)
<1>1. /\ TypeOK /\ OpsSound /\ Attached /\ w \in Operation /\ w # Rest
      /\ w.at = "set" /\ WellFormed(w)
  BY DEF LibInv, TypeOK, OpsSound, Set
<1>2. TypeOK' /\ OpsSound'
  BY <1>1, StepIsSound DEF Step
<1>3. PICK k \in Key : k = w.todo[1].key
  BY <1>1, FirstWrite
<1>4. /\ Tame /\ op'[o].at \in {"rest", "get", "show", "verify"}
      /\ op'[o].at = "get" => op'[o].kind = "update"
  <2>1. Continue(o)
    BY DEF Set
  <2> QED BY <1>1, <2>1, ContinueIsTame
<1>5. /\ store' = IF new = None THEN store ELSE [store EXCEPT ![k] = new]
      /\ ideal' = [ideal EXCEPT ![k] = Ideally(w.kind, ideal[k], u)]
      /\ UNCHANGED <<list, selected, verdict, strayed, raced>>
  BY <1>3 DEF Set
<1>6. /\ new # None => new.rawText = new.parsed
      /\ new = Ideally(w.kind, w.read, u)
      /\ new = None => w.read = None
  <2>1. w.read # None => w.read.rawText = w.read.parsed
    BY <1>1 DEF LibInv, ReadsSound
  <2> QED BY <1>1, <2>1, WrittenIsIdeal
<1> HIDE DEF new
<1>7. ASSUME k \notin raced
      PROVE  /\ w.read = store[k] /\ store[k] = ideal[k]
             /\ \A p \in Holding(k) : p = o
  <2>1. o \in Holding(k)
    BY <1>1, <1>3 DEF Holding
  <2> QED BY <1>1, <1>3, <1>7, <2>1 DEF LibInv, HeldAlone, ActsLikeAMap
<1>8. k \notin raced' => Holding(k)' = {}
  <2>1. o \notin Holding(k)'
    BY <1>4 DEF Holding
  <2> QED BY <1>2, <1>3, <1>4, <1>5, <1>7, <2>1, TameHolds
<1>9. HeldAlone' /\ ReadsSound'
  <2>1. \A j \in Key : j # k => store'[j] = store[j]
    BY <1>1, <1>5 DEF TypeOK
  <2>2. raced \subseteq raced' \cup {k}
    BY <1>5
  <2> QED BY <1>2, <1>4, <1>8, <2>1, <2>2, FreedKeepsHeld
<1>10. RawTextIsParsed'
  BY <1>1, <1>3, <1>5, <1>6 DEF LibInv, RawTextIsParsed, TypeOK
<1>11. ActsLikeAMap'
  <2>1. SUFFICES ASSUME NEW j \in Key, j \notin raced
                 PROVE  store'[j] = ideal'[j]
    BY <1>5 DEF ActsLikeAMap
  <2>2. CASE j # k
    BY <1>1, <1>5, <2>1, <2>2 DEF LibInv, ActsLikeAMap, TypeOK
  <2>3. CASE j = k
    <3>1. ideal'[k] = Ideally(w.kind, ideal[k], u)
      BY <1>1, <1>3, <1>5 DEF TypeOK
    <3>2. ideal'[k] = new
      BY <1>6, <1>7, <2>1, <2>3, <3>1
    <3>3. CASE new = None
      BY <1>5, <1>6, <1>7, <2>1, <2>3, <3>2, <3>3
    <3>4. CASE new # None
      BY <1>1, <1>3, <1>5, <2>3, <3>2, <3>4 DEF TypeOK
    <3> QED BY <3>3, <3>4
  <2> QED BY <2>2, <2>3
<1>12. Attached'
  BY <1>1, <1>2, <1>4, <1>5, ListKept
<1>13. VerifiesTheSelected' /\ BadgesAreOfTheSelected'
  BY <1>4, <1>5, PageStays DEF LibInv, BadgesAreOfTheSelected
<1> QED BY <1>2, <1>9, <1>10, <1>11, <1>12, <1>13 DEF LibInv

LEMMA NextKeepsInv ==
    ASSUME LibInv, [Next]_vars
    PROVE  LibInv'
<1>1. ASSUME NEW o \in 1..Ops, Step(o) PROVE LibInv'
  BY <1>1, GetKeepsInv, SetKeepsInv, DelKeepsInv, ShowKeepsInv,
     HandlerKeepsInv DEF Step
<1>2. ASSUME NEW t \in Tab, Reload(t) PROVE LibInv'
  BY <1>2, ReloadKeepsInv
<1>3. ASSUME NEW t \in Tab \cup {None}, NEW c \in Content, Save(t, c)
      PROVE  LibInv'
  BY <1>3, ActKeepsInv
<1>4. ASSUME NEW t \in Tab, NEW k \in Key, Toggle(t, k) \/ Pin(t, k)
      PROVE  LibInv'
  BY <1>4, ActKeepsInv
<1>5. ASSUME NEW t \in Tab, Delete(t) \/ ReVerify(t) PROVE LibInv'
  BY <1>5, ActKeepsInv, ReVerifyKeepsInv
<1>6. ASSUME NEW t \in Tab, NEW a \in Key, NEW b \in Key, Move(t, a, b)
      PROVE  LibInv'
  BY <1>6, ActKeepsInv
<1>7. CASE UNCHANGED vars
  <2>1. UNCHANGED <<store, list, selected, verdict, stale, op, acts, ideal,
                    raced, hasty, failed, strayed>>
    BY <1>7 DEF vars, pages, history
  <2>2. TypeOK' /\ OpsSound' /\ Attached'
    BY <2>1 DEF LibInv, TypeOK, OpsSound, Attached
  <2>3. RawTextIsParsed' /\ ReadsSound' /\ ActsLikeAMap'
    BY <2>1 DEF LibInv, RawTextIsParsed, ReadsSound, ActsLikeAMap
  <2>4. HeldAlone'
    BY <2>1 DEF LibInv, HeldAlone, Holding
  <2>5. VerifiesTheSelected' /\ BadgesAreOfTheSelected'
    BY <2>1 DEF LibInv, VerifiesTheSelected, BadgesAreOfTheSelected
  <2> QED BY <2>2, <2>3, <2>4, <2>5 DEF LibInv
<1> QED BY <1>1, <1>2, <1>3, <1>4, <1>5, <1>6, <1>7 DEF Next

-----------------------------------------------------------------------------
(***************************************************************************)
(* Order among the pinned. While users wait for one another and the        *)
(* database writes, one operation is at work at most, and what it still    *)
(* has to write leaves every pinned record a place of its own: that is so  *)
(* of a Move only once both of its writes are done, between which two      *)
(* records share a place. The pages not about to refresh show the pins as  *)
(* they are stored, so that what Pin and Move make of their lists fits the *)
(* store.                                                                  *)
(***************************************************************************)

\* Every pinned record of a store has a place of its own.
Tidy(s) ==
    \A a, b \in {k \in Key : s[k] # None /\ s[k].pinned} :
        a # b => s[a].pinnedIndex # s[b].pinnedIndex

\* A store once a write of an update is done.
After(s, write) ==
    [s EXCEPT ![write.key] = IF s[write.key] = None THEN None
                             ELSE Merge(s[write.key], write.update)]

\* What is left of an operation leaves the store tidy.
Orderly(w, s) ==
    LET u == w.todo[1].update IN
    /\ w.at = "set" => w.read = s[w.todo[1].key]
    /\ w.kind # "update" =>
          Tidy(s) /\ u.pinned = None /\ u.pinnedIndex = None
    /\ w.kind = "update" =>
          \/ Len(w.todo) = 1 /\ Tidy(After(s, w.todo[1]))
          \/ /\ Len(w.todo) = 2
             /\ Tidy(After(After(s, w.todo[1]), w.todo[2]))

\* A list shows the pins as they are stored.
SamePins(l, s) ==
    \A k \in Key :
        /\ l[k] = None <=> s[k] = None
        /\ s[k] # None => /\ l[k].pinned = s[k].pinned
                          /\ l[k].pinnedIndex = s[k].pinnedIndex

OneWorks == \A o, p \in 1..Ops : op[o] # Rest /\ op[p] # Rest => o = p

Working == \A o \in 1..Ops : op[o] # Rest => Orderly(op[o], store)

Resting == (\A o \in 1..Ops : op[o] = Rest) => Tidy(store)

Showing == \A t \in Tab \ stale : SamePins(list[t], store)

InOrder ==
    ~hasty /\ ~failed => OneWorks /\ Working /\ Resting /\ Showing

\* One operation goes on, or a first one begins.
LEMMA WorksOn ==
    ASSUME TypeOK, OneWorks, NEW o \in 1..Ops, NEW v,
           op' = [op EXCEPT ![o] = v],
           op[o] # Rest \/ \A p \in 1..Ops : op[p] = Rest,
           v # Rest => Orderly(v, store'), v = Rest => Tidy(store'),
           Showing'
    PROVE  InOrder'
<1>1. op'[o] = v /\ \A p \in 1..Ops : p # o => op'[p] = Rest
  BY DEF TypeOK, OneWorks
<1>2. OneWorks' /\ Working' /\ Resting'
  <2>1. OneWorks'
    BY <1>1 DEF OneWorks
  <2>2. Working'
    BY <1>1 DEF Working
  <2>3. Resting'
    BY <1>1 DEF Resting
  <2> QED BY <2>1, <2>2, <2>3
<1> QED BY <1>2 DEF InOrder

\* What the pages show fits as long as neither they nor the store change.
LEMMA StillShowing ==
    ASSUME Showing, UNCHANGED <<store, list>>, stale \subseteq stale'
    PROVE  Showing'
BY DEF Showing

\* An operation that stands elsewhere has the same to do.
LEMMA SameToDo ==
    ASSUME NEW v, NEW w, NEW s, Orderly(w, s),
           v.kind = w.kind, v.todo = w.todo, v.at # "set"
    PROVE  Orderly(v, s)
BY DEF Orderly

\* The store after a write, as an update left to itself makes it.
LEMMA UpdateIsDone ==
    ASSUME TypeOK, NEW w \in Operation, w # Rest, w.at = "set",
           WellFormed(w), w.kind = "update", w.read = store[w.todo[1].key],
           LET new == Written(w.kind, w.read, w.todo[1].update)
           IN  store' = IF new = None THEN store
                        ELSE [store EXCEPT ![w.todo[1].key] = new]
    PROVE  store' = After(store, w.todo[1])
<1> DEFINE k == w.todo[1].key
           u == w.todo[1].update
           new == Written(w.kind, w.read, u)
<1>1. k \in Key /\ new \in Stored
  BY FirstWrite, WrittenIsStored
<1>2. store \in [Key -> Stored]
  BY DEF TypeOK
<1>3. CASE store[k] = None
  <2>1. new = None
    BY <1>3 DEF Written
  <2>2. store' = store
    BY <2>1
  <2>3. After(store, w.todo[1]) = [store EXCEPT ![k] = None]
    BY <1>3 DEF After
  <2> QED BY <1>1, <1>2, <1>3, <2>2, <2>3
<1>4. CASE store[k] # None
  <2>1. new = Merge(store[k], u)
    BY <1>4 DEF Written
  <2>2. new # None
    <3>1. store[k] \in Record /\ u \in Update
      BY <1>1, <1>2, <1>4, FirstWrite DEF Stored
    <3>2. Merge(store[k], u) \in Record
      BY <3>1 DEF Merge, Or, Record, Update
    <3> QED BY <2>1, <3>2, NoneAssumption
  <2>3. store' = [store EXCEPT ![k] = Merge(store[k], u)]
    BY <2>1, <2>2
  <2> QED BY <1>4, <2>3 DEF After
<1> QED BY <1>3, <1>4

\* The store after any other write has the pins it had.
LEMMA PinsSurvive ==
    ASSUME TypeOK, NEW w \in Operation, w # Rest, w.at = "set",
           WellFormed(w), w.kind # "update", w.read = store[w.todo[1].key],
           Orderly(w, store),
           LET new == Written(w.kind, w.read, w.todo[1].update)
           IN  store' = IF new = None THEN store
                        ELSE [store EXCEPT ![w.todo[1].key] = new]
    PROVE  Tidy(store')
<1> DEFINE k == w.todo[1].key
           u == w.todo[1].update
           new == Written(w.kind, w.read, u)
<1>1. k \in Key /\ store \in [Key -> Stored]
  BY FirstWrite DEF TypeOK
<1>2. Tidy(store) /\ u.pinned = None /\ u.pinnedIndex = None
  BY DEF Orderly
<1>3. new # None /\ new.pinned =>
          /\ store[k] # None /\ store[k].pinned
          /\ store[k].pinnedIndex = new.pinnedIndex
  BY <1>2 DEF Written, Saved, Merge, Or
<1> HIDE DEF new
<1>4. ASSUME NEW j \in Key, store'[j] # None, store'[j].pinned
      PROVE  /\ store[j] # None /\ store[j].pinned
             /\ store[j].pinnedIndex = store'[j].pinnedIndex
  <2>1. store' = IF new = None THEN store ELSE [store EXCEPT ![k] = new]
    BY DEF new
  <2>2. store'[j] = IF new # None /\ j = k THEN new ELSE store[j]
    BY <1>1, <2>1
  <2> QED BY <1>3, <1>4, <2>2
<1>5. \A j \in Key : store'[j] # None /\ store'[j].pinned =>
          /\ store[j] # None /\ store[j].pinned
          /\ store[j].pinnedIndex = store'[j].pinnedIndex
  BY <1>4
<1> QED BY <1>2, <1>5 DEF Tidy

LEMMA SetKeepsOrder ==
    ASSUME LibInv, NEW o \in 1..Ops, Set(o),
           OneWorks, Working, Showing
    PROVE  InOrder'
<1> DEFINE w == op[o]
           k == w.todo[1].key
           new == Written(w.kind, w.read, w.todo[1].update)
<1>1. /\ TypeOK /\ w \in Operation /\ w # Rest
      /\ w.at = "set" /\ WellFormed(w)
  BY DEF LibInv, TypeOK, OpsSound, Set
<1>2. Orderly(w, store) /\ w.read = store[k]
  BY <1>1 DEF Working, Orderly
<1>3. store' = IF new = None THEN store ELSE [store EXCEPT ![k] = new]
  BY DEF Set
<1>4. Showing'
  <2>1. CASE new = None
    <3>1. UNCHANGED <<store, list>> /\ stale \subseteq stale'
      BY <1>3, <2>1 DEF Set
    <3> QED BY <3>1, StillShowing
  <2>2. CASE new # None
    <3>1. stale' = Tab
      BY <2>2 DEF Set, Broadcast
    <3> QED BY <3>1 DEF Showing
  <2> QED BY <2>1, <2>2
<1> HIDE DEF new
<1>5. CASE w.kind # "update"
  <2>1. Tidy(store')
    BY <1>1, <1>2, <1>3, <1>5, PinsSurvive DEF new
  <2>2. Len(w.todo) = 1 /\ ~(Len(w.todo) > 1)
    <3>1. Len(w.todo) = 1
      BY <1>1, <1>5, Zenon DEF WellFormed
    <3> QED BY <3>1
  <2>3. CASE w.kind \in {"reverify", "import"}
    <3> DEFINE v == [w EXCEPT !.at = IF w.kind = "import" THEN "show"
                                     ELSE "verify"]
    <3>1. op' = [op EXCEPT ![o] = v]
      BY <2>2, <2>3 DEF Set, Continue
    <3>2. /\ v.kind = w.kind /\ v.todo = w.todo
          /\ v.at \in {"show", "verify"}
      BY <1>1, ActiveIsRecord
    <3> HIDE DEF v
    <3>3. Orderly(v, store')
      BY <1>2, <1>5, <2>1, <3>2 DEF Orderly
    <3>4. v # Rest
      BY <3>2 DEF Rest
    <3> QED BY <1>1, <1>4, <3>1, <3>3, <3>4, WorksOn
  <2>4. CASE w.kind \notin {"reverify", "import"}
    <3>1. op' = [op EXCEPT ![o] = Rest]
      BY <2>2, <2>4 DEF Set, Continue, End
    <3> QED BY <1>1, <1>4, <2>1, <3>1, WorksOn
  <2> QED BY <2>3, <2>4
<1>6. CASE w.kind = "update" /\ Len(w.todo) = 1
  <2>1. store' = After(store, w.todo[1])
    BY <1>1, <1>2, <1>3, <1>6, UpdateIsDone DEF new
  <2>2. Tidy(store')
    BY <1>2, <1>6, <2>1 DEF Orderly
  <2>3. op' = [op EXCEPT ![o] = Rest]
    BY <1>6 DEF Set, Continue, End
  <2> QED BY <1>1, <1>4, <2>2, <2>3, WorksOn
<1>7. CASE w.kind = "update" /\ Len(w.todo) = 2
  <2> DEFINE v == [w EXCEPT !.at = "get", !.todo = Tail(w.todo)]
  <2>1. store' = After(store, w.todo[1])
    BY <1>1, <1>2, <1>3, <1>7, UpdateIsDone DEF new
  <2>2. op' = [op EXCEPT ![o] = v]
    <3>1. Len(w.todo) > 1
      BY <1>7
    <3>2. Continue(o)
      BY DEF Set
    <3> QED BY <3>1, <3>2, Zenon DEF Continue
  <2>3. /\ v.kind = "update" /\ v.at = "get" /\ v.todo = Tail(w.todo)
    BY <1>1, <1>7, ActiveIsRecord
  <2>4. Len(Tail(w.todo)) = 1 /\ Tail(w.todo)[1] = w.todo[2]
    <3>1. w.todo \in Seq(Write) /\ w.todo # <<>>
      BY <1>1, ActiveIsRecord
    <3> QED BY <1>7, <3>1, HeadTailProperties
  <2> HIDE DEF v
  <2>5. Tidy(After(After(store, w.todo[1]), w.todo[2]))
    BY <1>2, <1>7 DEF Orderly
  <2>6. Tidy(After(store', v.todo[1]))
    BY <2>1, <2>3, <2>4, <2>5
  <2>7. Orderly(v, store')
    BY <2>3, <2>4, <2>6 DEF Orderly
  <2>8. v # Rest
    BY <2>3 DEF Rest
  <2> QED BY <1>1, <1>4, <2>2, <2>7, <2>8, WorksOn
<1> QED BY <1>2, <1>5, <1>6, <1>7 DEF Orderly

\* The other steps of an operation, those the database does not refuse.
LEMMA StepKeepsOrder ==
    ASSUME LibInv, NEW o \in 1..Ops, Step(o), ~hasty', ~failed',
           OneWorks, Working, Showing
    PROVE  InOrder'
<1> DEFINE w == op[o]
<1>0. TypeOK /\ w \in Operation /\ w # Rest
  BY DEF LibInv, TypeOK, Step, Get, GetFails, Set, SetFails, Del, DelFails,
         Show, ProofCollected, NoProof, Verified, VerifyFails
<1>1. WellFormed(w) /\ Orderly(w, store)
  BY <1>0 DEF LibInv, OpsSound, Working
<1>2. CASE Get(o)
  <2> DEFINE k == w.todo[1].key
             v == [w EXCEPT !.at = "set", !.read = store[k]]
  <2>1. op' = [op EXCEPT ![o] = v]
    BY <1>2 DEF Get
  <2>2. /\ v.kind = w.kind /\ v.todo = w.todo
        /\ v.at = "set" /\ v.read = store[k]
    BY <1>0, ActiveIsRecord
  <2>3. UNCHANGED <<store, list, stale>>
    BY <1>2 DEF Get, pages
  <2> HIDE DEF v
  <2>4. Orderly(v, store')
    BY <1>1, <2>2, <2>3 DEF Orderly
  <2>5. v # Rest
    BY <2>2 DEF Rest
  <2>6. Showing'
    BY <2>3, StillShowing
  <2> QED BY <1>0, <2>1, <2>4, <2>5, <2>6, WorksOn
<1>3. CASE Set(o)
  BY <1>3, SetKeepsOrder
<1>4. CASE Del(o)
  <2> DEFINE k == w.todo[1].key
  <2>1. w.kind = "delete"
    BY <1>0, <1>1, <1>4 DEF Del, WellFormed
  <2>2. Tidy(store) /\ k \in Key
    BY <1>0, <1>1, <2>1, FirstWrite DEF Orderly
  <2>3. store' = [store EXCEPT ![k] = None]
    BY <1>4 DEF Del
  <2>4. \A j \in Key : store'[j] # None => store'[j] = store[j]
    BY <1>0, <2>2, <2>3 DEF TypeOK
  <2>5. Tidy(store')
    BY <2>2, <2>4 DEF Tidy
  <2>6. Showing'
    BY <1>4 DEF Del, Broadcast, Showing
  <2>7. op' = [op EXCEPT ![o] = Rest]
    BY <1>4 DEF Del, End
  <2> QED BY <1>0, <2>5, <2>6, <2>7, WorksOn
<1>5. CASE Show(o)
  <2> DEFINE t == w.tab
  <2>1. w.kind = "import" /\ t \in Tab
    BY <1>0, <1>1, <1>5 DEF Show, WellFormed
  <2>2. Tidy(store)
    BY <1>1, <2>1 DEF Orderly
  <2>3. /\ store' = store /\ list' = [list EXCEPT ![t] = store]
        /\ stale' = stale \ {t}
    BY <1>5 DEF Show, Listed
  <2>4. Showing'
    <3>1. \A s \in Tab : list'[s] = IF s = t THEN store ELSE list[s]
      BY <1>0, <2>1, <2>3 DEF TypeOK
    <3>2. SamePins(store, store)
      BY DEF SamePins
    <3> QED BY <2>3, <3>1, <3>2 DEF Showing
  <2>5. \A p \in 1..Ops : op'[p] = Rest
    <3>1. \A p \in 1..Ops : p # o => op[p] = Rest
      BY <1>0 DEF OneWorks
    <3>2. op' = [Detached(t) EXCEPT ![o] = Rest]
      BY <1>5 DEF Show
    <3>3. \A p \in 1..Ops : p # o => Detached(t)[p] = Rest
      BY <3>1 DEF Detached
    <3> QED BY <3>2, <3>3 DEF Detached
  <2> QED BY <2>2, <2>3, <2>4, <2>5
          DEF InOrder, OneWorks, Working, Resting
<1>6. CASE ProofCollected(o)
  <2> DEFINE c == w.todo[1].update.content
             k == w.todo[1].key
             done == [c EXCEPT !.proof = TRUE]
             first == [w.todo[1] EXCEPT !.update.content = done]
             todo == [w.todo EXCEPT ![1] = first]
             v == [w EXCEPT !.at = "get", !.read = None, !.todo = todo]
  <2>1. w.at = "log"
    BY <1>6 DEF ProofCollected
  <2>2. w.kind = "reverify" /\ w.tab \in Tab /\ k \in Key
    BY <1>0, <1>1, <2>1, FirstWrite, ActiveIsRecord DEF WellFormed
  <2>3. /\ w.todo \in Seq(Write) /\ 1 \in 1..Len(w.todo)
        /\ w.todo[1] \in Write /\ w.todo[1].update \in Update
    BY <1>0, ActiveIsRecord, FirstWrite
  <2>4. /\ first.update.pinned = w.todo[1].update.pinned
        /\ first.update.pinnedIndex = w.todo[1].update.pinnedIndex
    BY <2>3 DEF Write, Update
  <2> HIDE DEF first
  <2>5. todo[1] = first
    BY <2>3
  <2> HIDE DEF todo
  <2>6. v.kind = "reverify" /\ v.at = "get" /\ v.todo = todo
    BY <1>0, <2>2, ActiveIsRecord
  <2>7. op' = [op EXCEPT ![o] = v]
    BY <1>6 DEF ProofCollected, first, todo
  <2> HIDE DEF v
  <2>8. store' = store /\ stale' = stale
    BY <1>6 DEF ProofCollected
  <2>9. Orderly(v, store')
    BY <1>1, <2>2, <2>4, <2>5, <2>6, <2>8 DEF Orderly
  <2>10. Showing'
    <3>1. CASE w.read = None
      <4>1. list' = list
        BY <1>6, <3>1 DEF ProofCollected
      <4> QED BY <2>8, <4>1, StillShowing
    <3>2. CASE w.read # None
      <4> DEFINE new == [list[w.tab][k] EXCEPT !.parsed = done]
      <4>1. list' = [list EXCEPT ![w.tab][k].parsed = done]
        BY <1>6, <3>2 DEF ProofCollected
      <4>2. list[w.tab][k] \in Record
        BY <1>0, <2>1, <2>2, <3>2 DEF LibInv, Attached, TypeOK, Stored
      <4>3. /\ new \in Record
            /\ new.pinned = list[w.tab][k].pinned
            /\ new.pinnedIndex = list[w.tab][k].pinnedIndex
        <5>1. c \in Content
          BY <1>0, <1>1, <2>2 DEF WellFormed
        <5> QED BY <4>2, <5>1 DEF Record, Content
      <4>4. new # None /\ list[w.tab][k] # None
        BY <4>2, <4>3, NoneAssumption
      <4>5. \A t \in Tab, j \in Key :
                list'[t][j] = IF t = w.tab /\ j = k THEN new ELSE list[t][j]
        BY <1>0, <2>2, <4>1 DEF TypeOK
      <4> HIDE DEF new
      <4>6. ASSUME NEW t \in Tab \ stale PROVE SamePins(list'[t], store)
        <5>1. SamePins(list[t], store)
          BY DEF Showing
        <5>2. ASSUME NEW j \in Key
              PROVE  /\ list'[t][j] = None <=> list[t][j] = None
                     /\ list'[t][j].pinned = list[t][j].pinned
                     /\ list'[t][j].pinnedIndex = list[t][j].pinnedIndex
          <6>1. list'[t][j] = IF t = w.tab /\ j = k THEN new ELSE list[t][j]
            BY <4>5
          <6> QED BY <4>3, <4>4, <6>1
        <5> QED BY <5>1, <5>2 DEF SamePins
      <4>7. \A t \in Tab \ stale' : SamePins(list'[t], store')
        <5> HIDE DEF w
        <5> QED BY <2>8, <4>6
      <4> QED BY <4>7 DEF Showing
    <3> QED BY <3>1, <3>2
  <2>11. v # Rest
    BY <2>6 DEF Rest
  <2> QED BY <1>0, <2>7, <2>9, <2>10, <2>11, WorksOn
<1>7. CASE NoProof(o)
  <2> DEFINE v == [w EXCEPT !.at = "verify", !.read = None]
  <2>1. op' = [op EXCEPT ![o] = v]
    BY <1>7 DEF NoProof
  <2>2. v.kind = w.kind /\ v.todo = w.todo /\ v.at = "verify"
    BY <1>0, ActiveIsRecord
  <2>3. UNCHANGED <<store, list, stale>>
    BY <1>7 DEF NoProof, pages
  <2> HIDE DEF v
  <2>4. Orderly(v, store')
    BY <1>1, <2>2, <2>3, SameToDo
  <2>5. v # Rest
    BY <2>2 DEF Rest
  <2>6. Showing'
    BY <2>3, StillShowing
  <2> QED BY <1>0, <2>1, <2>4, <2>5, <2>6, WorksOn
<1>8. CASE Verified(o) \/ VerifyFails(o)
  <2>1. w.kind = "reverify"
    BY <1>0, <1>1, <1>8, ActiveIsRecord DEF Verified, VerifyFails, WellFormed
  <2>2. op' = [op EXCEPT ![o] = Rest] /\ UNCHANGED <<store, list, stale>>
    BY <1>8 DEF Verified, VerifyFails, End, pages
  <2>3. Tidy(store')
    BY <1>1, <2>1, <2>2 DEF Orderly
  <2>4. Showing'
    BY <2>2, StillShowing
  <2> QED BY <1>0, <2>2, <2>3, <2>4, WorksOn
<1>9. CASE GetFails(o) \/ SetFails(o) \/ DelFails(o)
  BY <1>9 DEF GetFails, SetFails, DelFails
<1> QED BY <1>2, <1>3, <1>4, <1>5, <1>6, <1>7, <1>8, <1>9 DEF Step

\* A page that refreshes shows what is stored.
LEMMA ReloadKeepsOrder ==
    ASSUME LibInv, NEW t \in Tab, Reload(t), ~failed',
           OneWorks, Working, Resting, Showing
    PROVE  InOrder'
<1>1. TypeOK /\ Refresh(t)
  BY DEF LibInv, Reload, RefreshFails
<1>2. /\ store' = store /\ list' = [list EXCEPT ![t] = store]
      /\ stale' = stale \ {t} /\ op' = Detached(t)
  BY <1>1 DEF Refresh, Listed
<1>3. Showing'
  <2>1. \A s \in Tab : list'[s] = IF s = t THEN store ELSE list[s]
    BY <1>1, <1>2 DEF TypeOK
  <2>2. SamePins(store, store)
    BY DEF SamePins
  <2> QED BY <1>2, <2>1, <2>2 DEF Showing
<1>4. ASSUME NEW p \in 1..Ops
      PROVE  /\ op'[p] = Rest <=> op[p] = Rest
             /\ op'[p] # Rest => Orderly(op'[p], store)
  <2> DEFINE v == [op[p] EXCEPT !.read = None]
  <2>1. CASE op[p] # Rest /\ op[p].at = "log" /\ op[p].tab = t
    <3>1. op'[p] = v
      BY <1>2, <2>1 DEF Detached
    <3>2. v.kind = op[p].kind /\ v.todo = op[p].todo /\ v.at = "log"
      BY <1>1, <2>1, ActiveIsRecord DEF TypeOK
    <3> HIDE DEF v
    <3>3. Orderly(v, store)
      BY <2>1, <3>2, SameToDo DEF Working
    <3>4. v # Rest
      BY <3>2 DEF Rest
    <3> QED BY <2>1, <3>1, <3>3, <3>4
  <2>2. CASE ~(op[p] # Rest /\ op[p].at = "log" /\ op[p].tab = t)
    <3>1. op'[p] = op[p]
      BY <1>2, <2>2 DEF Detached
    <3> QED BY <3>1 DEF Working
  <2> QED BY <2>1, <2>2
<1>5. OneWorks' /\ Working' /\ Resting'
  BY <1>2, <1>4 DEF OneWorks, Working, Resting
<1> QED BY <1>3, <1>5 DEF InOrder

\* A user who has waited finds the pages at rest; what he begins is in order.
LEMMA BeginKeepsOrder ==
    ASSUME TypeOK, OneWorks, Showing, UNCHANGED <<store, list, stale>>,
           NEW kind, NEW at, NEW t, NEW todo, NEW read,
           \A p \in 1..Ops : op[p] = Rest,
           Begin(kind, at, t, todo, read),
           Orderly([at |-> at, kind |-> kind, tab |-> t, todo |-> todo,
                    read |-> read], store)
    PROVE  InOrder'
<1> DEFINE v == [at |-> at, kind |-> kind, tab |-> t, todo |-> todo,
                 read |-> read]
<1>1. PICK o \in 1..Ops : op' = [op EXCEPT ![o] = v]
  BY DEF Begin
<1>2. v # Rest
  BY DEF Rest
<1>3. Orderly(v, store')
  BY DEF Orderly
<1>4. Showing'
  BY StillShowing
<1> HIDE DEF v
<1> QED BY <1>1, <1>2, <1>3, <1>4, WorksOn

\* Whatever is not an update leaves the pins alone.
LEMMA OthersAreOrderly ==
    ASSUME Tidy(store), NEW kind, kind # "update", NEW at, at # "set",
           NEW t, NEW k, NEW u, u.pinned = None, u.pinnedIndex = None,
           NEW read
    PROVE  Orderly([at |-> at, kind |-> kind, tab |-> t,
                    todo |-> <<WriteOf(k, u)>>, read |-> read], store)
BY DEF Orderly, WriteOf

\* A record is pinned after all that are, or is pinned no longer.
LEMMA PinIsOrderly ==
    ASSUME TypeOK, NEW t \in Tab, SamePins(list[t], store), Tidy(store),
           NEW k \in Key, list[t][k] # None
    PROVE  LET on == ~list[t][k].pinned
               u == [content |-> None, pinned |-> on,
                     pinnedIndex |-> IF on THEN Place(t) ELSE 0]
           IN  Orderly([at |-> "get", kind |-> "update", tab |-> t,
                        todo |-> <<WriteOf(k, u)>>, read |-> None], store)
<1> DEFINE on == ~list[t][k].pinned
           u == [content |-> None, pinned |-> on,
                 pinnedIndex |-> IF on THEN Place(t) ELSE 0]
           z == After(store, WriteOf(k, u))
<1>1. /\ store \in [Key -> Stored] /\ store[k] # None
      /\ store[k].pinned = list[t][k].pinned
  BY DEF TypeOK, SamePins
<1>2. on \in BOOLEAN
  OBVIOUS
<1>3. on # None /\ u.pinnedIndex # None
  <2>1. None \notin BOOLEAN /\ None \notin Nat
    BY LibraryAssumption
  <2>2. u.pinnedIndex \in Nat
    BY PlaceIsNat
  <2> HIDE DEF on, u
  <2> QED BY <1>2, <2>1, <2>2, Zenon
<1>4. /\ Merge(store[k], u).pinned = on
      /\ Merge(store[k], u).pinnedIndex = u.pinnedIndex
  BY <1>3 DEF Merge, Or
<1>5. \A j \in Key : z[j] = IF j = k THEN Merge(store[k], u) ELSE store[j]
  BY <1>1 DEF After, WriteOf
<1>6. ASSUME on, NEW j \in Key, store[j] # None, store[j].pinned
      PROVE  store[j].pinnedIndex # u.pinnedIndex
  <2>1. /\ j \in Pinned(t)
        /\ list[t][j].pinnedIndex = store[j].pinnedIndex
    BY <1>6 DEF SamePins, Pinned
  <2>2. list[t][j].pinnedIndex < Place(t) /\ Place(t) \in Nat
    BY <2>1, PlaceIsNat
  <2>3. store[j].pinnedIndex \in Nat
    BY <1>1, <1>6 DEF Stored, Record
  <2> QED BY <1>6, <2>1, <2>2, <2>3
<1> HIDE DEF u, z, on
<1>7. Tidy(z)
  BY <1>4, <1>5, <1>6 DEF Tidy
<1>8. /\ <<WriteOf(k, u)>>[1] = WriteOf(k, u) /\ Len(<<WriteOf(k, u)>>) = 1
  OBVIOUS
<1>9. Orderly([at |-> "get", kind |-> "update", tab |-> t,
               todo |-> <<WriteOf(k, u)>>, read |-> None], store)
  BY <1>7, <1>8 DEF Orderly, z
<1> QED BY <1>9 DEF u, on

\* Two pinned records that change places are both in one of their own.
LEMMA MoveIsOrderly ==
    ASSUME TypeOK, NEW t \in Tab, SamePins(list[t], store), Tidy(store),
           NEW a \in Key, NEW b \in Key, a # b, {a, b} \subseteq Pinned(t)
    PROVE  LET at(k) == [Nothing EXCEPT !.pinnedIndex =
                             list[t][k].pinnedIndex]
           IN  Orderly([at |-> "get", kind |-> "update", tab |-> t,
                        todo |-> <<WriteOf(a, at(b)), WriteOf(b, at(a))>>,
                        read |-> None], store)
<1> DEFINE ua == [Nothing EXCEPT !.pinnedIndex = list[t][b].pinnedIndex]
           ub == [Nothing EXCEPT !.pinnedIndex = list[t][a].pinnedIndex]
           y == After(store, WriteOf(a, ua))
           z == After(y, WriteOf(b, ub))
<1>1. /\ store \in [Key -> Stored]
      /\ store[a] \in Record /\ store[a].pinned
      /\ store[b] \in Record /\ store[b].pinned
      /\ store[a].pinnedIndex = list[t][a].pinnedIndex
      /\ store[b].pinnedIndex = list[t][b].pinnedIndex
  BY DEF TypeOK, Stored, SamePins, Pinned
<1>2. store[a] # None /\ store[b] # None
  BY <1>1, NoneAssumption
<1>3. store[a].pinnedIndex # None /\ store[b].pinnedIndex # None
  BY <1>1, LibraryAssumption DEF Record
<1>4. /\ ua.pinned = None /\ ua.pinnedIndex = store[b].pinnedIndex
      /\ ub.pinned = None /\ ub.pinnedIndex = store[a].pinnedIndex
  BY <1>1 DEF Nothing
<1> HIDE DEF ua, ub
<1>5. /\ Merge(store[a], ua).pinned
      /\ Merge(store[a], ua).pinnedIndex = store[b].pinnedIndex
      /\ Merge(store[b], ub).pinned
      /\ Merge(store[b], ub).pinnedIndex = store[a].pinnedIndex
  BY <1>1, <1>3, <1>4 DEF Merge, Or
<1>6. y = [store EXCEPT ![a] = Merge(store[a], ua)]
  BY <1>2 DEF After, WriteOf
<1>7. y[b] = store[b]
  BY <1>1, <1>6
<1> HIDE DEF y
<1>8. z = [y EXCEPT ![b] = Merge(store[b], ub)]
  BY <1>2, <1>7 DEF After, WriteOf
<1>9. \A j \in Key : z[j] = IF j = b THEN Merge(store[b], ub)
                            ELSE IF j = a THEN Merge(store[a], ua)
                            ELSE store[j]
  BY <1>1, <1>6, <1>8
<1> HIDE DEF z
<1>10. Tidy(z)
  BY <1>1, <1>2, <1>5, <1>9 DEF Tidy
<1> DEFINE todo == <<WriteOf(a, ua), WriteOf(b, ub)>>
<1>11. todo[1] = WriteOf(a, ua) /\ todo[2] = WriteOf(b, ub) /\ Len(todo) = 2
  OBVIOUS
<1> HIDE DEF todo
<1>12. Orderly([at |-> "get", kind |-> "update", tab |-> t, todo |-> todo,
                read |-> None], store)
  BY <1>10, <1>11 DEF Orderly, y, z
<1> QED BY <1>12 DEF todo, ua, ub

\* Whatever users do who wait.
LEMMA ActKeepsOrder ==
    ASSUME LibInv, Act, ~hasty', OneWorks, Working, Resting, Showing
    PROVE  /\ \A t \in Tab \cup {None}, c \in Content : Save(t, c) => InOrder'
           /\ \A t \in Tab, k \in Key : Toggle(t, k) => InOrder'
           /\ \A t \in Tab, k \in Key : Pin(t, k) => InOrder'
           /\ \A t \in Tab, a, b \in Key : Move(t, a, b) => InOrder'
           /\ \A t \in Tab : Delete(t) => InOrder'
           /\ \A t \in Tab : ReVerify(t) => InOrder'
<1>1. /\ \A o \in 1..Ops : op[o] = Rest
      /\ stale = {} /\ Tidy(store)
  BY DEF Act, AtRest, Resting
<1>2. TypeOK /\ \A t \in Tab : SamePins(list[t], store)
  BY <1>1 DEF LibInv, Showing
<1>3. Nothing.pinned = None /\ Nothing.pinnedIndex = None
  BY DEF Nothing
<1>4. ASSUME NEW c
      PROVE  LET u == [Nothing EXCEPT !.content = c]
             IN  u.pinned = None /\ u.pinnedIndex = None
  BY DEF Nothing
<1>5. ASSUME NEW t \in Tab \cup {None}, NEW c \in Content, Save(t, c)
      PROVE  InOrder'
  <2> DEFINE kind == IF t = None THEN "save" ELSE "import"
             u == [Nothing EXCEPT !.content = c]
             todo == <<WriteOf(storageKey(c), u)>>
  <2>1. Begin(kind, "get", t, todo, None) /\ UNCHANGED <<store, list, stale>>
    BY <1>5 DEF Save, pages
  <2>2. kind # "update" /\ u.pinned = None /\ u.pinnedIndex = None
    BY <1>4
  <2> HIDE DEF kind, u
  <2>3. Orderly([at |-> "get", kind |-> kind, tab |-> t, todo |-> todo,
                 read |-> None], store)
    BY <1>1, <2>2, OthersAreOrderly
  <2> HIDE DEF todo
  <2> QED BY <1>1, <1>2, <2>1, <2>3, BeginKeepsOrder
<1>6. ASSUME NEW t \in Tab, NEW k \in Key, Toggle(t, k) PROVE InOrder'
  <2>1. UNCHANGED <<store, list, stale, op>>
    BY <1>6 DEF Toggle
  <2> QED BY <2>1 DEF InOrder, OneWorks, Working, Resting, Showing
<1>7. ASSUME NEW t \in Tab, NEW k \in Key, Pin(t, k) PROVE InOrder'
  <2> DEFINE on == ~list[t][k].pinned
             u == [content |-> None, pinned |-> on,
                   pinnedIndex |-> IF on THEN Place(t) ELSE 0]
             todo == <<WriteOf(k, u)>>
  <2>1. /\ Begin("update", "get", t, todo, None) /\ list[t][k] # None
        /\ UNCHANGED <<store, list, stale>>
    BY <1>7 DEF Pin, pages
  <2>2. Orderly([at |-> "get", kind |-> "update", tab |-> t, todo |-> todo,
                 read |-> None], store)
    BY <1>1, <1>2, <2>1, PinIsOrderly
  <2> HIDE DEF todo
  <2> QED BY <1>1, <1>2, <2>1, <2>2, BeginKeepsOrder
<1>8. ASSUME NEW t \in Tab, NEW a \in Key, NEW b \in Key, Move(t, a, b)
      PROVE  InOrder'
  <2> DEFINE at(k) == [Nothing EXCEPT !.pinnedIndex = list[t][k].pinnedIndex]
             todo == <<WriteOf(a, at(b)), WriteOf(b, at(a))>>
  <2>1. /\ Begin("update", "get", t, todo, None)
        /\ a # b /\ {a, b} \subseteq Pinned(t)
        /\ UNCHANGED <<store, list, stale>>
    BY <1>8 DEF Move, pages
  <2>2. Orderly([at |-> "get", kind |-> "update", tab |-> t, todo |-> todo,
                 read |-> None], store)
    BY <1>1, <1>2, <2>1, MoveIsOrderly
  <2> HIDE DEF todo
  <2> QED BY <1>1, <1>2, <2>1, <2>2, BeginKeepsOrder
<1>9. ASSUME NEW t \in Tab, Delete(t) PROVE InOrder'
  <2> DEFINE todo == <<WriteOf(selected[t], Nothing)>>
  <2>1. /\ Begin("delete", "del", t, todo, None)
        /\ UNCHANGED <<store, list, stale>>
    BY <1>9 DEF Delete
  <2>2. Orderly([at |-> "del", kind |-> "delete", tab |-> t, todo |-> todo,
                 read |-> None], store)
    BY <1>1, <1>3, OthersAreOrderly
  <2> HIDE DEF todo
  <2> QED BY <1>1, <1>2, <2>1, <2>2, BeginKeepsOrder
<1>10. ASSUME NEW t \in Tab, ReVerify(t) PROVE InOrder'
  <2> DEFINE k == selected[t]
             u == [Nothing EXCEPT !.content = list[t][k].parsed]
             todo == <<WriteOf(k, u)>>
  <2>1. /\ Begin("reverify", "log", t, todo, list[t][k])
        /\ UNCHANGED <<store, list, stale>>
    BY <1>10 DEF ReVerify, pages
  <2>2. u.pinned = None /\ u.pinnedIndex = None
    BY <1>4
  <2> HIDE DEF u
  <2>3. Orderly([at |-> "log", kind |-> "reverify", tab |-> t, todo |-> todo,
                 read |-> list[t][k]], store)
    BY <1>1, <2>2, OthersAreOrderly
  <2> HIDE DEF todo
  <2> QED BY <1>1, <1>2, <2>1, <2>3, BeginKeepsOrder
<1> QED BY <1>5, <1>6, <1>7, <1>8, <1>9, <1>10

LEMMA InitIsInOrder == Init => InOrder
<1> SUFFICES ASSUME Init PROVE InOrder
  OBVIOUS
<1>1. Tidy(store)
  BY VisitsAssumption DEF Init, Tidy
<1>2. Showing
  BY DEF Init, Showing, SamePins
<1> QED BY <1>1, <1>2 DEF Init, InOrder, OneWorks, Working, Resting

LEMMA NextKeepsOrder ==
    ASSUME LibInv, InOrder, [Next]_vars
    PROVE  InOrder'
<1>1. CASE UNCHANGED vars
  <2>1. UNCHANGED <<store, list, stale, op, hasty, failed>>
    BY <1>1 DEF vars, pages, history
  <2> QED BY <2>1 DEF InOrder, OneWorks, Working, Resting, Showing
<1>2. CASE Next
  <2>1. (hasty => hasty') /\ (failed => failed')
    <3>1. ASSUME NEW o \in 1..Ops, Step(o)
          PROVE  hasty' = hasty /\ (failed' = failed \/ failed' = TRUE)
      BY <3>1 DEF Step, Get, GetFails, Set, SetFails, Del, DelFails, Show,
                  ProofCollected, NoProof, Verified, VerifyFails, history
    <3>2. ASSUME NEW t \in Tab, Reload(t)
          PROVE  hasty' = hasty /\ (failed' = failed \/ failed' = TRUE)
      BY <3>2 DEF Reload, Refresh, RefreshFails
    <3>3. CASE Act
      <4>1. failed => failed'
        BY <1>2, <3>1, <3>2, <3>3
           DEF Next, Save, Toggle, Pin, Delete, ReVerify, Move
      <4> QED BY <3>3, <4>1 DEF Act
    <3>4. CASE ~Act
      BY <1>2, <3>1, <3>2, <3>4
         DEF Next, Save, Toggle, Pin, Delete, ReVerify, Move
    <3> QED BY <3>3, <3>4
  <2>2. SUFFICES ASSUME ~hasty', ~failed' PROVE InOrder'
    BY DEF InOrder
  <2>3. OneWorks /\ Working /\ Resting /\ Showing
    BY <2>1, <2>2 DEF InOrder
  <2>4. ASSUME NEW o \in 1..Ops, Step(o) PROVE InOrder'
    BY <2>2, <2>3, <2>4, StepKeepsOrder
  <2>5. ASSUME NEW t \in Tab, Reload(t) PROVE InOrder'
    BY <2>2, <2>3, <2>5, ReloadKeepsOrder
  <2>6. CASE Act
    BY <1>2, <2>2, <2>3, <2>4, <2>5, <2>6, ActKeepsOrder DEF Next
  <2>7. CASE ~Act
    BY <1>2, <2>4, <2>5, <2>7
       DEF Next, Save, Toggle, Pin, Delete, ReVerify, Move
  <2> QED BY <2>6, <2>7
<1> QED BY <1>1, <1>2

-----------------------------------------------------------------------------
(***************************************************************************)
(* The theorems.                                                           *)
(***************************************************************************)

\* The inductive invariant holds of every behaviour of the library.
THEOREM LibraryInvariant == Spec => []LibInv
<1>1. Init => LibInv
  BY InitIsInv
<1>2. LibInv /\ [Next]_vars => LibInv'
  BY NextKeepsInv
<1> QED BY <1>1, <1>2, PTL DEF Spec

\* Records, lists and operations stay what library-bridge.mjs 60-116 and
\* artifacts.js make of them.
THEOREM LibraryTypes == Spec => []TypeOK
<1>1. LibInv => TypeOK
  BY DEF LibInv
<1> QED BY <1>1, LibraryInvariant, PTL

\* However saves, pins, deletions and collected proofs overlap, the file a
\* record exports is the artifact its badges are drawn from (library-bridge.mjs
\* 60-108, artifacts.js 429-434).
THEOREM ExportsAreWhole == Spec => []RawTextIsParsed
<1>1. LibInv => RawTextIsParsed
  BY DEF LibInv
<1> QED BY <1>1, LibraryInvariant, PTL

\* What no two operations go by at once is kept as a map would keep it, though
\* a read, the wait after it and the write are apart (library-bridge.mjs
\* 60-116).
THEOREM UnracedKeysActLikeAMap == Spec => []ActsLikeAMap
<1>1. LibInv => ActsLikeAMap
  BY DEF LibInv
<1> QED BY <1>1, LibraryInvariant, PTL

\* A page whose user has not turned away mid-verification shows the badges of
\* the record it is on (artifacts.js 207-229, 547-548).
THEOREM BadgesMatchTheRecord == Spec => []BadgesAreOfTheSelected
<1>1. LibInv => BadgesAreOfTheSelected
  BY DEF LibInv
<1> QED BY <1>1, LibraryInvariant, PTL

\* Users who wait for one another's operations and a database that writes
\* leave every pinned record in a place of its own, however many are pinned
\* and moved from however many pages (artifacts.js 472-488).
THEOREM PinnedInOrder == Spec => []PinOrder
<1>1. Init => InOrder
  BY InitIsInOrder
<1>2. LibInv /\ InOrder /\ [Next]_vars => InOrder'
  BY NextKeepsOrder
<1>3. InOrder => PinOrder
  BY DEF InOrder, Resting, Tidy, PinOrder, AtRest
<1> QED BY <1>1, <1>2, <1>3, LibraryInvariant, PTL DEF Spec
=============================================================================
