------------------------- MODULE SiblingOrderProofs -------------------------
(***************************************************************************)
(* What holds of the places of documents for every number of documents and *)
(* folders: where a move lands, what a restore passes, and how many        *)
(* placements the decimals of a value allow.                               *)
(***************************************************************************)
EXTENDS SiblingOrder, IdsProofs, FiniteSetTheorems

Typed ==
    /\ status \in [Docs -> {"absent", "active", "trashed", "bundled", "deleted"}]
    /\ parent_id \in [Docs -> Parents]
    /\ sort_order \in [Docs -> Int]
    /\ folder \in [Folders -> {"active", "trashed", "deleted"}]
    /\ placements \in 0..MaxPlacements

---------------------------------------------------------------------------
(***************************************************************************)
(* Siblings in order.                                                      *)
(***************************************************************************)
LEMMA PrecedesOrders ==
    ASSUME Typed, NEW d \in Docs, NEW e \in Docs
    PROVE  /\ ~(Precedes(d, e) /\ Precedes(e, d))
           /\ d # e => Precedes(d, e) \/ Precedes(e, d)
           /\ \A c \in Docs : Precedes(c, d) /\ Precedes(d, e) => Precedes(c, e)
BY DocsAssumption DEF Typed, Precedes

\* A member with the fewest before it, by a measure of the sets before.
LEMMA FewestExists ==
    ASSUME NEW S, S \subseteq Docs, S # {}, NEW B, B \in [S -> SUBSET S]
    PROVE  \E x \in S : \A y \in S : Cardinality(B[x]) <= Cardinality(B[y])
<1> DEFINE counts == {Cardinality(B[x]) : x \in S}
<1>1. IsFiniteSet(S)  BY DocsAssumption, FS_Subset
<1>2. \A x \in S : Cardinality(B[x]) \in Nat  BY <1>1, FS_Subset, FS_CardinalityType
<1>3. counts \subseteq Nat /\ counts # {}  BY <1>2
<1>4. Least(counts) \in counts /\ \A n \in counts : Least(counts) <= n  BY <1>3, LeastIn, LeastBelow
<1> QED  BY <1>4

\* A member that comes first in an order that its sets of predecessors B describe.
LEMMA FirstExists ==
    ASSUME NEW S, S \subseteq Docs, S # {}, NEW B, B \in [S -> SUBSET S],
           \A x, y \in S : x \in B[y] => B[x] \subseteq B[y] /\ x \notin B[x]
    PROVE  \E x \in S : B[x] = {}
<1>1. PICK x \in S : \A y \in S : Cardinality(B[x]) <= Cardinality(B[y])  BY FewestExists
<1>2. ASSUME NEW y \in B[x] PROVE FALSE
  <2>1. y \in S /\ B[y] \subseteq B[x] /\ y \notin B[y]  BY <1>2
  <2>2. IsFiniteSet(B[x])  BY DocsAssumption, FS_Subset
  <2>3. B[y] # B[x]  BY <1>2, <2>1
  <2>4. Cardinality(B[y]) < Cardinality(B[x])  BY <2>1, <2>2, <2>3, FS_Subset, FS_CardinalityType
  <2>5. Cardinality(B[x]) \in Nat /\ Cardinality(B[y]) \in Nat
    BY <2>1, <2>2, FS_Subset, FS_CardinalityType
  <2> QED  BY <1>1, <2>1, <2>4, <2>5
<1> QED  BY <1>2

LEMMA FirstIn ==
    ASSUME Typed, NEW S, S \subseteq Docs, S # {}
    PROVE  First(S) \in S /\ \A e \in S \ {First(S)} : Precedes(First(S), e)
<1> DEFINE B == [x \in S |-> {e \in S : Precedes(e, x)}]
<1>1. \A x, y \in S : x \in B[y] => B[x] \subseteq B[y] /\ x \notin B[x]  BY PrecedesOrders
<1>2. PICK x \in S : B[x] = {}
  <2>1. B \in [S -> SUBSET S]  OBVIOUS
  <2> HIDE DEF B
  <2> QED  BY <1>1, <2>1, FirstExists
<1>3. \A e \in S \ {x} : Precedes(x, e)  BY <1>2, PrecedesOrders
<1> QED  BY <1>3 DEF First

LEMMA LastIn ==
    ASSUME Typed, NEW S, S \subseteq Docs, S # {}
    PROVE  Last(S) \in S /\ \A e \in S \ {Last(S)} : Precedes(e, Last(S))
<1> DEFINE B == [x \in S |-> {e \in S : Precedes(x, e)}]
<1>1. \A x, y \in S : x \in B[y] => B[x] \subseteq B[y] /\ x \notin B[x]  BY PrecedesOrders
<1>2. PICK x \in S : B[x] = {}
  <2>1. B \in [S -> SUBSET S]  OBVIOUS
  <2> HIDE DEF B
  <2> QED  BY <1>1, <2>1, FirstExists
<1>3. \A e \in S \ {x} : Precedes(e, x)  BY <1>2, PrecedesOrders
<1> QED  BY <1>3 DEF Last

LEMMA SiblingsIn == ASSUME NEW p PROVE Siblings(p) \subseteq Docs
BY DEF Siblings

\* Two neighbours, Null at an end, split S: each member is at the lower one or before
\* it, or at the upper one or behind it.
AtMost(e, lower) == lower # Null /\ (e = lower \/ Precedes(e, lower))
AtLeast(e, upper) == upper # Null /\ (e = upper \/ Precedes(upper, e))
Splits(S, lower, upper) ==
    /\ lower \in S \cup {Null} /\ upper \in S \cup {Null}
    /\ lower # Null /\ upper # Null => Precedes(lower, upper)
    /\ \A e \in S : AtMost(e, lower) \/ AtLeast(e, upper)

LEMMA BehindLast ==
    ASSUME Typed, NEW S, S \subseteq Docs
    PROVE  Splits(S, Last(S), Null)
<1>1. CASE S = {}  BY <1>1 DEF Splits, Last
<1>2. CASE S # {}
  <2>1. Last(S) # Null  BY <1>2, LastIn, DocsAssumption
  <2> QED  BY <1>2, <2>1, LastIn DEF Splits, AtMost
<1> QED  BY <1>1, <1>2

\* _insertion_bounds gives neighbours.
LEMMA BoundsSplit ==
    ASSUME Typed, NEW S, S \subseteq Docs, NEW after \in S \cup {Null}, NEW before \in S \cup {Null},
           after # Null /\ before # Null => First({e \in S : Precedes(after, e)}) = before
    PROVE  /\ Splits(S, Lower(S, after, before), Upper(S, after, before))
           /\ after # Null => Lower(S, after, before) = after
           /\ before # Null => Upper(S, after, before) = before
           /\ after = Null /\ before = Null => Upper(S, after, before) = Null
<1> DEFINE rest == {e \in S : Precedes(after, e)}
           ahead == {e \in S : Precedes(e, before)}
<1>0. Null \notin S  BY DocsAssumption
<1>1. CASE after # Null /\ before # Null
  <2>1. rest # {}  BY <1>1 DEF First
  <2>2. before \in rest /\ \A e \in rest \ {before} : Precedes(before, e)
    BY <1>1, <2>1, FirstIn
  <2>3. \A e \in S : e \in rest \/ e = after \/ Precedes(e, after)
    BY <1>1, PrecedesOrders
  <2>4. Splits(S, after, before)  BY <1>1, <2>2, <2>3 DEF Splits, AtMost, AtLeast
  <2> QED  BY <1>1, <2>4 DEF Lower, Upper
<1>2. CASE after # Null /\ before = Null
  <2>1. \A e \in S : e \in rest \/ e = after \/ Precedes(e, after)
    BY <1>2, PrecedesOrders
  <2>2. Splits(S, after, First(rest))
    <3>1. CASE rest = {}  BY <1>2, <2>1, <3>1 DEF Splits, AtMost, First
    <3>2. CASE rest # {}
      <4>1. First(rest) \in rest /\ \A e \in rest \ {First(rest)} : Precedes(First(rest), e)
        BY <3>2, FirstIn
      <4> HIDE DEF rest
      <4>2. First(rest) \in S /\ Precedes(after, First(rest))  BY <4>1 DEF rest
      <4> QED  BY <1>0, <1>2, <2>1, <4>1, <4>2 DEF Splits, AtMost, AtLeast
    <3> QED  BY <3>1, <3>2
  <2> QED  BY <1>2, <2>2 DEF Lower, Upper
<1>3. CASE after = Null /\ before # Null
  <2>1. \A e \in S : e \in ahead \/ e = before \/ Precedes(before, e)
    BY <1>3, PrecedesOrders
  <2>2. Splits(S, Last(ahead), before)
    <3>1. CASE ahead = {}  BY <1>3, <2>1, <3>1 DEF Splits, AtLeast, Last
    <3>2. CASE ahead # {}
      <4>1. Last(ahead) \in ahead /\ \A e \in ahead \ {Last(ahead)} : Precedes(e, Last(ahead))
        BY <3>2, LastIn
      <4> HIDE DEF ahead
      <4>2. Last(ahead) \in S /\ Precedes(Last(ahead), before)  BY <4>1 DEF ahead
      <4> QED  BY <1>0, <1>3, <2>1, <4>1, <4>2 DEF Splits, AtMost, AtLeast
    <3> QED  BY <3>1, <3>2
  <2> QED  BY <1>3, <2>2 DEF Lower, Upper
<1>4. CASE after = Null /\ before = Null
  BY <1>4, BehindLast DEF Lower, Upper
<1> QED  BY <1>1, <1>2, <1>3, <1>4

---------------------------------------------------------------------------
(***************************************************************************)
(* Values.                                                                 *)
(***************************************************************************)
\* Two members of S have values in f that differ by g or more.
Spaced(S, f, g) == \A d, e \in S : d # e => f[d] - f[e] >= g \/ f[e] - f[d] >= g

LEMMA MiddleLies ==
    ASSUME NEW x \in Int, NEW y \in Int, NEW g \in Nat, y - x >= 2 * g
    PROVE  Middle(x, y) \in Int /\ Middle(x, y) - x >= g /\ y - Middle(x, y) >= g
BY DEF Middle

LEMMA BetweenType ==
    ASSUME Typed, NEW lower \in Docs \cup {Null}, NEW upper \in Docs \cup {Null}
    PROVE  Between(lower, upper) \in Int
<1>1. \A x, y \in Int : Middle(x, y) \in Int  BY DEF Middle
<1> QED  BY <1>1, StepAssumption DEF Typed, Between

\* The value between two neighbours keeps half of their distance from all on each side.
LEMMA BetweenLies ==
    ASSUME Typed, NEW S, S \subseteq Docs, NEW lower, NEW upper, Splits(S, lower, upper),
           NEW g \in Nat \ {0}, g <= Step,
           lower # Null /\ upper # Null => Spaced(S, sort_order, 2 * g)
    PROVE  \A e \in S : /\ AtMost(e, lower) => Between(lower, upper) - sort_order[e] >= g
                        /\ AtLeast(e, upper) => sort_order[e] - Between(lower, upper) >= g
<1> DEFINE f == sort_order
           v == Between(lower, upper)
<1>1. \A e \in S : e \in Docs /\ f[e] \in Int  BY DEF Typed
<1>2. \A e \in S : /\ AtMost(e, lower) => lower \in S /\ f[e] <= f[lower]
                   /\ AtLeast(e, upper) => upper \in S /\ f[upper] <= f[e]
  BY <1>1 DEF AtMost, AtLeast, Precedes, Splits
<1>3. /\ lower # Null => lower \in S /\ v \in Int /\ v - f[lower] >= g
      /\ upper # Null => upper \in S /\ v \in Int /\ f[upper] - v >= g
  <2>1. CASE lower # Null /\ upper # Null
    <3>1. lower \in S /\ upper \in S /\ f[lower] <= f[upper] /\ lower # upper
      BY <1>1, <2>1, DocsAssumption DEF Splits, Precedes
    <3>2. f[upper] - f[lower] >= 2 * g
      BY <1>1, <2>1, <3>1 DEF Spaced
    <3>3. v = Middle(f[lower], f[upper])  BY <2>1 DEF Between
    <3> QED  BY <1>1, <3>1, <3>2, <3>3, MiddleLies
  <2>2. CASE lower # Null /\ upper = Null
    <3>1. lower \in S /\ v = f[lower] + Step  BY <2>2 DEF Splits, Between
    <3> QED  BY <1>1, <2>2, <3>1, StepAssumption
  <2>3. CASE lower = Null /\ upper # Null
    <3>1. upper \in S /\ v = f[upper] - Step  BY <2>3 DEF Splits, Between
    <3> QED  BY <1>1, <2>3, <3>1, StepAssumption
  <2>4. CASE lower = Null /\ upper = Null  BY <2>4
  <2> QED  BY <2>1, <2>2, <2>3, <2>4
<1> HIDE DEF v, f
<1>4. ASSUME NEW e \in S, AtMost(e, lower) PROVE v - f[e] >= g
  BY <1>1, <1>2, <1>3, <1>4 DEF AtMost
<1>5. ASSUME NEW e \in S, AtLeast(e, upper) PROVE f[e] - v >= g
  BY <1>1, <1>2, <1>3, <1>5 DEF AtLeast
<1> QED  BY <1>4, <1>5 DEF v, f

\* A value that a collision at v calls for: between those below and those above.
LEMMA RestoreOrderLies ==
    ASSUME Typed, NEW S, S \subseteq Docs, NEW v \in Int
    PROVE  /\ RestoreOrder(S, v) \in Int
           /\ \A e \in S : /\ sort_order[e] < v => sort_order[e] < RestoreOrder(S, v)
                           /\ sort_order[e] > v => sort_order[e] > RestoreOrder(S, v)
<1> DEFINE f == sort_order
           below == {e \in S : f[e] < v}
           above == {e \in S : f[e] > v}
           o == RestoreOrder(S, v)
<1>1. \A e \in S : e \in Docs /\ f[e] \in Int /\ e # Null  BY DocsAssumption DEF Typed
<1>2. CASE \A e \in S : f[e] # v
  BY <1>1, <1>2 DEF RestoreOrder
<1>3. CASE (\E e \in S : f[e] = v) /\ above = {}
  <2>1. o = Between(Last(S), Null)  BY <1>3 DEF RestoreOrder
  <2>2. Last(S) \in S /\ \A e \in S \ {Last(S)} : Precedes(e, Last(S))  BY <1>3, LastIn
  <2>3. o = f[Last(S)] + Step  BY <1>1, <2>1, <2>2 DEF Between
  <2>4. \A e \in S : f[e] <= f[Last(S)]  BY <1>1, <2>2 DEF Precedes
  <2>5. \A e \in S : f[e] < o  BY <1>1, <2>2, <2>3, <2>4, StepAssumption
  <2>6. o \in Int  BY <1>1, <2>2, <2>3, StepAssumption
  <2>7. \A e \in S : ~(f[e] > v)  BY <1>3
  <2> QED  BY <2>5, <2>6, <2>7
<1>4. CASE (\E e \in S : f[e] = v) /\ above # {}
  <2> DEFINE lo == Last(below)
             hi == First(above)
  <2>1. o = Between(lo, hi)  BY <1>4 DEF RestoreOrder
  <2>2. hi \in above /\ \A e \in above \ {hi} : Precedes(hi, e)  BY <1>4, FirstIn
  <2>3. \A e \in above : f[hi] <= f[e]  BY <1>1, <2>2 DEF Precedes
  <2>4. hi \in S /\ f[hi] > v /\ f[hi] \in Int /\ hi # Null  BY <1>1, <2>2
  <2> HIDE DEF hi
  <2>5. o \in Int /\ o < f[hi] /\ \A e \in below : f[e] < o
    <3>1. CASE below = {}
      <4>1. o = f[hi] - Step  BY <2>1, <2>4, <3>1 DEF Last, Between
      <4> QED  BY <2>4, <3>1, <4>1, StepAssumption
    <3>2. CASE below # {}
      <4>1. lo \in below /\ \A e \in below \ {lo} : Precedes(e, lo)  BY <3>2, LastIn
      <4>2. \A e \in below : f[e] <= f[lo]  BY <1>1, <4>1 DEF Precedes
      <4>3. lo \in S /\ f[lo] < v /\ f[lo] \in Int /\ lo # Null  BY <1>1, <4>1
      <4> HIDE DEF lo
      <4>4. o = Middle(f[lo], f[hi])  BY <2>1, <2>4, <4>3 DEF Between
      <4>5. f[hi] - f[lo] >= 2 * 1  BY <2>4, <4>3
      <4>6. o \in Int /\ o - f[lo] >= 1 /\ f[hi] - o >= 1  BY <2>4, <4>3, <4>4, <4>5, MiddleLies
      <4> HIDE DEF o
      <4>7. f[lo] < o /\ o < f[hi]  BY <2>4, <4>3, <4>6
      <4>8. ASSUME NEW e \in below PROVE f[e] < o
        <5>1. f[e] \in Int /\ f[e] <= f[lo]  BY <1>1, <4>2, <4>8
        <5> QED  BY <4>3, <4>6, <4>7, <5>1
      <4> QED  BY <4>6, <4>7, <4>8
    <3> QED  BY <3>1, <3>2
  <2> HIDE DEF o
  <2>6. ASSUME NEW e \in S, f[e] > v PROVE f[e] > o
    <3>1. f[hi] <= f[e] /\ f[e] \in Int  BY <1>1, <2>3, <2>6
    <3> QED  BY <2>4, <2>5, <3>1
  <2> QED  BY <2>5, <2>6 DEF o
<1> QED  BY <1>2, <1>3, <1>4

---------------------------------------------------------------------------
(***************************************************************************)
(* Steps.                                                                  *)
(***************************************************************************)
LEMMA CreateDoes ==
    ASSUME Typed, NEW d \in Docs, NEW p \in Parents, Create(d, p)
    PROVE  Typed'
<1>1. Last(Siblings(p)) \in Docs \cup {Null}
  BY BehindLast, SiblingsIn DEF Splits
<1>2. Between(Last(Siblings(p)), Null) \in Int  BY <1>1, BetweenType
<1> QED  BY <1>2 DEF Create, Typed

LEMMA MoveDoes ==
    ASSUME Typed, NEW d \in Docs, NEW p \in Parents, NEW after \in Docs \cup {Null},
           NEW before \in Docs \cup {Null}, Move(d, p, after, before)
    PROVE  LET S == Siblings(p) \ {d}
               lower == Lower(S, after, before)
               upper == Upper(S, after, before) IN
           /\ Typed' /\ Splits(S, lower, upper) /\ S \subseteq Docs
           /\ after # Null => lower = after
           /\ before # Null => upper = before
           /\ after = Null /\ before = Null => upper = Null
           /\ sort_order' = [sort_order EXCEPT ![d] = Between(lower, upper)]
<1> DEFINE S == Siblings(p) \ {d}
           lower == Lower(S, after, before)
           upper == Upper(S, after, before)
<1>1. S \subseteq Docs  BY SiblingsIn
<1>2. /\ after \in S \cup {Null} /\ before \in S \cup {Null}
      /\ after # Null /\ before # Null => First({e \in S : Precedes(after, e)}) = before
      /\ sort_order' = [sort_order EXCEPT ![d] = Between(lower, upper)]
  BY DEF Move
<1> HIDE DEF S
<1>3. /\ Splits(S, lower, upper)
      /\ after # Null => lower = after
      /\ before # Null => upper = before
      /\ after = Null /\ before = Null => upper = Null
  BY <1>1, <1>2, BoundsSplit
<1>4. lower \in Docs \cup {Null} /\ upper \in Docs \cup {Null}  BY <1>1, <1>3 DEF Splits
<1> HIDE DEF lower, upper
<1>5. Between(lower, upper) \in Int  BY <1>4, BetweenType
<1>6. /\ parent_id' = [parent_id EXCEPT ![d] = p] /\ UNCHANGED <<status, folder>>
      /\ placements < MaxPlacements /\ placements' = placements + 1
  BY DEF Move
<1>7. Typed'  BY <1>2, <1>5, <1>6, StepAssumption DEF Typed
<1> QED  BY <1>1, <1>2, <1>3, <1>7 DEF S, lower, upper

LEMMA RestoreDoes ==
    ASSUME Typed, NEW d \in Docs, Restore(d)
    PROVE  Typed'
<1>1. Last(Siblings(Null)) \in Docs \cup {Null}
  BY BehindLast, SiblingsIn DEF Splits
<1>2. Between(Last(Siblings(Null)), Null) \in Int  BY <1>1, BetweenType
<1>3. RestoreOrder(Siblings(parent_id[d]), sort_order[d]) \in Int
  BY RestoreOrderLies, SiblingsIn DEF Typed
<1>4. Null \in Parents  BY DEF Parents
<1>5. \E p \in Parents, v \in Int : parent_id' = [parent_id EXCEPT ![d] = p]
                                  /\ sort_order' = [sort_order EXCEPT ![d] = v]
  <2>1. parent_id[d] \in Parents /\ parent_id = [parent_id EXCEPT ![d] = parent_id[d]]  BY DEF Typed
  <2> QED  BY <1>2, <1>3, <1>4, <2>1 DEF Restore
<1>6. /\ status' = [status EXCEPT ![d] = "active"] /\ UNCHANGED folder
      /\ placements < MaxPlacements /\ placements' = placements + 1
  BY DEF Restore
<1> QED  BY <1>5, <1>6, StepAssumption DEF Typed

LEMMA ShiftDoes ==
    ASSUME Typed, NEW f \in Folders, TrashFolder(f) \/ RestoreFolder(f) \/ PurgeFolder(f)
    PROVE  Typed' /\ UNCHANGED <<parent_id, sort_order, placements>>
           /\ \A d \in Docs : parent_id[d] = Null => status'[d] = status[d]
BY DocsAssumption DEF TrashFolder, RestoreFolder, PurgeFolder, Shift, Typed

LEMMA StepTyped == Typed /\ [Next]_vars => Typed'
<1> SUFFICES ASSUME Typed, [Next]_vars PROVE Typed'
  OBVIOUS
<1>1. ASSUME NEW d \in Docs, NEW p \in Parents, NEW after \in Docs \cup {Null},
             NEW before \in Docs \cup {Null}, Move(d, p, after, before)
      PROVE  Typed'
  BY <1>1, MoveDoes
<1>2. ASSUME NEW d \in Docs, Trash(d) PROVE Typed'
  BY <1>2 DEF Trash, Typed
<1>3. CASE UNCHANGED vars
  BY <1>3 DEF vars, Typed
<1> QED  BY <1>1, <1>2, <1>3, CreateDoes, RestoreDoes, ShiftDoes DEF Next

LEMMA InitTyped == Init => Typed
BY StepAssumption DEF Init, Typed, Parents

---------------------------------------------------------------------------
(***************************************************************************)
(* Theorems.                                                               *)
(***************************************************************************)
\* A placement halves the distance between two values at most.  Room[n] is what is left
\* after n: there is such a sequence if and only if 2^MaxPlacements <= Step, when
\* Room[n] = 2^(MaxPlacements - n) is one.
Halves(room) ==
    \A n \in 0..MaxPlacements : /\ room[n] \in Nat \ {0} /\ room[n] <= Step
                                /\ n < MaxPlacements => 2 * room[n + 1] <= room[n]
Enough == \E room \in [0..MaxPlacements -> Nat \ {0}] : Halves(room)
Room == CHOOSE room \in [0..MaxPlacements -> Nat \ {0}] : Halves(room)

RootSpaced == Spaced(Siblings(Null), sort_order, Room[placements])
RootInv == Typed /\ RootSpaced

LEMMA RoomHalves == Enough => Halves(Room)
BY DEF Enough, Room

LEMMA RoomLeft ==
    ASSUME Enough, Typed, Typed', placements' \in {placements, placements + 1}
    PROVE  /\ Room[placements] \in Nat \ {0} /\ Room[placements'] \in Nat \ {0}
           /\ Room[placements] <= Step /\ Room[placements'] <= Room[placements]
           /\ placements' # placements => 2 * Room[placements'] <= Room[placements]
<1>1. placements \in 0..MaxPlacements /\ placements' \in 0..MaxPlacements  BY DEF Typed
<1>2. \A n \in 0..MaxPlacements : /\ Room[n] \in Nat \ {0} /\ Room[n] <= Step
                                  /\ n < MaxPlacements => 2 * Room[n + 1] <= Room[n]
  BY RoomHalves DEF Halves
<1>3. CASE placements' = placements  BY <1>1, <1>2, <1>3
<1>4. CASE placements' = placements + 1
  <2>1. placements < MaxPlacements  BY <1>1, <1>4, StepAssumption
  <2>2. 2 * Room[placements'] <= Room[placements]  BY <1>1, <1>2, <1>4, <2>1
  <2>3. Room[placements] \in Nat \ {0} /\ Room[placements'] \in Nat \ {0} /\ Room[placements] <= Step
    BY <1>1, <1>2
  <2> QED  BY <2>2, <2>3
<1> QED  BY <1>3, <1>4

\* Members that keep their values keep their distance.
LEMMA SpacedKept ==
    ASSUME NEW S, NEW T \in SUBSET S, NEW f, NEW h, NEW g \in Nat, NEW k \in Nat, k <= g,
           \A e \in S : f[e] \in Int, \A e \in T : h[e] = f[e], Spaced(S, f, g)
    PROVE  Spaced(T, h, k)
<1> SUFFICES ASSUME NEW d \in T, NEW e \in T, d # e PROVE h[d] - h[e] >= k \/ h[e] - h[d] >= k
  BY DEF Spaced
<1>1. f[d] \in Int /\ f[e] \in Int /\ h[d] = f[d] /\ h[e] = f[e]  OBVIOUS
<1>2. f[d] - f[e] >= g \/ f[e] - f[d] >= g  BY DEF Spaced
<1> QED  BY <1>1, <1>2

\* One that comes with distance from all the others.
LEMMA SpacedJoined ==
    ASSUME NEW S, NEW d, d \notin S, NEW f, NEW h, NEW g \in Nat, NEW k \in Nat, k <= g,
           \A e \in S : f[e] \in Int /\ h[e] = f[e], Spaced(S, f, g), h[d] \in Int,
           \A e \in S : h[d] - f[e] >= k \/ f[e] - h[d] >= k
    PROVE  Spaced(S \cup {d}, h, k)
<1>1. Spaced(S, h, k)  BY SpacedKept
<1> SUFFICES ASSUME NEW x \in S \cup {d}, NEW y \in S \cup {d}, x # y
             PROVE  h[x] - h[y] >= k \/ h[y] - h[x] >= k
  BY DEF Spaced
<1>2. CASE x \in S /\ y \in S  BY <1>1, <1>2 DEF Spaced
<1>3. CASE x = d /\ y \in S  BY <1>3
<1>4. CASE y = d /\ x \in S  BY <1>4
<1> QED  BY <1>2, <1>3, <1>4

\* A step on documents below a folder, or one that takes a document from the top level.
LEMMA RootKept ==
    ASSUME Enough, Typed, Typed', RootSpaced, placements' \in {placements, placements + 1},
           Siblings(Null)' \subseteq Siblings(Null),
           \A e \in Siblings(Null)' : sort_order'[e] = sort_order[e]
    PROVE  RootSpaced'
<1> DEFINE S == Siblings(Null)
           T == Siblings(Null)'
           g == Room[placements]
           k == Room[placements']
<1>1. g \in Nat /\ k \in Nat /\ k <= g  BY RoomLeft
<1>2. \A e \in S : sort_order[e] \in Int  BY SiblingsIn DEF Typed
<1>3. Spaced(S, sort_order, g)  BY DEF RootSpaced
<1>4. T \in SUBSET S /\ \A e \in T : sort_order'[e] = sort_order[e]  OBVIOUS
<1> HIDE DEF S, T, g, k
<1>5. Spaced(T, sort_order', k)  BY <1>1, <1>2, <1>3, <1>4, SpacedKept
<1> QED  BY <1>5 DEF RootSpaced, T, k

\* A document comes to the top level between two neighbours.
LEMMA RootJoined ==
    ASSUME Enough, Typed, Typed', RootSpaced, placements' \in {placements, placements + 1},
           NEW d \in Docs, NEW lower, NEW upper, Splits(Siblings(Null) \ {d}, lower, upper),
           placements' # placements \/ upper = Null,
           sort_order' = [sort_order EXCEPT ![d] = Between(lower, upper)],
           Siblings(Null)' = (Siblings(Null) \ {d}) \cup {d}
    PROVE  RootSpaced'
<1> DEFINE S == Siblings(Null) \ {d}
           g == Room[placements]
           k == Room[placements']
           v == Between(lower, upper)
<1>1. g \in Nat \ {0} /\ k \in Nat \ {0} /\ k <= g /\ k <= Step
      /\ (placements' # placements => 2 * k <= g)
  <2>1. g \in Nat \ {0} /\ k \in Nat \ {0} /\ k <= g /\ g <= Step
        /\ (placements' # placements => 2 * k <= g)
    BY RoomLeft
  <2> HIDE DEF g, k
  <2> QED  BY <2>1, StepAssumption
<1>2. S \subseteq Docs /\ d \notin S /\ \A e \in S : sort_order[e] \in Int  BY SiblingsIn DEF Typed
<1>3. Spaced(S, sort_order, g)  BY DEF RootSpaced, Spaced
<1>4. lower \in Docs \cup {Null} /\ upper \in Docs \cup {Null}  BY <1>2 DEF Splits
<1>5. v \in Int /\ sort_order'[d] = v /\ \A e \in S : sort_order'[e] = sort_order[e]
  BY <1>2, <1>4, BetweenType DEF Typed
<1>6. ASSUME lower # Null, upper # Null PROVE Spaced(S, sort_order, 2 * k)
  <2>1. 2 * k <= g /\ 2 * k \in Nat  BY <1>1, <1>6
  <2> HIDE DEF S, g, k
  <2> QED  BY <1>1, <1>2, <1>3, <2>1, SpacedKept
<1>7. Splits(S, lower, upper) /\ Siblings(Null)' = S \cup {d}  OBVIOUS
<1> HIDE DEF S, g, k, v
<1>8. \A e \in S : AtMost(e, lower) \/ AtLeast(e, upper)  BY <1>7 DEF Splits
<1>9. \A e \in S : v - sort_order[e] >= k \/ sort_order[e] - v >= k
  BY <1>1, <1>2, <1>6, <1>7, <1>8, BetweenLies DEF v
<1>10. Spaced(S \cup {d}, sort_order', k)
  BY <1>1, <1>2, <1>3, <1>5, <1>9, SpacedJoined
<1> QED  BY <1>7, <1>10 DEF RootSpaced, k

LEMMA StepSpaced == ASSUME Enough PROVE RootInv /\ [Next]_vars => RootInv'
<1> SUFFICES ASSUME Typed, RootSpaced, [Next]_vars PROVE RootSpaced'
  BY StepTyped DEF RootInv
<1>0. Typed' /\ Null \notin Folders /\ placements \in Int
  BY StepTyped, DocsAssumption DEF Typed
<1>1. ASSUME NEW d \in Docs, NEW p \in Parents, Create(d, p) PROVE RootSpaced'
  <2>1. /\ status[d] = "absent" /\ status' = [status EXCEPT ![d] = "active"]
        /\ parent_id' = [parent_id EXCEPT ![d] = p] /\ placements' = placements
        /\ sort_order' = [sort_order EXCEPT ![d] = Between(Last(Siblings(p)), Null)]
    BY <1>1 DEF Create
  <2>2. CASE p = Null
    <3>1. Siblings(Null) \ {d} = Siblings(Null) /\ Siblings(Null)' = (Siblings(Null) \ {d}) \cup {d}
      BY <2>1, <2>2 DEF Siblings, Typed
    <3>2. Splits(Siblings(Null) \ {d}, Last(Siblings(Null)), Null)  BY <3>1, BehindLast, SiblingsIn
    <3> QED  BY <1>0, <2>1, <2>2, <3>1, <3>2, RootJoined
  <2>3. CASE p # Null
    <3>1. Siblings(Null)' \subseteq Siblings(Null) /\ \A e \in Siblings(Null)' : sort_order'[e] = sort_order[e]
      BY <2>1, <2>3 DEF Siblings, Typed
    <3> QED  BY <1>0, <2>1, <3>1, RootKept
  <2> QED  BY <2>2, <2>3
<1>2. ASSUME NEW d \in Docs, NEW p \in Parents, NEW after \in Docs \cup {Null},
             NEW before \in Docs \cup {Null}, Move(d, p, after, before)
      PROVE  RootSpaced'
  <2> DEFINE lower == Lower(Siblings(p) \ {d}, after, before)
             upper == Upper(Siblings(p) \ {d}, after, before)
  <2>1. /\ status[d] = "active" /\ status' = status /\ parent_id' = [parent_id EXCEPT ![d] = p]
        /\ placements' = placements + 1
    BY <1>2 DEF Move
  <2>2. Splits(Siblings(p) \ {d}, lower, upper) /\ sort_order' = [sort_order EXCEPT ![d] = Between(lower, upper)]
    BY <1>2, MoveDoes
  <2> HIDE DEF lower, upper
  <2>3. CASE p = Null
    <3>1. Siblings(Null)' = (Siblings(Null) \ {d}) \cup {d}  BY <2>1, <2>3 DEF Siblings, Typed
    <3>2. placements' \in {placements, placements + 1} /\ placements' # placements  BY <1>0, <2>1
    <3>3. Splits(Siblings(Null) \ {d}, lower, upper)  BY <2>2, <2>3
    <3>4. sort_order' = [sort_order EXCEPT ![d] = Between(lower, upper)]  BY <2>2
    <3> QED  BY <1>0, <3>1, <3>2, <3>3, <3>4, RootJoined
  <2>4. CASE p # Null
    <3>1. Siblings(Null)' \subseteq Siblings(Null) /\ \A e \in Siblings(Null)' : sort_order'[e] = sort_order[e]
      BY <2>1, <2>2, <2>4 DEF Siblings, Typed
    <3> QED  BY <1>0, <2>1, <3>1, RootKept
  <2> QED  BY <2>3, <2>4
<1>3. ASSUME NEW d \in Docs, Trash(d) PROVE RootSpaced'
  <2>1. Siblings(Null)' \subseteq Siblings(Null) /\ sort_order' = sort_order /\ placements' = placements
    BY <1>3 DEF Trash, Siblings, Typed
  <2> QED  BY <1>0, <2>1, RootKept
<1>4. ASSUME NEW d \in Docs, Restore(d) PROVE RootSpaced'
  <2> DEFINE p == parent_id[d]
  <2>1. status[d] = "trashed" /\ status' = [status EXCEPT ![d] = "active"] /\ placements' = placements + 1
    BY <1>4 DEF Restore
  <2>2. CASE p \in Folders /\ folder[p] = "active"
    <3>1. parent_id' = parent_id /\ \E v : sort_order' = [sort_order EXCEPT ![d] = v]
      BY <1>4, <2>2 DEF Restore
    <3>2. Siblings(Null)' \subseteq Siblings(Null) /\ \A e \in Siblings(Null)' : sort_order'[e] = sort_order[e]
      BY <1>0, <2>1, <2>2, <3>1 DEF Siblings, Typed
    <3> QED  BY <1>0, <2>1, <3>2, RootKept
  <2>3. CASE ~(p \in Folders /\ folder[p] = "active")
    <3>1. /\ sort_order' = [sort_order EXCEPT ![d] = Between(Last(Siblings(Null)), Null)]
          /\ parent_id' = [parent_id EXCEPT ![d] = Null]
      BY <1>4, <2>3 DEF Restore
    <3>2. Siblings(Null) \ {d} = Siblings(Null) /\ Siblings(Null)' = (Siblings(Null) \ {d}) \cup {d}
      BY <2>1, <3>1 DEF Siblings, Typed
    <3>3. Splits(Siblings(Null) \ {d}, Last(Siblings(Null)), Null)  BY <3>2, BehindLast, SiblingsIn
    <3> QED  BY <1>0, <2>1, <3>1, <3>2, <3>3, RootJoined
  <2> QED  BY <2>2, <2>3
<1>5. ASSUME NEW f \in Folders, TrashFolder(f) \/ RestoreFolder(f) \/ PurgeFolder(f) PROVE RootSpaced'
  <2>1. Siblings(Null)' \subseteq Siblings(Null) /\ sort_order' = sort_order /\ placements' = placements
    BY <1>5, ShiftDoes DEF Siblings
  <2> QED  BY <1>0, <2>1, RootKept
<1>6. CASE UNCHANGED vars
  BY <1>0, <1>6, RootKept DEF vars, Siblings
<1> QED  BY <1>1, <1>2, <1>3, <1>4, <1>5, <1>6 DEF Next

LEMMA InitSpaced == Init => RootInv
<1> SUFFICES ASSUME Init PROVE RootSpaced
  BY InitTyped DEF RootInv
<1>1. Siblings(Null) = {}  BY DEF Init, Siblings
<1> QED  BY <1>1 DEF RootSpaced, Spaced

\* A document moved at the top level lands exactly where it was asked to.
Lands(d, after, before) ==
    LET S == Siblings(Null)' \ {d} IN
    /\ after # Null => Precedes(after, d)'
    /\ before # Null => Precedes(d, before)'
    /\ after # Null => ~\E e \in S : (Precedes(after, e) /\ Precedes(e, d))'
    /\ before # Null => ~\E e \in S : (Precedes(d, e) /\ Precedes(e, before))'
    /\ after = Null /\ before = Null => \A e \in S : Precedes(e, d)'

LEMMA MoveLandsThere ==
    ASSUME Enough, RootInv, NEW d \in Docs, NEW after \in Docs \cup {Null}, NEW before \in Docs \cup {Null},
           Move(d, Null, after, before)
    PROVE  Lands(d, after, before)
<1> DEFINE S == Siblings(Null) \ {d}
           lower == Lower(S, after, before)
           upper == Upper(S, after, before)
           g == Room[placements']
           v == Between(lower, upper)
<1>0. Typed /\ RootSpaced /\ Null \in Parents  BY DEF RootInv, Parents
<1>1. /\ Typed' /\ Splits(S, lower, upper) /\ S \subseteq Docs
      /\ after # Null => lower = after
      /\ before # Null => upper = before
      /\ after = Null /\ before = Null => upper = Null
      /\ sort_order' = [sort_order EXCEPT ![d] = v]
  BY <1>0, MoveDoes
<1>2. /\ status[d] = "active" /\ status' = status /\ parent_id' = [parent_id EXCEPT ![d] = Null]
      /\ placements' = placements + 1
  BY DEF Move
<1>3. Siblings(Null)' \ {d} = S  BY <1>0, <1>2 DEF Siblings, Typed
<1>4. g \in Nat \ {0} /\ g <= Step /\ 2 * g <= Room[placements] /\ Room[placements] \in Nat
  <2>1. placements' # placements  BY <1>0, <1>2 DEF Typed
  <2>2. g \in Nat \ {0} /\ Room[placements] \in Nat /\ g <= Room[placements] /\ Room[placements] <= Step
        /\ 2 * g <= Room[placements]
    BY <1>0, <1>1, <1>2, <2>1, RoomLeft
  <2> HIDE DEF g
  <2> QED  BY <2>2, StepAssumption
<1> HIDE DEF g
<1>5. \A e \in S : sort_order[e] \in Int /\ sort_order'[e] = sort_order[e] /\ e \in Docs /\ e # Null
  BY <1>0, <1>1, DocsAssumption DEF Typed
<1>6. Spaced(S, sort_order, 2 * g)
  <2>1. Spaced(Siblings(Null), sort_order, Room[placements])  BY <1>0 DEF RootSpaced
  <2>2. \A e \in Siblings(Null) : sort_order[e] \in Int  BY <1>0, SiblingsIn DEF Typed
  <2>3. 2 * g \in Nat  BY <1>4
  <2> QED  BY <1>4, <2>1, <2>2, <2>3, SpacedKept
<1> HIDE DEF S, lower, upper, v
<1>7. v \in Int /\ sort_order'[d] = v /\ d \in Docs
  <2>1. lower \in Docs \cup {Null} /\ upper \in Docs \cup {Null}  BY <1>1 DEF Splits
  <2>2. v \in Int  BY <1>0, <2>1, BetweenType DEF v
  <2> QED  BY <1>0, <1>1, <2>2 DEF Typed
<1>8. \A e \in S : /\ AtMost(e, lower) => v - sort_order[e] >= g
                   /\ AtLeast(e, upper) => sort_order[e] - v >= g
  BY <1>0, <1>1, <1>4, <1>6, BetweenLies DEF v
<1>9. \A e \in S : /\ AtMost(e, lower) => sort_order'[e] < sort_order'[d]
                   /\ AtLeast(e, upper) => sort_order'[d] < sort_order'[e]
  BY <1>4, <1>5, <1>7, <1>8
<1>10. \A e \in S : /\ AtMost(e, lower) => Precedes(e, d)' /\ ~Precedes(d, e)'
                    /\ AtLeast(e, upper) => Precedes(d, e)' /\ ~Precedes(e, d)'
  BY <1>5, <1>7, <1>9 DEF Precedes
<1>11. \A e, c \in S : Precedes(e, c)' <=> Precedes(e, c)  BY <1>5 DEF Precedes
<1>12. \A e \in S : AtMost(e, lower) \/ AtLeast(e, upper)  BY <1>1 DEF Splits
<1>13. ASSUME after # Null
       PROVE  Precedes(after, d)' /\ ~\E e \in S : (Precedes(after, e) /\ Precedes(e, d))'
  <2>1. lower = after /\ after \in S  BY <1>1, <1>13 DEF Splits
  <2>2. Precedes(after, d)'  BY <1>10, <1>13, <2>1 DEF AtMost
  <2>3. ASSUME NEW e \in S, Precedes(after, e)', Precedes(e, d)' PROVE FALSE
    <3>1. AtMost(e, lower)  BY <1>10, <1>12, <2>3
    <3>2. Precedes(after, e)  BY <1>11, <2>1, <2>3
    <3> QED  BY <1>0, <1>5, <2>1, <3>1, <3>2, PrecedesOrders DEF AtMost
  <2> QED  BY <2>2, <2>3
<1>14. ASSUME before # Null
       PROVE  Precedes(d, before)' /\ ~\E e \in S : (Precedes(d, e) /\ Precedes(e, before))'
  <2>1. upper = before /\ before \in S  BY <1>1, <1>14 DEF Splits
  <2>2. Precedes(d, before)'  BY <1>10, <1>14, <2>1 DEF AtLeast
  <2>3. ASSUME NEW e \in S, Precedes(d, e)', Precedes(e, before)' PROVE FALSE
    <3>1. AtLeast(e, upper)  BY <1>10, <1>12, <2>3
    <3>2. Precedes(e, before)  BY <1>11, <2>1, <2>3
    <3> QED  BY <1>0, <1>5, <2>1, <3>1, <3>2, PrecedesOrders DEF AtLeast
  <2> QED  BY <2>2, <2>3
<1>15. ASSUME after = Null, before = Null PROVE \A e \in S : Precedes(e, d)'
  BY <1>1, <1>10, <1>12, <1>15 DEF AtLeast
<1> QED  BY <1>3, <1>13, <1>14, <1>15 DEF Lands
\* move_document and restore_bundle renumber nobody: as long as the decimals of a value
\* suffice for the moves and restores there have been (2^MaxPlacements <= Step: 59 of
\* them for the 10^18 units of the code, even if all fall between the same two
\* documents), no two documents of the top level share a value.
THEOREM RootsDistinct == ASSUME Enough PROVE Spec => []RootDistinct
<1>1. RootInv => RootDistinct
  <2> SUFFICES ASSUME RootInv, NEW d \in Siblings(Null), NEW e \in Siblings(Null), d # e
               PROVE  sort_order[d] # sort_order[e]
    BY DEF RootDistinct
  <2>1. Typed /\ Room[placements] \in Nat \ {0}
    BY RoomHalves DEF RootInv, Typed, Halves
  <2>2. sort_order[d] \in Int /\ sort_order[e] \in Int  BY <2>1, SiblingsIn DEF Typed
  <2>3. \/ sort_order[d] - sort_order[e] >= Room[placements]
        \/ sort_order[e] - sort_order[d] >= Room[placements]
    BY DEF RootInv, RootSpaced, Spaced
  <2> QED  BY <2>1, <2>2, <2>3
<1> QED  BY <1>1, InitSpaced, StepSpaced, PTL DEF Spec

\* As long as the decimals suffice, move_document puts a document exactly where the
\* request asks: next to the sibling behind which, and the one before which, it is to
\* stand, and behind all the others when it names neither.
THEOREM MovesLand == ASSUME Enough PROVE Spec => MoveLands
<1> DEFINE Landing == \A d \in Docs, after, before \in Docs \cup {Null} :
                         Move(d, Null, after, before) => Lands(d, after, before)
<1>1. RootInv /\ [Next]_vars => [Landing]_vars
  BY MoveLandsThere
<1>2. [Landing]_vars <=>
      [\A d \in Docs, after, before \in Docs \cup {Null} :
          Move(d, Null, after, before) =>
             LET S == Siblings(Null)' \ {d} IN
             /\ after # Null => Precedes(after, d)'
             /\ before # Null => Precedes(d, before)'
             /\ after # Null => ~\E e \in S : (Precedes(after, e) /\ Precedes(e, d))'
             /\ before # Null => ~\E e \in S : (Precedes(d, e) /\ Precedes(e, before))'
             /\ after = Null /\ before = Null => \A e \in S : Precedes(e, d)']_vars
  BY DEF Lands
<1> QED  BY <1>1, <1>2, InitSpaced, StepSpaced, PTL DEF Spec, MoveLands

\* restore_bundle: a document that comes back under its old parent passes no sibling,
\* however many decimals are left.
THEOREM RestoresNearby == Spec => RestoreNearby
<1>1. ASSUME Typed, NEW d \in Docs, Restore(d), parent_id[d] \in Folders, parent_id'[d] = parent_id[d],
             NEW e \in Siblings(parent_id[d])
      PROVE  /\ sort_order[e] < sort_order[d] => sort_order'[e] < sort_order'[d]
             /\ sort_order[e] > sort_order[d] => sort_order'[e] > sort_order'[d]
  <2> DEFINE S == Siblings(parent_id[d])
             o == RestoreOrder(S, sort_order[d])
  <2>1. folder[parent_id[d]] = "active"
    <3>1. SUFFICES ASSUME folder[parent_id[d]] # "active" PROVE FALSE
      OBVIOUS
    <3>2. parent_id' = [parent_id EXCEPT ![d] = Null]  BY <1>1, <3>1 DEF Restore
    <3> QED  BY <1>1, <3>2, DocsAssumption DEF Typed
  <2>2. sort_order' = [sort_order EXCEPT ![d] = o]  BY <1>1, <2>1 DEF Restore
  <2>3. status[d] = "trashed"  BY <1>1 DEF Restore
  <2>4. d # e /\ e \in Docs  BY <1>1, <2>3 DEF Siblings
  <2>5. S \subseteq Docs /\ sort_order[d] \in Int  BY <1>1, SiblingsIn DEF Typed
  <2>6. /\ sort_order[e] < sort_order[d] => sort_order[e] < o
        /\ sort_order[e] > sort_order[d] => sort_order[e] > o
    BY <1>1, <2>5, RestoreOrderLies
  <2> HIDE DEF o
  <2>7. sort_order'[e] = sort_order[e] /\ sort_order'[d] = o  BY <1>1, <2>2, <2>4 DEF Typed
  <2> QED  BY <2>6, <2>7
<1>2. Typed /\ [Next]_vars =>
      [\A d \in Docs : Restore(d) /\ parent_id[d] \in Folders /\ parent_id'[d] = parent_id[d] =>
          \A e \in Siblings(parent_id[d]) :
             /\ sort_order[e] < sort_order[d] => sort_order'[e] < sort_order'[d]
             /\ sort_order[e] > sort_order[d] => sort_order'[e] > sort_order'[d]]_vars
  BY <1>1
<1> QED  BY <1>2, InitTyped, StepTyped, PTL DEF Spec, RestoreNearby

=============================================================================
