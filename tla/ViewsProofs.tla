---------------------------- MODULE ViewsProofs ----------------------------
(***************************************************************************)
(* Theorems about SplitPanes, for any number of splits: that a layout is a *)
(* tree, that its panes keep their places in one row, that dragging moves  *)
(* only the divider it took hold of; and with FilesProofs that both sides  *)
(* of MCViews hold what they can hold.  The order of the lemmas: paths,    *)
(* trees and what each tree function makes of one, the row of the panes,   *)
(* the invariant, and the steps.                                           *)
(***************************************************************************)
EXTENDS MCViews, FilesProofs, FiniteSetTheorems, WellFoundedInduction

----------------------------------------------------------------------------
(* SplitPanes: paths *)

Path == Seq(Turns)

(* Two paths of the same turns are the same. *)
LEMMA SamePath ==
    ASSUME NEW p \in Path, NEW r \in Path, Len(p) = Len(r), \A i \in 1..Len(p) : p[i] = r[i]
    PROVE  p = r
BY SeqEqual DEF Path

(* What lies a turn below p. *)
LEMMA OneTurnBelow ==
    ASSUME NEW p \in Path, NEW turn \in Turns
    PROVE  /\ Append(p, turn) \in Path /\ Len(Append(p, turn)) = Len(p) + 1
           /\ \A i \in 1..Len(p) : Append(p, turn)[i] = p[i]
           /\ Append(p, turn)[Len(p) + 1] = turn
           /\ Len(p) \in Nat /\ (\A i \in 1..Len(p) : p[i] \in Turns) /\ DOMAIN p = 1..Len(p)
BY AppendProperties, LenProperties, ElementOfSeq DEF Path

(* The length and the turns of a path. *)
LEMMA Steps ==
    ASSUME NEW p \in Path
    PROVE  /\ Len(p) \in Nat /\ DOMAIN p = 1..Len(p) /\ \A i \in 1..Len(p) : p[i] \in Turns
           /\ p # <<>> => Len(p) >= 1
           /\ <<>> \in Path /\ Len(<<>>) = 0
BY LenProperties, ElementOfSeq, EmptySeq DEF Path

(* The beginning of a path. *)
LEMMA Beginning ==
    ASSUME NEW p \in Path, NEW n \in 0..Len(p)
    PROVE  /\ SubSeq(p, 1, n) \in Path /\ Len(SubSeq(p, 1, n)) = n
           /\ \A i \in 1..n : SubSeq(p, 1, n)[i] = p[i]
<1>1. Len(p) \in Nat /\ \A i \in 1..n : p[i] \in Turns
    BY Steps
<1>2. n \in Int /\ 1 \in Int
    BY <1>1
<1>3. /\ SubSeq(p, 1, n) \in Seq(Turns)
      /\ Len(SubSeq(p, 1, n)) = IF 1 <= n THEN n - 1 + 1 ELSE 0
      /\ \A i \in 1..(n - 1 + 1) : SubSeq(p, 1, n)[i] = p[1 + i - 1]
    BY <1>1, <1>2, SubSeqProperties
<1> QED BY <1>1, <1>3 DEF Path

(* Its end, from the n-th turn. *)
LEMMA Ending ==
    ASSUME NEW p \in Path, NEW n \in 1..(Len(p) + 1)
    PROVE  /\ SubSeq(p, n, Len(p)) \in Path /\ Len(SubSeq(p, n, Len(p))) = Len(p) + 1 - n
           /\ \A i \in 1..(Len(p) + 1 - n) : SubSeq(p, n, Len(p))[i] = p[n + i - 1]
<1>1. Len(p) \in Nat /\ \A i \in n..Len(p) : p[i] \in Turns
    BY Steps
<1>2. n \in Int /\ Len(p) \in Int
    BY <1>1
<1>3. /\ SubSeq(p, n, Len(p)) \in Seq(Turns)
      /\ Len(SubSeq(p, n, Len(p))) = IF n <= Len(p) THEN Len(p) - n + 1 ELSE 0
      /\ \A i \in 1..(Len(p) - n + 1) : SubSeq(p, n, Len(p))[i] = p[n + i - 1]
    BY <1>1, <1>2, SubSeqProperties
<1> QED BY <1>1, <1>3 DEF Path

(* One path after another. *)
LEMMA Joined ==
    ASSUME NEW p \in Path, NEW r \in Path
    PROVE  /\ p \o r \in Path /\ Len(p \o r) = Len(p) + Len(r)
           /\ \A i \in 1..(Len(p) + Len(r)) :
                 (p \o r)[i] = IF i <= Len(p) THEN p[i] ELSE r[i - Len(p)]
BY ConcatProperties DEF Path

(* A path that begins with p has p as its beginning. *)
LEMMA BeginsIsBeginning ==
    ASSUME NEW p \in Path, NEW r \in Path, Begins(p, r)
    PROVE  p = SubSeq(r, 1, Len(p))
<1>1. Len(p) \in 0..Len(r)
    BY Steps DEF Begins
<1>2. /\ SubSeq(r, 1, Len(p)) \in Path /\ Len(SubSeq(r, 1, Len(p))) = Len(p)
      /\ \A i \in 1..Len(p) : SubSeq(r, 1, Len(p))[i] = r[i]
    BY <1>1, Beginning
<1>3. \A i \in 1..Len(p) : p[i] = SubSeq(r, 1, Len(p))[i]
    BY <1>2 DEF Begins
<1> QED BY <1>2, <1>3, SamePath

(* Parent and neighbour of a path. *)
LEMMA AroundPath ==
    ASSUME NEW p \in Path, p # <<>>
    PROVE  /\ Parent(p) \in Path /\ Len(Parent(p)) = Len(p) - 1
           /\ \A i \in 1..(Len(p) - 1) : Parent(p)[i] = p[i]
           /\ Beside(p) \in Path /\ Len(Beside(p)) = Len(p)
           /\ \A i \in 1..(Len(p) - 1) : Beside(p)[i] = p[i]
           /\ Beside(p)[Len(p)] # p[Len(p)] /\ Beside(p)[Len(p)] \in Turns
           /\ Len(p) \in Nat /\ Len(p) >= 1 /\ p[Len(p)] \in Turns
<1>1. Len(p) \in Nat /\ Len(p) >= 1 /\ p[Len(p)] \in Turns /\ Len(p) - 1 \in 0..Len(p)
    BY Steps
<1>2. /\ Parent(p) \in Path /\ Len(Parent(p)) = Len(p) - 1
      /\ \A i \in 1..(Len(p) - 1) : Parent(p)[i] = p[i]
    BY <1>1, Beginning DEF Parent
<1>3. Across(p[Len(p)]) \in Turns /\ Across(p[Len(p)]) # p[Len(p)]
    BY <1>1 DEF Across, Turns
<1>4. /\ Beside(p) \in Path /\ Len(Beside(p)) = Len(p) - 1 + 1
      /\ \A i \in 1..(Len(p) - 1) : Beside(p)[i] = Parent(p)[i]
      /\ Beside(p)[Len(p) - 1 + 1] = Across(p[Len(p)])
    BY <1>2, <1>3, OneTurnBelow DEF Beside
<1> QED BY <1>1, <1>2, <1>3, <1>4

(* Where the nodes beside a removed leaf go, turn by turn ... *)
LEMMA Moves ==
    ASSUME NEW p \in Path, p # <<>>, NEW r \in Path
    PROVE  /\ MovedTo(p, r) \in Path
           /\ Begins(Beside(p), r) =>
                 /\ Len(r) >= Len(p)
                 /\ Len(MovedTo(p, r)) = Len(r) - 1
                 /\ \A i \in 1..(Len(r) - 1) : MovedTo(p, r)[i] = IF i < Len(p) THEN p[i] ELSE r[i + 1]
           /\ ~Begins(Beside(p), r) => MovedTo(p, r) = r
<1>1. CASE Begins(Beside(p), r)
    <2>1. Len(r) >= Len(p) /\ Len(r) \in Nat /\ Len(p) \in Nat /\ Len(p) >= 1
        BY <1>1, AroundPath, Steps DEF Begins
    <2> DEFINE e == SubSeq(r, Len(p) + 1, Len(r))
    <2>2. Len(p) + 1 \in 1..(Len(r) + 1)
        BY <2>1
    <2>3. /\ e \in Path /\ Len(e) = Len(r) + 1 - (Len(p) + 1)
          /\ \A i \in 1..(Len(r) + 1 - (Len(p) + 1)) : e[i] = r[Len(p) + 1 + i - 1]
        BY <2>2, Ending
    <2>4. MovedTo(p, r) = Parent(p) \o e
        BY <1>1 DEF MovedTo
    <2> HIDE DEF e
    <2>5. /\ Parent(p) \o e \in Path /\ Len(Parent(p) \o e) = Len(Parent(p)) + Len(e)
          /\ \A i \in 1..(Len(Parent(p)) + Len(e)) :
                (Parent(p) \o e)[i] = IF i <= Len(Parent(p)) THEN Parent(p)[i] ELSE e[i - Len(Parent(p))]
        BY <2>3, AroundPath, Joined
    <2>6. Len(Parent(p)) = Len(p) - 1 /\ \A i \in 1..(Len(p) - 1) : Parent(p)[i] = p[i]
        BY AroundPath
    <2>7. Len(MovedTo(p, r)) = Len(r) - 1
        BY <2>1, <2>3, <2>4, <2>5, <2>6
    <2>8. ASSUME NEW i \in 1..(Len(r) - 1)
          PROVE  MovedTo(p, r)[i] = IF i < Len(p) THEN p[i] ELSE r[i + 1]
        <3>1. CASE i < Len(p)
            BY <2>1, <2>3, <2>4, <2>5, <2>6, <3>1
        <3>2. CASE i >= Len(p)
            <4>1. i - (Len(p) - 1) \in 1..(Len(r) + 1 - (Len(p) + 1))
                BY <2>1, <3>2
            <4>2. MovedTo(p, r)[i] = e[i - (Len(p) - 1)]
                BY <2>1, <2>3, <2>4, <2>5, <2>6, <3>2
            <4>3. e[i - (Len(p) - 1)] = r[Len(p) + 1 + (i - (Len(p) - 1)) - 1]
                BY <2>3, <4>1
            <4>4. Len(p) + 1 + (i - (Len(p) - 1)) - 1 = i + 1
                BY <2>1
            <4> QED BY <2>1, <3>2, <4>2, <4>3, <4>4
        <3> QED BY <2>1, <3>1, <3>2
    <2> QED BY <1>1, <2>1, <2>4, <2>5, <2>7, <2>8
<1>2. CASE ~Begins(Beside(p), r)
    BY <1>2 DEF MovedTo
<1> QED BY <1>1, <1>2

(* ... and where they came from. *)
LEMMA Comes ==
    ASSUME NEW p \in Path, p # <<>>, NEW r \in Path
    PROVE  /\ CameFrom(p, r) \in Path
           /\ Begins(Parent(p), r) =>
                 /\ Len(r) >= Len(p) - 1
                 /\ Len(CameFrom(p, r)) = Len(r) + 1
                 /\ \A i \in 1..(Len(r) + 1) : CameFrom(p, r)[i] = IF i < Len(p) THEN p[i]
                                    ELSE IF i = Len(p) THEN Beside(p)[i] ELSE r[i - 1]
           /\ ~Begins(Parent(p), r) => CameFrom(p, r) = r
<1>1. CASE Begins(Parent(p), r)
    <2>1. Len(r) >= Len(p) - 1 /\ Len(r) \in Nat /\ Len(p) \in Nat /\ Len(p) >= 1
        BY <1>1, AroundPath, Steps DEF Begins
    <2> DEFINE e == SubSeq(r, Len(p), Len(r))
    <2>2. Len(p) \in 1..(Len(r) + 1)
        BY <2>1
    <2>3. /\ e \in Path /\ Len(e) = Len(r) + 1 - Len(p)
          /\ \A i \in 1..(Len(r) + 1 - Len(p)) : e[i] = r[Len(p) + i - 1]
        BY <2>2, Ending
    <2>4. CameFrom(p, r) = Beside(p) \o e
        BY <1>1 DEF CameFrom
    <2> HIDE DEF e
    <2>5. /\ Beside(p) \o e \in Path /\ Len(Beside(p) \o e) = Len(Beside(p)) + Len(e)
          /\ \A i \in 1..(Len(Beside(p)) + Len(e)) :
                (Beside(p) \o e)[i] = IF i <= Len(Beside(p)) THEN Beside(p)[i] ELSE e[i - Len(Beside(p))]
        BY <2>3, AroundPath, Joined
    <2>6. Len(Beside(p)) = Len(p) /\ \A i \in 1..(Len(p) - 1) : Beside(p)[i] = p[i]
        BY AroundPath
    <2>7. Len(CameFrom(p, r)) = Len(r) + 1
        BY <2>1, <2>3, <2>4, <2>5, <2>6
    <2>8. ASSUME NEW i \in 1..(Len(r) + 1)
          PROVE  CameFrom(p, r)[i] = IF i < Len(p) THEN p[i]
                                     ELSE IF i = Len(p) THEN Beside(p)[i] ELSE r[i - 1]
        <3>1. CASE i <= Len(p)
            BY <2>1, <2>3, <2>4, <2>5, <2>6, <3>1
        <3>2. CASE i > Len(p)
            <4>1. i - Len(p) \in 1..(Len(r) + 1 - Len(p))
                BY <2>1, <3>2
            <4>2. CameFrom(p, r)[i] = e[i - Len(p)]
                BY <2>1, <2>3, <2>4, <2>5, <2>6, <3>2
            <4>3. e[i - Len(p)] = r[Len(p) + (i - Len(p)) - 1]
                BY <2>3, <4>1
            <4>4. Len(p) + (i - Len(p)) - 1 = i - 1
                BY <2>1
            <4> QED BY <2>1, <3>2, <4>2, <4>3, <4>4
        <3> QED BY <2>1, <3>1, <3>2
    <2> QED BY <1>1, <2>1, <2>4, <2>5, <2>7, <2>8
<1>2. CASE ~Begins(Parent(p), r)
    BY <1>2 DEF CameFrom
<1> QED BY <1>1, <1>2

----------------------------------------------------------------------------
(* Trees *)

Nodes == [kind : {"leaf"}, id : Nat] \cup [kind : {"split"}, ratio : 1..9, born : Nat]

Tree(t) ==
    /\ DOMAIN t \subseteq Path /\ t \in [DOMAIN t -> Nodes]
    /\ <<>> \in DOMAIN t
    /\ Rooted(t)
    /\ \E n \in Nat : \A p \in DOMAIN t : Len(p) <= n

(* Each pane and each divider is there once. *)
Apart(t) ==
    /\ \A p, r \in LeavesOf(t) : t[p].id = t[r].id => p = r
    /\ \A p, r \in SplitsOf(t) : t[p].born = t[r].born => p = r

Borns(t) == {t[p].born : p \in SplitsOf(t)}

(* A node is a leaf or a split. *)
LEMMA Kinds ==
    ASSUME NEW t, Tree(t)
    PROVE  /\ DOMAIN t = LeavesOf(t) \cup SplitsOf(t) /\ LeavesOf(t) \cap SplitsOf(t) = {}
           /\ DOMAIN t \subseteq Path
           /\ \A p \in LeavesOf(t) : t[p].id \in Nat /\ t[p] = Leaf(t[p].id)
           /\ \A p \in SplitsOf(t) : t[p].born \in Nat /\ t[p].ratio \in 1..9
<1>1. \A p \in DOMAIN t : t[p] \in Nodes
    BY DEF Tree
<1>2. DOMAIN t = LeavesOf(t) \cup SplitsOf(t) /\ LeavesOf(t) \cap SplitsOf(t) = {}
    BY <1>1 DEF Nodes, LeavesOf, SplitsOf
<1>3. ASSUME NEW p \in LeavesOf(t)
      PROVE  t[p].id \in Nat /\ t[p] = Leaf(t[p].id)
    BY <1>1, <1>3 DEF Nodes, LeavesOf, Leaf
<1>4. ASSUME NEW p \in SplitsOf(t)
      PROVE  t[p].born \in Nat /\ t[p].ratio \in 1..9
    BY <1>1, <1>4 DEF Nodes, SplitsOf
<1> QED BY <1>2, <1>3, <1>4 DEF Tree

(* Every proper beginning of a node's path is a split. *)
LEMMA AboveIsSplit ==
    ASSUME NEW t, Tree(t), NEW r \in DOMAIN t, NEW p \in Path, Begins(p, r), p # r
    PROVE  p \in SplitsOf(t)
<1>1. r \in Path
    BY DEF Tree
<1>2. p = SubSeq(r, 1, Len(p))
    BY <1>1, BeginsIsBeginning
<1>3. Len(p) # Len(r)
    BY <1>1, SamePath DEF Begins
<1>4. Len(p) \in 0..(Len(r) - 1)
    BY <1>1, <1>3, Steps DEF Begins
<1> QED BY <1>2, <1>4 DEF Tree, Rooted

(* Nothing lies below a leaf. *)
LEMMA BelowLeaf ==
    ASSUME NEW t, Tree(t), NEW p \in LeavesOf(t), NEW r \in DOMAIN t, Begins(p, r)
    PROVE  r = p
BY Kinds, AboveIsSplit

(* What makes a tree. *)
LEMMA MakesTree ==
    ASSUME NEW u, DOMAIN u \subseteq Path, u \in [DOMAIN u -> Nodes], <<>> \in DOMAIN u,
           NEW n \in Nat, \A p \in DOMAIN u : Len(p) <= n,
           \A r \in DOMAIN u : \A p \in Path : Begins(p, r) /\ p # r => p \in SplitsOf(u),
           \A p \in SplitsOf(u) : \A turn \in Turns : Append(p, turn) \in DOMAIN u
    PROVE  Tree(u)
<1>1. ASSUME NEW r \in DOMAIN u, NEW i \in 0..(Len(r) - 1)
      PROVE  SubSeq(r, 1, i) \in SplitsOf(u)
    <2>1. r \in Path /\ Len(r) \in Nat /\ i \in 0..Len(r)
        BY Steps
    <2>2. /\ SubSeq(r, 1, i) \in Path /\ Len(SubSeq(r, 1, i)) = i
          /\ \A j \in 1..i : SubSeq(r, 1, i)[j] = r[j]
        BY <2>1, Beginning
    <2>3. Begins(SubSeq(r, 1, i), r) /\ SubSeq(r, 1, i) # r
        BY <2>1, <2>2 DEF Begins
    <2> QED BY <2>2, <2>3
<1> QED BY <1>1 DEF Tree, Rooted

(* Where a leaf is split, and nowhere else, two leaves come to lie. *)
LEMMA SplitTree ==
    ASSUME NEW t, Tree(t), Apart(t), NEW h \in LeavesOf(t),
           NEW new \in Nat, new \notin Ids(t), new \notin Borns(t),
           NEW u, u = SplitAt(t, t[h].id, new)
    PROVE  LET a == Append(h, "first")
               b == Append(h, "second") IN
           /\ a \notin DOMAIN t /\ b \notin DOMAIN t
           /\ LeavesOf(u) = (LeavesOf(t) \ {h}) \cup {a, b}
           /\ SplitsOf(u) = SplitsOf(t) \cup {h}
           /\ u[a].id = t[h].id /\ u[b].id = new
           /\ u[h].born = new
           /\ \A p \in DOMAIN t \ {h} : u[p] = t[p]
           /\ Tree(u) /\ Apart(u)
<1> DEFINE a == Append(h, "first")
           b == Append(h, "second")
           x == t[h].id
<1>1. /\ h \in DOMAIN t /\ h \in Path /\ x \in Nat
      /\ At(t, x) = {h}
    BY Kinds DEF LeavesOf, At, Apart
<1>2. /\ a \in Path /\ Len(a) = Len(h) + 1 /\ (\A i \in 1..Len(h) : a[i] = h[i])
      /\ a[Len(h) + 1] = "first" /\ Len(h) \in Nat
      /\ b \in Path /\ Len(b) = Len(h) + 1 /\ (\A i \in 1..Len(h) : b[i] = h[i])
      /\ b[Len(h) + 1] = "second"
    BY <1>1, OneTurnBelow DEF Turns
<1>3. Begins(h, a) /\ Begins(h, b) /\ a # h /\ b # h /\ a # b
    BY <1>2 DEF Begins
<1>4. a \notin DOMAIN t /\ b \notin DOMAIN t
    BY <1>3, BelowLeaf
<1>5. {Append(g, turn) : g \in {h}, turn \in Turns} = {a, b}
    BY DEF Turns
<1>6. u = [p \in DOMAIN t \cup {a, b} |->
              IF p \in {h} THEN Split(new) ELSE IF p \in DOMAIN t THEN t[p]
              ELSE Leaf(IF p[Len(p)] = "first" THEN x ELSE new)]
    BY <1>1, <1>5 DEF SplitAt
<1>7. /\ DOMAIN u = DOMAIN t \cup {a, b}
      /\ u[h] = Split(new) /\ u[a] = Leaf(x) /\ u[b] = Leaf(new)
      /\ \A p \in DOMAIN t \ {h} : u[p] = t[p]
    BY <1>1, <1>2, <1>3, <1>4, <1>6
<1> HIDE DEF a, b, x
<1>8. /\ LeavesOf(u) = (LeavesOf(t) \ {h}) \cup {a, b}
      /\ SplitsOf(u) = SplitsOf(t) \cup {h}
    BY <1>1, <1>3, <1>4, <1>7, Kinds DEF LeavesOf, SplitsOf, Leaf, Split
<1>9. Tree(u)
    <2>1. DOMAIN u \subseteq Path /\ <<>> \in DOMAIN u
        BY <1>2, <1>7 DEF Tree
    <2>2. u \in [DOMAIN u -> Nodes]
        <3>1. \A p \in DOMAIN t : t[p] \in Nodes
            BY DEF Tree
        <3>2. Split(new) \in Nodes /\ Leaf(x) \in Nodes /\ Leaf(new) \in Nodes
            BY <1>1 DEF Split, Leaf, Nodes
        <3> QED BY <1>6, <1>7, <3>1, <3>2
    <2>3. PICK n \in Nat : \A p \in DOMAIN t : Len(p) <= n
        BY DEF Tree
    <2>4. \A p \in DOMAIN u : Len(p) <= n + 1
        BY <1>1, <1>2, <1>7, <2>3, Kinds, Steps
    <2>5. ASSUME NEW r \in DOMAIN u, NEW p \in Path, Begins(p, r), p # r
          PROVE  p \in SplitsOf(u)
        <3>1. CASE r \in DOMAIN t
            BY <1>8, <2>5, <3>1, AboveIsSplit
        <3>2. CASE r \in {a, b}
            <4>1. Len(p) <= Len(h) + 1 /\ Len(p) \in Nat
                BY <1>2, <2>5, <3>2, Steps DEF Begins
            <4>2. Len(p) # Len(h) + 1
                BY <1>2, <2>5, <3>2, SamePath DEF Begins
            <4>3. Begins(p, h)
                BY <1>2, <2>5, <3>2, <4>1, <4>2 DEF Begins
            <4> QED BY <1>1, <1>8, <4>3, AboveIsSplit
        <3> QED BY <1>7, <3>1, <3>2
    <2>6. ASSUME NEW p \in SplitsOf(u), NEW turn \in Turns
          PROVE  Append(p, turn) \in DOMAIN u
        BY <1>7, <1>8 DEF Tree, Rooted, Turns, a, b
    <2> QED BY <2>1, <2>2, <2>3, <2>4, <2>5, <2>6, MakesTree
<1>10. Apart(u)
    <2>1. \A p \in LeavesOf(t) : t[p].id # new
        BY DEF Ids
    <2>2. \A p \in SplitsOf(t) : t[p].born # new
        BY DEF Borns
    <2>3. u[a].id = x /\ u[b].id = new /\ u[h].born = new
        BY <1>7 DEF Leaf, Split
    <2>4. \A p \in LeavesOf(t) \ {h} : u[p] = t[p] /\ t[p].id # x
        BY <1>7 DEF LeavesOf, Apart, x
    <2>5. \A p \in SplitsOf(t) : u[p] = t[p]
        BY <1>7 DEF SplitsOf, LeavesOf
    <2>6. x # new
        BY <2>1 DEF x
    <2>7. \A p, r \in LeavesOf(u) : u[p].id = u[r].id => p = r
        BY <1>8, <2>1, <2>3, <2>4, <2>6 DEF Apart
    <2>8. \A p, r \in SplitsOf(u) : u[p].born = u[r].born => p = r
        BY <1>8, <2>2, <2>3, <2>5 DEF Apart
    <2> QED BY <2>7, <2>8 DEF Apart
<1> QED BY <1>4, <1>7, <1>8, <1>9, <1>10 DEF a, b, x, Leaf, Split

(* A tree in which a leaf has another name. *)
LEMMA ReplaceTree ==
    ASSUME NEW t, Tree(t), Apart(t), NEW from, NEW to \in Nat, to \notin Ids(t),
           NEW u, u = ReplaceLeaf(t, from, to)
    PROVE  /\ DOMAIN u = DOMAIN t /\ LeavesOf(u) = LeavesOf(t) /\ SplitsOf(u) = SplitsOf(t)
           /\ \A p \in LeavesOf(t) : u[p].id = IF t[p].id = from THEN to ELSE t[p].id
           /\ \A p \in SplitsOf(t) : u[p] = t[p]
           /\ Tree(u) /\ Apart(u)
<1>1. DOMAIN u = DOMAIN t /\ \A p \in DOMAIN t : u[p] = IF p \in At(t, from) THEN Leaf(to) ELSE t[p]
    BY DEF ReplaceLeaf
<1>2. LeavesOf(u) = LeavesOf(t) /\ SplitsOf(u) = SplitsOf(t)
    BY <1>1 DEF LeavesOf, SplitsOf, At, Leaf
<1>3. \A p \in LeavesOf(t) : u[p].id = IF t[p].id = from THEN to ELSE t[p].id
    BY <1>1 DEF LeavesOf, At, Leaf
<1>4. \A p \in SplitsOf(t) : u[p] = t[p]
    BY <1>1 DEF LeavesOf, SplitsOf, At
<1>5. u \in [DOMAIN u -> Nodes]
    <2>1. u = [p \in DOMAIN t |-> u[p]]
        BY <1>1 DEF ReplaceLeaf
    <2>2. \A p \in DOMAIN t : u[p] \in Nodes
        BY <1>1 DEF Tree, Leaf, Nodes
    <2> QED BY <1>1, <2>1, <2>2
<1>6. Tree(u)
    BY <1>1, <1>2, <1>5 DEF Tree, Rooted
<1>7. Apart(u)
    BY <1>2, <1>3, <1>4 DEF Apart, Ids
<1> QED BY <1>1, <1>2, <1>3, <1>4, <1>6, <1>7

(* A tree in which a divider stands elsewhere. *)
LEMMA RatioTree ==
    ASSUME NEW t, Tree(t), Apart(t), NEW path, NEW r \in Int,
           NEW u, u = SetRatioAt(t, path, r)
    PROVE  /\ DOMAIN u = DOMAIN t /\ LeavesOf(u) = LeavesOf(t) /\ SplitsOf(u) = SplitsOf(t)
           /\ \A p \in LeavesOf(t) : u[p] = t[p]
           /\ \A p \in SplitsOf(t) : u[p].born = t[p].born /\ (p # path => u[p] = t[p])
           /\ Tree(u) /\ Apart(u)
<1>1. CASE path \in SplitsOf(t)
    <2>1. t[path] \in [kind : {"split"}, ratio : 1..9, born : Nat]
        BY <1>1 DEF Tree, Nodes, SplitsOf
    <2>2. Within(r) \in 1..9
        BY DEF Within
    <2>3. u = [t EXCEPT ![path] = [t[path] EXCEPT !.ratio = Within(r)]]
        BY <1>1 DEF SetRatioAt
    <2>4. /\ [t[path] EXCEPT !.ratio = Within(r)] \in [kind : {"split"}, ratio : 1..9, born : Nat]
          /\ [t[path] EXCEPT !.ratio = Within(r)].born = t[path].born
        BY <2>1, <2>2
    <2>5. /\ DOMAIN u = DOMAIN t
          /\ u[path] \in [kind : {"split"}, ratio : 1..9, born : Nat] /\ u[path].born = t[path].born
          /\ \A p \in DOMAIN t \ {path} : u[p] = t[p]
        BY <1>1, <2>3, <2>4 DEF SplitsOf
    <2>6. LeavesOf(u) = LeavesOf(t) /\ SplitsOf(u) = SplitsOf(t)
        BY <1>1, <2>5 DEF LeavesOf, SplitsOf
    <2>7. u \in [DOMAIN u -> Nodes]
        BY <2>3, <2>4, <2>5 DEF Tree, Nodes
    <2>8. Tree(u)
        BY <2>5, <2>6, <2>7 DEF Tree, Rooted
    <2>9. /\ \A p \in LeavesOf(t) : u[p] = t[p]
          /\ \A p \in SplitsOf(t) : u[p].born = t[p].born /\ (p # path => u[p] = t[p])
        BY <1>1, <2>5 DEF LeavesOf, SplitsOf
    <2>10. Apart(u)
        BY <2>6, <2>9 DEF Apart
    <2> QED BY <2>5, <2>6, <2>8, <2>9, <2>10
<1>2. CASE path \notin SplitsOf(t)
    BY <1>2 DEF SetRatioAt
<1> QED BY <1>1, <1>2

----------------------------------------------------------------------------
(* A tree without a leaf *)

(* What is left but the leaf and its split goes somewhere, and comes from there. *)
LEMMA MovesBack ==
    ASSUME NEW t, Tree(t), NEW p \in LeavesOf(t), p # <<>>,
           NEW s \in DOMAIN t, s # p, s # Parent(p)
    PROVE  CameFrom(p, MovedTo(p, s)) = s
<1> DEFINE m == MovedTo(p, s)
           k == Len(p)
<1>1. p \in Path /\ s \in Path
    BY Kinds
<1>2. /\ Parent(p) \in Path /\ Len(Parent(p)) = k - 1 /\ (\A i \in 1..(k - 1) : Parent(p)[i] = p[i])
      /\ Beside(p) \in Path /\ Len(Beside(p)) = k /\ (\A i \in 1..(k - 1) : Beside(p)[i] = p[i])
      /\ Beside(p)[k] # p[k] /\ Beside(p)[k] \in Turns /\ p[k] \in Turns
      /\ k \in Nat /\ k >= 1
    BY <1>1, AroundPath
<1>3. m \in Path /\ CameFrom(p, m) \in Path /\ Len(s) \in Nat
    BY <1>1, Moves, Comes, Steps
<1>4. CASE Begins(Beside(p), s)
    <2>1. /\ Len(s) >= k /\ Len(m) = Len(s) - 1
          /\ \A i \in 1..(Len(s) - 1) : m[i] = IF i < k THEN p[i] ELSE s[i + 1]
        BY <1>1, <1>4, Moves
    <2>2. Begins(Parent(p), m)
        <3> HIDE DEF m, k
        <3>1. k - 1 <= Len(m)
            BY <1>2, <1>3, <2>1
        <3>2. ASSUME NEW i \in 1..(k - 1)
              PROVE  Parent(p)[i] = m[i]
            <4>1. i \in 1..(Len(s) - 1) /\ i < k
                BY <1>2, <1>3, <2>1
            <4> QED BY <1>2, <2>1, <4>1
        <3> QED BY <1>2, <3>1, <3>2 DEF Begins
    <2>3. /\ Len(CameFrom(p, m)) = Len(m) + 1
          /\ \A i \in 1..(Len(m) + 1) : CameFrom(p, m)[i] = IF i < k THEN p[i]
                             ELSE IF i = k THEN Beside(p)[i] ELSE m[i - 1]
        BY <1>1, <1>3, <2>2, Comes
    <2>4. ASSUME NEW i \in 1..Len(s)
          PROVE  CameFrom(p, m)[i] = s[i]
        <3>1. CASE i <= k
            BY <1>2, <1>3, <1>4, <2>1, <2>3, <3>1 DEF Begins
        <3>2. CASE i > k
            <4>1. i - 1 \in 1..(Len(s) - 1) /\ ~(i - 1 < k) /\ (i - 1) + 1 = i
                BY <1>2, <1>3, <3>2
            <4>2. m[i - 1] = s[i]
                BY <2>1, <4>1
            <4>3. CameFrom(p, m)[i] = m[i - 1]
                BY <1>2, <1>3, <2>1, <2>3, <3>2
            <4> QED BY <4>2, <4>3
        <3> QED BY <1>2, <1>3, <3>1, <3>2
    <2>5. Len(CameFrom(p, m)) = Len(s)
        BY <1>3, <2>1, <2>3
    <2>6. CameFrom(p, m) = s
        <3> HIDE DEF m, k
        <3> QED BY <1>1, <1>3, <2>4, <2>5, SamePath
    <2> QED BY <2>6
<1>5. CASE ~Begins(Beside(p), s)
    <2>1. m = s
        BY <1>1, <1>5, Moves
    <2>2. ASSUME Begins(Parent(p), s)
          PROVE  FALSE
        <3>1. Len(s) >= k - 1 /\ \A i \in 1..(k - 1) : s[i] = p[i]
            BY <1>2, <2>2 DEF Begins
        <3>2. Len(s) # k - 1
            <4> SUFFICES ASSUME Len(s) = k - 1
                         PROVE  FALSE
                OBVIOUS
            <4>1. Len(s) = Len(Parent(p)) /\ \A i \in 1..Len(s) : s[i] = Parent(p)[i]
                BY <1>2, <3>1
            <4>2. s = Parent(p)
                BY <1>1, <1>2, <4>1, SamePath
            <4> QED BY <4>2
        <3>3. Len(s) >= k /\ s[k] \in Turns
            BY <1>1, <1>2, <1>3, <3>1, <3>2, Steps
        <3>4. s[k] # Beside(p)[k]
            <4> SUFFICES ASSUME s[k] = Beside(p)[k]
                         PROVE  Begins(Beside(p), s)
                BY <1>5
            <4>1. ASSUME NEW i \in 1..k
                  PROVE  Beside(p)[i] = s[i]
                <5>1. CASE i = k
                    BY <5>1
                <5>2. CASE i \in 1..(k - 1)
                    BY <1>2, <3>1, <5>2
                <5> QED BY <1>2, <5>1, <5>2
            <4> QED BY <1>2, <3>3, <4>1 DEF Begins
        <3>5. s[k] = p[k]
            BY <1>2, <3>3, <3>4 DEF Turns
        <3>6. Begins(p, s)
            <4>1. ASSUME NEW i \in 1..k
                  PROVE  p[i] = s[i]
                <5>1. CASE i = k
                    BY <3>5, <5>1
                <5>2. CASE i \in 1..(k - 1)
                    BY <3>1, <5>2
                <5> QED BY <1>2, <5>1, <5>2
            <4> QED BY <3>3, <4>1 DEF Begins
        <3> QED BY <3>6, BelowLeaf
    <2> QED BY <1>1, <2>1, <2>2, Comes
<1> QED BY <1>4, <1>5

(* A path comes from a node of the tree exactly when such a node goes there. *)
LEMMA ComesBack ==
    ASSUME NEW p \in Path, p # <<>>, NEW r \in Path
    PROVE  /\ MovedTo(p, CameFrom(p, r)) = r
           /\ CameFrom(p, r) # p /\ CameFrom(p, r) # Parent(p)
<1> DEFINE c == CameFrom(p, r)
           k == Len(p)
<1>2. /\ Parent(p) \in Path /\ Len(Parent(p)) = k - 1 /\ (\A i \in 1..(k - 1) : Parent(p)[i] = p[i])
      /\ Beside(p) \in Path /\ Len(Beside(p)) = k /\ (\A i \in 1..(k - 1) : Beside(p)[i] = p[i])
      /\ Beside(p)[k] # p[k]
      /\ k \in Nat /\ k >= 1
    BY AroundPath
<1>3. c \in Path /\ MovedTo(p, c) \in Path /\ Len(r) \in Nat
    BY Moves, Comes, Steps
<1>4. CASE Begins(Parent(p), r)
    <2>1. /\ Len(r) >= k - 1 /\ Len(c) = Len(r) + 1
          /\ \A i \in 1..(Len(r) + 1) : c[i] = IF i < k THEN p[i]
                             ELSE IF i = k THEN Beside(p)[i] ELSE r[i - 1]
        BY <1>4, Comes
    <2>2. c[k] = Beside(p)[k] /\ Len(c) >= k /\ \A i \in 1..(k - 1) : c[i] = p[i]
        BY <1>2, <1>3, <2>1
    <2>3. Begins(Beside(p), c)
        BY <1>2, <2>2 DEF Begins
    <2>4. /\ Len(MovedTo(p, c)) = Len(c) - 1
          /\ \A i \in 1..(Len(c) - 1) : MovedTo(p, c)[i] = IF i < k THEN p[i] ELSE c[i + 1]
        BY <1>3, <2>3, Moves
    <2>5. ASSUME NEW i \in 1..Len(r)
          PROVE  MovedTo(p, c)[i] = r[i]
        <3>1. CASE i < k
            <4>1. MovedTo(p, c)[i] = p[i]
                BY <1>3, <2>1, <2>4, <3>1
            <4>2. i \in 1..(k - 1)
                BY <1>2, <1>3, <3>1
            <4> QED BY <1>2, <1>4, <4>1, <4>2 DEF Begins
        <3>2. CASE i >= k
            <4>1. i + 1 \in 1..(Len(r) + 1) /\ ~(i + 1 < k) /\ i + 1 # k /\ (i + 1) - 1 = i
                BY <1>2, <1>3, <3>2
            <4>2. c[i + 1] = r[i]
                BY <2>1, <4>1
            <4>3. MovedTo(p, c)[i] = c[i + 1]
                BY <1>2, <1>3, <2>1, <2>4, <3>2
            <4> QED BY <4>2, <4>3
        <3> QED BY <1>2, <1>3, <3>1, <3>2
    <2>6. Len(MovedTo(p, c)) = Len(r)
        BY <1>3, <2>1, <2>4
    <2>7. MovedTo(p, c) = r
        <3> HIDE DEF c, k
        <3> QED BY <1>3, <2>5, <2>6, SamePath
    <2>8. c # p /\ c # Parent(p)
        BY <1>2, <2>2
    <2> QED BY <2>7, <2>8
<1>5. CASE ~Begins(Parent(p), r)
    <2>1. c = r
        BY <1>5, Comes
    <2>2. ~Begins(Beside(p), r)
        <3> SUFFICES ASSUME Begins(Beside(p), r)
                     PROVE  Begins(Parent(p), r)
            BY <1>5
        <3> QED BY <1>2, <1>3 DEF Begins
    <2>3. r # p /\ r # Parent(p)
        BY <1>2, <1>5 DEF Begins
    <2> QED BY <2>1, <2>2, <2>3, Moves
<1> QED BY <1>4, <1>5

(* What begins with a path also does where both came from. *)
LEMMA ComesInOrder ==
    ASSUME NEW p \in Path, p # <<>>, NEW r \in Path, NEW s \in Path
    PROVE  /\ Begins(r, s) => Begins(CameFrom(p, r), CameFrom(p, s))
           /\ LeftOf(CameFrom(p, r), CameFrom(p, s)) <=> LeftOf(r, s)
<1> DEFINE cr == CameFrom(p, r)
           cs == CameFrom(p, s)
           k == Len(p)
<1>1. /\ Parent(p) \in Path /\ Len(Parent(p)) = k - 1 /\ (\A i \in 1..(k - 1) : Parent(p)[i] = p[i])
      /\ k \in Nat /\ k >= 1
    BY AroundPath
<1>2. /\ Len(r) \in Nat /\ Len(s) \in Nat /\ DOMAIN r = 1..Len(r) /\ DOMAIN s = 1..Len(s)
      /\ cr \in Path /\ cs \in Path /\ DOMAIN cr = 1..Len(cr) /\ DOMAIN cs = 1..Len(cs)
    BY Steps, Comes
<1>3. /\ Begins(Parent(p), r) =>
           /\ Len(r) >= k - 1 /\ Len(cr) = Len(r) + 1
           /\ \A i \in 1..(Len(r) + 1) : cr[i] = IF i < k THEN p[i]
                             ELSE IF i = k THEN Beside(p)[i] ELSE r[i - 1]
      /\ ~Begins(Parent(p), r) => cr = r
    BY Comes
<1>4. /\ Begins(Parent(p), s) =>
           /\ Len(s) >= k - 1 /\ Len(cs) = Len(s) + 1
           /\ \A i \in 1..(Len(s) + 1) : cs[i] = IF i < k THEN p[i]
                             ELSE IF i = k THEN Beside(p)[i] ELSE s[i - 1]
      /\ ~Begins(Parent(p), s) => cs = s
    BY Comes
<1>5. ASSUME NEW x \in Path
      PROVE  Begins(Parent(p), x) <=> Len(x) >= k - 1 /\ \A i \in 1..(k - 1) : x[i] = p[i]
    BY <1>1 DEF Begins
<1> HIDE DEF cr, cs, k
<1>6. CASE Begins(Parent(p), r) /\ Begins(Parent(p), s)
    <2>1. ASSUME Begins(r, s)
          PROVE  Begins(cr, cs)
        <3>1. Len(r) <= Len(s) /\ \A i \in 1..Len(r) : r[i] = s[i]
            BY <2>1 DEF Begins
        <3>2. ASSUME NEW i \in 1..(Len(r) + 1)
              PROVE  cr[i] = cs[i]
            <4>1. i \in 1..(Len(s) + 1)
                BY <1>2, <3>1
            <4>2. CASE i <= k
                BY <1>1, <1>2, <1>3, <1>4, <1>6, <4>1, <4>2
            <4>3. CASE i > k
                <5>1. i - 1 \in 1..Len(r)
                    BY <1>1, <1>2, <4>3
                <5> QED BY <1>1, <1>2, <1>3, <1>4, <1>6, <3>1, <4>1, <4>3, <5>1
            <4> QED BY <1>1, <1>2, <4>2, <4>3
        <3>3. Len(cr) = Len(r) + 1 /\ Len(cs) = Len(s) + 1
            BY <1>3, <1>4, <1>6
        <3>4. Len(cr) <= Len(cs) /\ \A i \in 1..Len(cr) : cr[i] = cs[i]
            BY <1>2, <3>1, <3>2, <3>3
        <3> QED BY <3>4 DEF Begins
    <2>2. ASSUME LeftOf(r, s)
          PROVE  LeftOf(cr, cs)
        <3>1. PICK i \in 1..Len(r) : /\ i \in 1..Len(s) /\ r[i] = "first" /\ s[i] = "second"
                                     /\ \A j \in 1..(i - 1) : r[j] = s[j]
            BY <1>2, <2>2 DEF LeftOf
        <3>2. i >= k
            BY <1>1, <1>2, <1>5, <1>6, <3>1
        <3>3. i + 1 \in 1..Len(cr) /\ i + 1 \in 1..Len(cs) /\ cr[i + 1] = r[i] /\ cs[i + 1] = s[i]
            <4>1. (i + 1) - 1 = i /\ ~(i + 1 < k) /\ i + 1 # k
                  /\ i + 1 \in 1..(Len(r) + 1) /\ i + 1 \in 1..(Len(s) + 1)
                BY <1>1, <1>2, <3>1, <3>2
            <4> QED BY <1>3, <1>4, <1>6, <4>1
        <3>4. ASSUME NEW j \in 1..i
              PROVE  cr[j] = cs[j]
            <4>1. j \in 1..(Len(r) + 1) /\ j \in 1..(Len(s) + 1)
                BY <1>2, <3>1
            <4>2. CASE j <= k
                BY <1>1, <1>2, <1>3, <1>4, <1>6, <4>1, <4>2
            <4>3. CASE j > k
                <5>1. j - 1 \in 1..(i - 1)
                    BY <1>1, <1>2, <3>1, <4>3
                <5> QED BY <1>1, <1>2, <1>3, <1>4, <1>6, <3>1, <4>1, <4>3, <5>1
            <4> QED BY <1>1, <3>1, <4>2, <4>3
        <3>5. (i + 1) - 1 = i
            BY <3>1
        <3> QED BY <1>2, <3>1, <3>3, <3>4, <3>5 DEF LeftOf
    <2>3. ASSUME LeftOf(cr, cs)
          PROVE  LeftOf(r, s)
        <3>1. PICK i \in 1..Len(cr) : /\ i \in 1..Len(cs) /\ cr[i] = "first" /\ cs[i] = "second"
                                      /\ \A j \in 1..(i - 1) : cr[j] = cs[j]
            BY <1>2, <2>3 DEF LeftOf
        <3>2. i \in 1..(Len(r) + 1) /\ i \in 1..(Len(s) + 1)
            BY <1>3, <1>4, <1>6, <3>1
        <3>3. ~(i <= k)
            <4> SUFFICES ASSUME i <= k
                         PROVE  cr[i] = cs[i]
                BY <3>1
            <4> QED BY <1>1, <1>2, <1>3, <1>4, <1>6, <3>2
        <3>4. /\ i - 1 \in 1..Len(r) /\ i - 1 \in 1..Len(s)
              /\ cr[i] = r[i - 1] /\ cs[i] = s[i - 1]
            BY <1>1, <1>2, <1>3, <1>4, <1>6, <3>2, <3>3
        <3>5. ASSUME NEW j \in 1..(i - 1 - 1)
              PROVE  r[j] = s[j]
            <4>0. j \in Nat /\ j >= 1 /\ i \in Nat /\ j + 1 <= i - 1
                BY <3>2
            <4>1. j \in 1..Len(r) /\ j \in 1..Len(s)
                BY <1>2, <3>4, <4>0
            <4>2. CASE j < k
                BY <1>1, <1>2, <1>5, <1>6, <4>1, <4>2
            <4>3. CASE j >= k
                <5>1. j + 1 \in 1..(Len(r) + 1) /\ j + 1 \in 1..(Len(s) + 1) /\ (j + 1) - 1 = j
                      /\ ~(j + 1 < k) /\ j + 1 # k /\ j + 1 \in 1..(i - 1)
                    BY <1>1, <1>2, <4>0, <4>1, <4>3
                <5>2. cr[j + 1] = r[j] /\ cs[j + 1] = s[j]
                    BY <1>3, <1>4, <1>6, <5>1
                <5> QED BY <3>1, <5>1, <5>2
            <4> QED BY <1>1, <4>0, <4>2, <4>3
        <3> QED BY <1>2, <3>1, <3>4, <3>5 DEF LeftOf
    <2> QED BY <2>1, <2>2, <2>3 DEF cr, cs
<1>7. CASE Begins(Parent(p), r) /\ ~Begins(Parent(p), s)
    <2>1. ~Begins(r, s)
        BY <1>1, <1>2, <1>5, <1>7 DEF Begins
    <2>2. PICK m \in 1..(k - 1) : m \notin 1..Len(s) \/ s[m] # p[m]
        BY <1>1, <1>2, <1>5, <1>7
    <2>3. /\ cs = s /\ Len(r) >= k - 1 /\ Len(cr) = Len(r) + 1
          /\ \A i \in 1..(k - 1) : r[i] = p[i] /\ cr[i] = p[i]
        <3>1. cs = s /\ Len(r) >= k - 1 /\ Len(cr) = Len(r) + 1
            BY <1>3, <1>4, <1>7
        <3>2. \A i \in 1..(k - 1) : r[i] = p[i]
            BY <1>5, <1>7
        <3>3. \A i \in 1..(k - 1) : i \in 1..(Len(r) + 1) /\ i < k
            BY <1>1, <1>2, <3>1
        <3> QED BY <1>3, <1>4, <1>7, <3>1, <3>2, <3>3
    <2>4. ASSUME NEW i \in Nat, i \in 1..Len(r), i \in 1..Len(s), \A j \in 1..(i - 1) : r[j] = s[j]
          PROVE  i <= k - 1
        BY <1>1, <1>2, <2>2, <2>3, <2>4
    <2>5. ASSUME NEW i \in Nat, i \in 1..Len(cr), i \in 1..Len(s), \A j \in 1..(i - 1) : cr[j] = s[j]
          PROVE  i <= k - 1
        BY <1>1, <1>2, <2>2, <2>3, <2>5
    <2>6. LeftOf(cr, cs) <=> LeftOf(r, s)
        <3>1. ASSUME LeftOf(r, s)
              PROVE  LeftOf(cr, cs)
            <4>1. PICK i \in 1..Len(r) : /\ i \in 1..Len(s) /\ r[i] = "first" /\ s[i] = "second"
                                         /\ \A j \in 1..(i - 1) : r[j] = s[j]
                BY <1>2, <3>1 DEF LeftOf
            <4>2. i <= k - 1
                BY <1>2, <2>4, <4>1
            <4> QED BY <1>1, <1>2, <2>3, <4>1, <4>2 DEF LeftOf
        <3>2. ASSUME LeftOf(cr, cs)
              PROVE  LeftOf(r, s)
            <4>1. PICK i \in 1..Len(cr) : /\ i \in 1..Len(s) /\ cr[i] = "first" /\ s[i] = "second"
                                          /\ \A j \in 1..(i - 1) : cr[j] = s[j]
                BY <1>2, <2>3, <3>2 DEF LeftOf
            <4>2. i <= k - 1
                BY <1>2, <2>5, <4>1
            <4> QED BY <1>1, <1>2, <2>3, <4>1, <4>2 DEF LeftOf
        <3> QED BY <3>1, <3>2
    <2> QED BY <2>1, <2>6 DEF cr, cs
<1>8. CASE ~Begins(Parent(p), r) /\ Begins(Parent(p), s)
    <2>2. PICK m \in 1..(k - 1) : m \notin 1..Len(r) \/ r[m] # p[m]
        BY <1>1, <1>2, <1>5, <1>8
    <2>3. /\ cr = r /\ Len(s) >= k - 1 /\ Len(cs) = Len(s) + 1
          /\ \A i \in 1..(k - 1) : s[i] = p[i] /\ cs[i] = p[i]
        <3>1. cr = r /\ Len(s) >= k - 1 /\ Len(cs) = Len(s) + 1
            BY <1>3, <1>4, <1>8
        <3>2. \A i \in 1..(k - 1) : s[i] = p[i]
            BY <1>5, <1>8
        <3>3. \A i \in 1..(k - 1) : i \in 1..(Len(s) + 1) /\ i < k
            BY <1>1, <1>2, <3>1
        <3> QED BY <1>3, <1>4, <1>8, <3>1, <3>2, <3>3
    <2>1. ASSUME Begins(r, s)
          PROVE  Begins(cr, cs)
        <3>1. Len(r) <= k - 1
            BY <1>1, <1>2, <2>1, <2>2, <2>3 DEF Begins
        <3> QED BY <1>1, <1>2, <2>1, <2>3, <3>1 DEF Begins
    <2>4. ASSUME NEW i \in Nat, i \in 1..Len(r), i \in 1..Len(s), \A j \in 1..(i - 1) : r[j] = s[j]
          PROVE  i <= k - 1
        BY <1>1, <1>2, <2>2, <2>3, <2>4
    <2>5. ASSUME NEW i \in Nat, i \in 1..Len(r), i \in 1..Len(cs), \A j \in 1..(i - 1) : r[j] = cs[j]
          PROVE  i <= k - 1
        BY <1>1, <1>2, <2>2, <2>3, <2>5
    <2>6. LeftOf(cr, cs) <=> LeftOf(r, s)
        <3>1. ASSUME LeftOf(r, s)
              PROVE  LeftOf(cr, cs)
            <4>1. PICK i \in 1..Len(r) : /\ i \in 1..Len(s) /\ r[i] = "first" /\ s[i] = "second"
                                         /\ \A j \in 1..(i - 1) : r[j] = s[j]
                BY <1>2, <3>1 DEF LeftOf
            <4>2. i <= k - 1
                BY <1>2, <2>4, <4>1
            <4> QED BY <1>1, <1>2, <2>3, <4>1, <4>2 DEF LeftOf
        <3>2. ASSUME LeftOf(cr, cs)
              PROVE  LeftOf(r, s)
            <4>1. PICK i \in 1..Len(r) : /\ i \in 1..Len(cs) /\ r[i] = "first" /\ cs[i] = "second"
                                         /\ \A j \in 1..(i - 1) : r[j] = cs[j]
                BY <1>2, <2>3, <3>2 DEF LeftOf
            <4>2. i <= k - 1
                BY <1>2, <2>5, <4>1
            <4> QED BY <1>1, <1>2, <2>3, <4>1, <4>2 DEF LeftOf
        <3> QED BY <3>1, <3>2
    <2> QED BY <2>1, <2>6 DEF cr, cs
<1>9. CASE ~Begins(Parent(p), r) /\ ~Begins(Parent(p), s)
    BY <1>3, <1>4, <1>9 DEF cr, cs
<1> QED BY <1>6, <1>7, <1>8, <1>9

(* Parent and neighbour of a leaf are nodes, and the neighbour moves up. *)
LEMMA Neighbour ==
    ASSUME NEW t, Tree(t), NEW p \in LeavesOf(t), p # <<>>
    PROVE  /\ p \in Path /\ Parent(p) \in SplitsOf(t) /\ Beside(p) \in DOMAIN t
           /\ CameFrom(p, Parent(p)) = Beside(p)
<1>1. p \in Path /\ p \in DOMAIN t
    BY Kinds DEF LeavesOf
<1>2. /\ Parent(p) \in Path /\ Len(Parent(p)) = Len(p) - 1
      /\ (\A i \in 1..(Len(p) - 1) : Parent(p)[i] = p[i])
      /\ Beside(p) \in Path /\ Len(Beside(p)) = Len(p)
      /\ (\A i \in 1..(Len(p) - 1) : Beside(p)[i] = p[i])
      /\ Len(p) \in Nat /\ Len(p) >= 1 /\ p[Len(p)] \in Turns
    BY <1>1, AroundPath
<1>3. Parent(p) \in SplitsOf(t)
    <2>1. Begins(Parent(p), p) /\ Parent(p) # p
        BY <1>2 DEF Begins
    <2> QED BY <1>1, <1>2, <2>1, AboveIsSplit
<1>4. Beside(p) \in DOMAIN t
    <2>1. Across(p[Len(p)]) \in Turns
        BY DEF Across, Turns
    <2> QED BY <1>3, <2>1 DEF Tree, Rooted, Beside
<1>5. CameFrom(p, Parent(p)) = Beside(p)
    <2>1. Begins(Parent(p), Parent(p))
        BY <1>2 DEF Begins
    <2>2. /\ CameFrom(p, Parent(p)) \in Path
          /\ Len(CameFrom(p, Parent(p))) = Len(Parent(p)) + 1
          /\ \A i \in 1..(Len(Parent(p)) + 1) : CameFrom(p, Parent(p))[i] = IF i < Len(p) THEN p[i]
                        ELSE IF i = Len(p) THEN Beside(p)[i] ELSE Parent(p)[i - 1]
        BY <1>1, <1>2, <2>1, Comes
    <2>3. \A i \in 1..Len(p) : CameFrom(p, Parent(p))[i] = Beside(p)[i]
        BY <1>2, <2>2
    <2>4. Len(CameFrom(p, Parent(p))) = Len(Beside(p))
        BY <1>2, <2>2
    <2> QED BY <1>2, <2>2, <2>3, <2>4, SamePath
<1> QED BY <1>1, <1>3, <1>4, <1>5

(* What lies a turn below a node that came from c lies a turn below c. *)
LEMMA ComesBelow ==
    ASSUME NEW p \in Path, p # <<>>, NEW r \in Path, NEW turn \in Turns
    PROVE  \/ CameFrom(p, Append(r, turn)) = Append(CameFrom(p, r), turn)
           \/ Append(r, turn) = Parent(p)
<1> DEFINE c == CameFrom(p, r)
           x == Append(r, turn)
           k == Len(p)
<1>1. /\ Parent(p) \in Path /\ Len(Parent(p)) = k - 1 /\ k \in Nat /\ k >= 1
      /\ \A i \in 1..(k - 1) : Parent(p)[i] = p[i]
    BY AroundPath
<1>2. /\ x \in Path /\ Len(x) = Len(r) + 1 /\ (\A i \in 1..Len(r) : x[i] = r[i])
      /\ x[Len(r) + 1] = turn /\ Len(r) \in Nat
    BY OneTurnBelow
<1>3. c \in Path /\ CameFrom(p, x) \in Path
    BY <1>2, Comes
<1>4. /\ Append(c, turn) \in Path /\ Len(Append(c, turn)) = Len(c) + 1
      /\ (\A i \in 1..Len(c) : Append(c, turn)[i] = c[i])
      /\ Append(c, turn)[Len(c) + 1] = turn
    BY <1>3, OneTurnBelow
<1>5. CASE Begins(Parent(p), r)
    <2>1. Begins(Parent(p), x)
        BY <1>1, <1>2, <1>5 DEF Begins
    <2>2. /\ Len(r) >= k - 1 /\ Len(c) = Len(r) + 1
          /\ \A i \in 1..(Len(r) + 1) : c[i] = IF i < k THEN p[i]
                             ELSE IF i = k THEN Beside(p)[i] ELSE r[i - 1]
        BY <1>5, Comes
    <2>3. /\ Len(CameFrom(p, x)) = Len(x) + 1
          /\ \A i \in 1..(Len(x) + 1) : CameFrom(p, x)[i] = IF i < k THEN p[i]
                             ELSE IF i = k THEN Beside(p)[i] ELSE x[i - 1]
        BY <1>2, <2>1, Comes
    <2>4. ASSUME NEW i \in 1..(Len(r) + 2)
          PROVE  CameFrom(p, x)[i] = Append(c, turn)[i]
        <3>0. i = Len(r) + 2 \/ i \in 1..(Len(r) + 1)
            BY <1>2
        <3>1. CASE i = Len(r) + 2
            <4>1. ~(i < k) /\ i # k /\ i - 1 = Len(r) + 1 /\ i = Len(c) + 1 /\ i \in 1..(Len(x) + 1)
                BY <1>1, <1>2, <2>2, <3>1
            <4> QED BY <1>2, <1>4, <2>3, <4>1
        <3>2. CASE i \in 1..(Len(r) + 1)
            <4>1. i \in 1..Len(c) /\ i \in 1..(Len(x) + 1)
                BY <1>2, <2>2, <3>2
            <4>2. CameFrom(p, x)[i] = c[i]
                <5>1. CASE i <= k
                    BY <1>1, <2>2, <2>3, <3>2, <4>1, <5>1
                <5>2. CASE i > k
                    <6>1. i - 1 \in 1..Len(r)
                        BY <1>1, <1>2, <3>2, <5>2
                    <6> QED BY <1>1, <1>2, <2>2, <2>3, <3>2, <4>1, <5>2, <6>1
                <5> QED BY <1>1, <3>2, <5>1, <5>2
            <4> QED BY <1>4, <4>1, <4>2
        <3> QED BY <3>0, <3>1, <3>2
    <2>5. Len(CameFrom(p, x)) = Len(r) + 2 /\ Len(Append(c, turn)) = Len(r) + 2
        BY <1>2, <1>4, <2>2, <2>3
    <2>6. CameFrom(p, x) = Append(c, turn)
        <3> HIDE DEF x, c
        <3> QED BY <1>3, <1>4, <2>4, <2>5, SamePath
    <2> QED BY <2>6
<1>6. CASE ~Begins(Parent(p), r) /\ ~Begins(Parent(p), x)
    BY <1>2, <1>6, Comes
<1>7. CASE ~Begins(Parent(p), r) /\ Begins(Parent(p), x)
    <2>1. k - 1 <= Len(r) + 1 /\ \A i \in 1..(k - 1) : Parent(p)[i] = x[i]
        BY <1>1, <1>2, <1>7 DEF Begins
    <2>2. k - 1 = Len(r) + 1
        BY <1>1, <1>2, <1>7, <2>1 DEF Begins
    <2>3. x = Parent(p)
        <3>1. Len(x) = Len(Parent(p)) /\ \A i \in 1..Len(x) : x[i] = Parent(p)[i]
            BY <1>1, <1>2, <2>1, <2>2
        <3> HIDE DEF x
        <3> QED BY <1>1, <1>2, <3>1, SamePath
    <2> QED BY <2>3
<1> QED BY <1>5, <1>6, <1>7

(* A tree without a leaf, and where its nodes came from. *)
LEMMA WithoutTree ==
    ASSUME NEW t, Tree(t), Apart(t), NEW p \in LeavesOf(t), p # <<>>,
           NEW u, u = WithoutNode(t, p)
    PROVE  /\ \A r \in DOMAIN u : /\ r \in Path /\ CameFrom(p, r) \in DOMAIN t \ {p, Parent(p)}
                                  /\ u[r] = t[CameFrom(p, r)]
           /\ \A s \in DOMAIN t \ {p, Parent(p)} :
                 /\ MovedTo(p, s) \in DOMAIN u /\ CameFrom(p, MovedTo(p, s)) = s
                 /\ u[MovedTo(p, s)] = t[s]
           /\ Tree(u) /\ Apart(u)
<1>1. /\ p \in Path /\ p \in DOMAIN t /\ DOMAIN t \subseteq Path
      /\ Parent(p) \in SplitsOf(t) /\ Beside(p) \in DOMAIN t /\ CameFrom(p, Parent(p)) = Beside(p)
    BY Kinds, Neighbour DEF LeavesOf
<1> DEFINE S == DOMAIN t \ {p, Parent(p)}
<1>2. u = [r \in {MovedTo(p, s) : s \in S} |-> t[CameFrom(p, r)]]
    BY DEF WithoutNode
<1> HIDE DEF S
<1>3. \A s \in S : MovedTo(p, s) \in DOMAIN u /\ CameFrom(p, MovedTo(p, s)) = s /\ u[MovedTo(p, s)] = t[s]
    BY <1>2, MovesBack DEF S
<1>4. \A r \in DOMAIN u : r \in Path /\ CameFrom(p, r) \in S /\ u[r] = t[CameFrom(p, r)]
    <2>1. \A s \in S : MovedTo(p, s) \in Path
        BY <1>1, Moves DEF S
    <2> QED BY <1>2, <1>3, <2>1
<1>5. ASSUME NEW r \in Path, CameFrom(p, r) \in DOMAIN t
      PROVE  r \in DOMAIN u
    BY <1>1, <1>3, <1>5, ComesBack DEF S
<1>6. \A r \in DOMAIN u : \A x \in DOMAIN u : CameFrom(p, r) = CameFrom(p, x) => r = x
    BY <1>1, <1>4, ComesBack
<1>7. /\ \A r \in DOMAIN u : r \in LeavesOf(u) <=> CameFrom(p, r) \in LeavesOf(t)
      /\ \A r \in DOMAIN u : r \in SplitsOf(u) <=> CameFrom(p, r) \in SplitsOf(t)
    BY <1>4 DEF LeavesOf, SplitsOf, S
<1>8. Tree(u)
    <2>1. DOMAIN u \subseteq Path
        BY <1>4
    <2>2. u \in [DOMAIN u -> Nodes]
        <3>1. \A s \in DOMAIN t : t[s] \in Nodes
            BY DEF Tree
        <3>2. \A r \in DOMAIN u : u[r] \in Nodes
            BY <1>4, <3>1 DEF S
        <3>3. u = [r \in DOMAIN u |-> u[r]]
            BY <1>2
        <3> QED BY <3>2, <3>3
    <2>3. <<>> \in DOMAIN u
        <3>1. <<>> \in Path /\ <<>> \in DOMAIN t
            BY <1>1, Steps DEF Tree
        <3>2. CASE Begins(Parent(p), <<>>)
            <4>1. Parent(p) \in Path /\ Len(Parent(p)) \in Nat
                BY <1>1, AroundPath, Steps
            <4>2. Len(Parent(p)) = 0
                BY <3>1, <3>2, <4>1, Steps DEF Begins
            <4>3. Parent(p) = <<>>
                BY <3>1, <4>1, <4>2, Steps
            <4> QED BY <1>1, <1>5, <3>1, <4>3
        <3>3. CASE ~Begins(Parent(p), <<>>)
            BY <1>1, <1>5, <3>1, <3>3, Comes
        <3> QED BY <3>2, <3>3
    <2>4. PICK n \in Nat : \A s \in DOMAIN t : Len(s) <= n
        BY DEF Tree
    <2>5. ASSUME NEW r \in DOMAIN u
          PROVE  Len(r) <= n
        <3>1. r \in Path /\ CameFrom(p, r) \in DOMAIN t /\ CameFrom(p, r) \in Path
            BY <1>1, <1>4 DEF S
        <3>2. Len(CameFrom(p, r)) = Len(r) + 1 \/ CameFrom(p, r) = r
            BY <1>1, <3>1, Comes
        <3> QED BY <2>4, <3>1, <3>2, Steps
    <2>6. ASSUME NEW r \in DOMAIN u, NEW x \in Path, Begins(x, r), x # r
          PROVE  x \in SplitsOf(u)
        <3>1. r \in Path /\ CameFrom(p, r) \in DOMAIN t /\ CameFrom(p, x) \in Path
            BY <1>1, <1>4, Comes DEF S
        <3>2. Begins(CameFrom(p, x), CameFrom(p, r))
            BY <1>1, <2>6, <3>1, ComesInOrder
        <3>3. CameFrom(p, x) # CameFrom(p, r)
            BY <1>1, <2>6, <3>1, ComesBack
        <3>4. CameFrom(p, x) \in SplitsOf(t)
            BY <3>1, <3>2, <3>3, AboveIsSplit
        <3>5. x \in DOMAIN u
            BY <1>5, <3>4 DEF SplitsOf
        <3> QED BY <1>7, <3>4, <3>5
    <2>7. ASSUME NEW r \in SplitsOf(u), NEW turn \in Turns
          PROVE  Append(r, turn) \in DOMAIN u
        <3>1. r \in DOMAIN u /\ r \in Path /\ CameFrom(p, r) \in SplitsOf(t)
            BY <1>4, <1>7 DEF SplitsOf
        <3>2. Append(r, turn) \in Path
            BY <3>1, OneTurnBelow
        <3>3. Append(CameFrom(p, r), turn) \in DOMAIN t
            BY <3>1 DEF Tree, Rooted
        <3>4. CameFrom(p, Append(r, turn)) \in DOMAIN t
            BY <1>1, <3>1, <3>3, ComesBelow
        <3> QED BY <1>5, <3>2, <3>4
    <2> QED BY <2>1, <2>2, <2>3, <2>4, <2>5, <2>6, <2>7, MakesTree
<1>9. Apart(u)
    <2>1. \A r \in LeavesOf(u) : r \in DOMAIN u /\ CameFrom(p, r) \in LeavesOf(t) /\ u[r] = t[CameFrom(p, r)]
        BY <1>4, <1>7 DEF LeavesOf
    <2>2. \A r \in SplitsOf(u) : r \in DOMAIN u /\ CameFrom(p, r) \in SplitsOf(t) /\ u[r] = t[CameFrom(p, r)]
        BY <1>4, <1>7 DEF SplitsOf
    <2> QED BY <1>6, <2>1, <2>2 DEF Apart
<1> QED BY <1>3, <1>4, <1>8, <1>9 DEF S

(* What removeLeaf makes of a tree. *)
LEMMA Removed ==
    ASSUME NEW t, Tree(t), Apart(t), NEW target
    PROVE  \/ target \notin Ids(t) /\ RemoveLeaf(t, target) = t
           \/ \E p \in LeavesOf(t) : /\ t[p].id = target /\ p # <<>>
                                     /\ RemoveLeaf(t, target) = WithoutNode(t, p)
           \/ <<>> \in LeavesOf(t) /\ RemoveLeaf(t, target) = NoTree
<1>1. CASE At(t, target) = {}
    BY <1>1 DEF RemoveLeaf, At, Ids
<1>2. CASE At(t, target) # {}
    <2> DEFINE p == CHOOSE p \in At(t, target) : TRUE
    <2>1. p \in At(t, target)
        BY <1>2
    <2>2. RemoveLeaf(t, target) = IF p = <<>> THEN NoTree ELSE WithoutNode(t, p)
        BY <1>2 DEF RemoveLeaf
    <2> QED BY <2>1, <2>2 DEF At
<1> QED BY <1>1, <1>2

(* And of nothing. *)
LEMMA OfNoTree ==
    /\ LeavesOf(NoTree) = {} /\ SplitsOf(NoTree) = {} /\ Ids(NoTree) = {} /\ Borns(NoTree) = {}
    /\ \A x : At(NoTree, x) = {}
    /\ \A x : RemoveLeaf(NoTree, x) = NoTree
    /\ \A x, y : ReplaceLeaf(NoTree, x, y) = NoTree
    /\ \A x, y : SetRatioAt(NoTree, x, y) = NoTree
    /\ DividersOf(NoTree) = {} /\ ~IsLeaf(NoTree)
    /\ \A t : Tree(t) => t # NoTree
<1>1. DOMAIN NoTree = {}
    BY DEF NoTree
<1>2. LeavesOf(NoTree) = {} /\ SplitsOf(NoTree) = {}
    BY <1>1 DEF LeavesOf, SplitsOf
<1>3. Ids(NoTree) = {} /\ Borns(NoTree) = {} /\ (\A x : At(NoTree, x) = {})
    BY <1>2 DEF Ids, Borns, At
<1>4. \A x : RemoveLeaf(NoTree, x) = NoTree
    BY <1>3 DEF RemoveLeaf
<1>5. ASSUME NEW x, NEW y
      PROVE  ReplaceLeaf(NoTree, x, y) = NoTree
    <2>1. ReplaceLeaf(NoTree, x, y) = [p \in {} |-> IF p \in At(NoTree, x) THEN Leaf(y) ELSE NoTree[p]]
        BY <1>1 DEF ReplaceLeaf
    <2> QED BY <2>1 DEF NoTree
<1>6. \A x, y : SetRatioAt(NoTree, x, y) = NoTree
    BY <1>2 DEF SetRatioAt
<1>7. DividersOf(NoTree) = {} /\ ~IsLeaf(NoTree)
    BY <1>2 DEF DividersOf, IsLeaf
<1>8. \A t : Tree(t) => t # NoTree
    BY <1>1 DEF Tree
<1> QED BY <1>2, <1>3, <1>4, <1>5, <1>6, <1>7, <1>8

----------------------------------------------------------------------------
(* The order of the panes *)

Before(t, x, y) == \E p \in At(t, x), r \in At(t, y) : LeftOf(p, r)

(* A pane is at one leaf. *)
LEMMA AtOneLeaf ==
    ASSUME NEW t, Tree(t), Apart(t)
    PROVE  /\ \A p \in LeavesOf(t) : t[p].id \in Ids(t) /\ At(t, t[p].id) = {p}
           /\ \A x \in Ids(t) : \E p \in LeavesOf(t) : t[p].id = x /\ At(t, x) = {p}
           /\ Ids(t) \subseteq Nat
<1>1. ASSUME NEW p \in LeavesOf(t)
      PROVE  t[p].id \in Ids(t) /\ At(t, t[p].id) = {p}
    BY DEF At, Ids, Apart
<1>2. \A x \in Ids(t) : \E p \in LeavesOf(t) : t[p].id = x
    BY DEF Ids
<1>3. Ids(t) \subseteq Nat
    BY Kinds DEF Ids
<1> QED BY <1>1, <1>2, <1>3

(* Without a pane the others stand as they did. *)
LEMMA WithoutOrder ==
    ASSUME NEW t, Tree(t), Apart(t), NEW p \in LeavesOf(t), p # <<>>,
           NEW u, u = WithoutNode(t, p)
    PROVE  /\ Ids(u) = Ids(t) \ {t[p].id}
           /\ Borns(u) \subseteq Borns(t)
           /\ \A s \in SplitsOf(u) : \E q \in SplitsOf(t) : t[q] = u[s]
           /\ \A x, y \in Ids(u) : Before(u, x, y) <=> Before(t, x, y)
<1>1. /\ \A r \in DOMAIN u : /\ r \in Path /\ CameFrom(p, r) \in DOMAIN t \ {p, Parent(p)}
                             /\ u[r] = t[CameFrom(p, r)]
      /\ \A s \in DOMAIN t \ {p, Parent(p)} :
            /\ MovedTo(p, s) \in DOMAIN u /\ CameFrom(p, MovedTo(p, s)) = s
            /\ u[MovedTo(p, s)] = t[s]
      /\ Tree(u) /\ Apart(u)
    BY WithoutTree
<1>2. p \in Path /\ Parent(p) \in SplitsOf(t)
    BY Neighbour
<1>3. \A r \in LeavesOf(u) : /\ r \in Path /\ CameFrom(p, r) \in LeavesOf(t)
                             /\ CameFrom(p, r) # p /\ u[r] = t[CameFrom(p, r)]
    BY <1>1 DEF LeavesOf
<1>4. \A s \in LeavesOf(t) \ {p} : MovedTo(p, s) \in LeavesOf(u) /\ u[MovedTo(p, s)] = t[s]
    BY <1>1, <1>2, Kinds DEF LeavesOf
<1>5. Ids(u) = Ids(t) \ {t[p].id}
    <2>1. ASSUME NEW x \in Ids(u)
          PROVE  x \in Ids(t) \ {t[p].id}
        BY <1>3 DEF Ids, Apart
    <2>2. ASSUME NEW x \in Ids(t), x # t[p].id
          PROVE  x \in Ids(u)
        <3>1. PICK s \in LeavesOf(t) : t[s].id = x
            BY DEF Ids
        <3> QED BY <1>4, <2>2, <3>1 DEF Ids
    <2> QED BY <2>1, <2>2
<1>6. \A s \in SplitsOf(u) : CameFrom(p, s) \in SplitsOf(t) /\ t[CameFrom(p, s)] = u[s]
    BY <1>1 DEF SplitsOf
<1>7. ASSUME NEW x \in Ids(u), NEW y \in Ids(u)
      PROVE  Before(u, x, y) <=> Before(t, x, y)
    <2>1. PICK a \in LeavesOf(u) : u[a].id = x /\ At(u, x) = {a}
        BY <1>1, AtOneLeaf
    <2>2. PICK b \in LeavesOf(u) : u[b].id = y /\ At(u, y) = {b}
        BY <1>1, AtOneLeaf
    <2>3. /\ CameFrom(p, a) \in LeavesOf(t) /\ t[CameFrom(p, a)].id = x /\ a \in Path
          /\ CameFrom(p, b) \in LeavesOf(t) /\ t[CameFrom(p, b)].id = y /\ b \in Path
        BY <1>3, <2>1, <2>2
    <2>4. At(t, x) = {CameFrom(p, a)} /\ At(t, y) = {CameFrom(p, b)}
        BY <2>3, AtOneLeaf
    <2>5. LeftOf(CameFrom(p, a), CameFrom(p, b)) <=> LeftOf(a, b)
        BY <1>2, <2>3, ComesInOrder
    <2> QED BY <2>1, <2>2, <2>4, <2>5 DEF Before
<1>8. Borns(u) \subseteq Borns(t)
    BY <1>6 DEF Borns
<1> QED BY <1>5, <1>6, <1>7, <1>8

(* A pane that has another name stands where it did. *)
LEMMA ReplaceOrder ==
    ASSUME NEW t, Tree(t), Apart(t), NEW from, NEW to \in Nat, to \notin Ids(t),
           NEW u, u = ReplaceLeaf(t, from, to)
    PROVE  LET now(z) == IF z = from THEN to ELSE z IN
           /\ Ids(u) = {now(z) : z \in Ids(t)}
           /\ Borns(u) = Borns(t)
           /\ \A x, y \in Ids(t) : Before(u, now(x), now(y)) <=> Before(t, x, y)
<1> DEFINE now(z) == IF z = from THEN to ELSE z
<1>1. /\ LeavesOf(u) = LeavesOf(t) /\ SplitsOf(u) = SplitsOf(t)
      /\ \A p \in LeavesOf(t) : u[p].id = now(t[p].id)
      /\ \A p \in SplitsOf(t) : u[p] = t[p]
      /\ Tree(u) /\ Apart(u)
    BY ReplaceTree
<1> HIDE DEF now
<1>2. Ids(u) = {now(z) : z \in Ids(t)}
    <2>1. \A p \in LeavesOf(t) : now(t[p].id) \in Ids(u)
        BY <1>1 DEF Ids
    <2>2. \A x \in Ids(u) : \E p \in LeavesOf(t) : x = now(t[p].id)
        BY <1>1 DEF Ids
    <2>3. \A z \in Ids(t) : \E p \in LeavesOf(t) : t[p].id = z
        BY DEF Ids
    <2>4. \A p \in LeavesOf(t) : t[p].id \in Ids(t)
        BY DEF Ids
    <2> QED BY <2>1, <2>2, <2>3, <2>4
<1>3. Borns(u) = Borns(t)
    BY <1>1 DEF Borns
<1>4. ASSUME NEW x \in Ids(t)
      PROVE  At(u, now(x)) = At(t, x)
    <2>1. PICK p \in LeavesOf(t) : t[p].id = x /\ At(t, x) = {p}
        BY AtOneLeaf
    <2>2. u[p].id = now(x) /\ p \in LeavesOf(u)
        BY <1>1, <2>1
    <2> QED BY <1>1, <2>1, <2>2, AtOneLeaf
<1>5. \A x, y \in Ids(t) : Before(u, now(x), now(y)) <=> Before(t, x, y)
    BY <1>4 DEF Before
<1> QED BY <1>2, <1>3, <1>5 DEF now

(* Moving a divider moves no pane. *)
LEMMA RatioOrder ==
    ASSUME NEW t, Tree(t), Apart(t), NEW path, NEW r \in Int,
           NEW u, u = SetRatioAt(t, path, r)
    PROVE  /\ Ids(u) = Ids(t) /\ Borns(u) = Borns(t)
           /\ \A x, y : Before(u, x, y) <=> Before(t, x, y)
<1>1. /\ LeavesOf(u) = LeavesOf(t) /\ SplitsOf(u) = SplitsOf(t)
      /\ \A p \in LeavesOf(t) : u[p] = t[p]
      /\ \A p \in SplitsOf(t) : u[p].born = t[p].born
    BY RatioTree
<1>2. Ids(u) = Ids(t) /\ Borns(u) = Borns(t)
    BY <1>1 DEF Ids, Borns
<1>3. \A x : At(u, x) = At(t, x)
    BY <1>1 DEF At
<1> QED BY <1>2, <1>3 DEF Before

(* No leaf begins another: they turn away from each other somewhere. *)
LEMMA LeavesDiffer ==
    ASSUME NEW t, Tree(t), NEW p \in LeavesOf(t), NEW r \in LeavesOf(t), p # r
    PROVE  /\ p \in Path /\ r \in Path /\ ~Begins(p, r) /\ ~Begins(r, p)
           /\ \E i \in 1..Len(p) : i \in 1..Len(r) /\ p[i] # r[i]
<1>1. p \in Path /\ r \in Path /\ p \in DOMAIN t /\ r \in DOMAIN t
    BY Kinds
<1>2. ~Begins(p, r) /\ ~Begins(r, p)
    BY <1>1, BelowLeaf
<1>3. \E i \in 1..Len(p) : i \in 1..Len(r) /\ p[i] # r[i]
    BY <1>1, <1>2, Steps DEF Begins
<1> QED BY <1>1, <1>2, <1>3

(* What stands before a leaf stands before what is below it, and before
   nothing else there. *)
LEMMA LeftBelow ==
    ASSUME NEW h \in Path, NEW p \in Path, NEW turn \in Turns, ~Begins(h, p), ~Begins(p, h)
    PROVE  /\ LeftOf(p, Append(h, turn)) <=> LeftOf(p, h)
           /\ LeftOf(Append(h, turn), p) <=> LeftOf(h, p)
<1> DEFINE a == Append(h, turn)
<1>1. /\ a \in Path /\ Len(a) = Len(h) + 1 /\ (\A i \in 1..Len(h) : a[i] = h[i])
      /\ Len(h) \in Nat /\ DOMAIN h = 1..Len(h)
    BY OneTurnBelow
<1>2. DOMAIN a = 1..(Len(h) + 1) /\ DOMAIN p = 1..Len(p) /\ Len(p) \in Nat
    BY <1>1, Steps
<1>3. PICK d \in 1..Len(h) : d \in 1..Len(p) /\ h[d] # p[d]
    BY <1>1, <1>2 DEF Begins
<1> HIDE DEF a
<1>4. ASSUME NEW i \in 1..Len(p), i \in 1..(Len(h) + 1), \A j \in 1..(i - 1) : p[j] = a[j]
      PROVE  i \in 1..Len(h)
    <2>1. ~(d \in 1..(i - 1))
        BY <1>1, <1>3, <1>4
    <2> QED BY <1>1, <1>2, <1>3, <1>4, <2>1
<1>5. LeftOf(p, a) <=> LeftOf(p, h)
    <2>1. ASSUME LeftOf(p, a)
          PROVE  LeftOf(p, h)
        <3>1. PICK i \in 1..Len(p) : /\ i \in 1..(Len(h) + 1) /\ p[i] = "first" /\ a[i] = "second"
                                     /\ \A j \in 1..(i - 1) : p[j] = a[j]
            BY <1>2, <2>1 DEF LeftOf
        <3>2. i \in 1..Len(h)
            BY <1>4, <3>1
        <3>3. \A j \in 1..(i - 1) : p[j] = h[j]
            BY <1>1, <3>1, <3>2
        <3> QED BY <1>1, <1>2, <3>1, <3>2, <3>3 DEF LeftOf
    <2>2. ASSUME LeftOf(p, h)
          PROVE  LeftOf(p, a)
        <3>1. PICK i \in 1..Len(p) : /\ i \in 1..Len(h) /\ p[i] = "first" /\ h[i] = "second"
                                     /\ \A j \in 1..(i - 1) : p[j] = h[j]
            BY <1>1, <1>2, <2>2 DEF LeftOf
        <3>2. i \in 1..(Len(h) + 1) /\ a[i] = h[i] /\ \A j \in 1..(i - 1) : p[j] = a[j]
            BY <1>1, <3>1
        <3> QED BY <1>2, <3>1, <3>2 DEF LeftOf
    <2> QED BY <2>1, <2>2
<1>6. LeftOf(a, p) <=> LeftOf(h, p)
    <2>1. ASSUME LeftOf(a, p)
          PROVE  LeftOf(h, p)
        <3>1. PICK i \in 1..Len(p) : /\ i \in 1..(Len(h) + 1) /\ a[i] = "first" /\ p[i] = "second"
                                     /\ \A j \in 1..(i - 1) : p[j] = a[j]
            BY <1>2, <2>1 DEF LeftOf
        <3>2. i \in 1..Len(h)
            BY <1>4, <3>1
        <3>3. \A j \in 1..(i - 1) : h[j] = p[j]
            BY <1>1, <3>1, <3>2
        <3> QED BY <1>1, <1>2, <3>1, <3>2, <3>3 DEF LeftOf
    <2>2. ASSUME LeftOf(h, p)
          PROVE  LeftOf(a, p)
        <3>1. PICK i \in 1..Len(p) : /\ i \in 1..Len(h) /\ h[i] = "first" /\ p[i] = "second"
                                     /\ \A j \in 1..(i - 1) : h[j] = p[j]
            BY <1>1, <1>2, <2>2 DEF LeftOf
        <3>2. i \in 1..(Len(h) + 1) /\ a[i] = h[i] /\ \A j \in 1..(i - 1) : a[j] = p[j]
            BY <1>1, <3>1
        <3> QED BY <1>2, <3>1, <3>2 DEF LeftOf
    <2> QED BY <2>1, <2>2
<1> QED BY <1>5, <1>6 DEF a

(* The two halves of a split, and a path and itself. *)
LEMMA LeftHalves ==
    ASSUME NEW h \in Path
    PROVE  /\ LeftOf(Append(h, "first"), Append(h, "second"))
           /\ ~LeftOf(Append(h, "second"), Append(h, "first"))
           /\ ~LeftOf(h, h)
<1> DEFINE a == Append(h, "first")
           b == Append(h, "second")
<1>1. /\ a \in Path /\ Len(a) = Len(h) + 1 /\ (\A i \in 1..Len(h) : a[i] = h[i])
      /\ a[Len(h) + 1] = "first" /\ Len(h) \in Nat
      /\ b \in Path /\ Len(b) = Len(h) + 1 /\ (\A i \in 1..Len(h) : b[i] = h[i])
      /\ b[Len(h) + 1] = "second"
    BY OneTurnBelow DEF Turns
<1>2. DOMAIN a = 1..(Len(h) + 1) /\ DOMAIN b = 1..(Len(h) + 1)
    BY <1>1, Steps
<1> HIDE DEF a, b
<1>3. LeftOf(a, b)
    <2>1. Len(h) + 1 \in DOMAIN a \cap DOMAIN b /\ (Len(h) + 1) - 1 = Len(h)
        BY <1>1, <1>2
    <2> QED BY <1>1, <2>1 DEF LeftOf
<1>4. ~LeftOf(b, a)
    <2> SUFFICES ASSUME NEW i \in 1..(Len(h) + 1), b[i] = "first", a[i] = "second"
                 PROVE  FALSE
        BY <1>2 DEF LeftOf
    <2>1. i = Len(h) + 1 \/ i \in 1..Len(h)
        BY <1>1
    <2> QED BY <1>1, <2>1
<1>5. ~LeftOf(h, h)
    BY DEF LeftOf
<1> QED BY <1>3, <1>4, <1>5 DEF a, b

(* A new pane stands right after the one it is split from. *)
LEMMA SplitOrder ==
    ASSUME NEW t, Tree(t), Apart(t), NEW x \in Ids(t),
           NEW new \in Nat, new \notin Ids(t), new \notin Borns(t),
           NEW u, u = SplitAt(t, x, new)
    PROVE  /\ Tree(u) /\ Apart(u)
           /\ Ids(u) = Ids(t) \cup {new} /\ Borns(u) = Borns(t) \cup {new}
           /\ \A p \in SplitsOf(u) : u[p].born # new => p \in SplitsOf(t) /\ t[p] = u[p]
           /\ \A p \in SplitsOf(t) : p \in SplitsOf(u) /\ u[p] = t[p]
           /\ \A y, z \in Ids(t) : Before(u, y, z) <=> Before(t, y, z)
           /\ \A z \in Ids(t) : /\ Before(u, z, new) <=> z = x \/ Before(t, z, x)
                                /\ Before(u, new, z) <=> Before(t, x, z)
           /\ ~Before(u, new, new)
<1>1. PICK h \in LeavesOf(t) : t[h].id = x /\ At(t, x) = {h}
    BY AtOneLeaf
<1> DEFINE a == Append(h, "first")
           b == Append(h, "second")
<1>2. /\ a \notin DOMAIN t /\ b \notin DOMAIN t
      /\ LeavesOf(u) = (LeavesOf(t) \ {h}) \cup {a, b}
      /\ SplitsOf(u) = SplitsOf(t) \cup {h}
      /\ u[a].id = x /\ u[b].id = new
      /\ u[h].born = new
      /\ \A p \in DOMAIN t \ {h} : u[p] = t[p]
      /\ Tree(u) /\ Apart(u)
    BY <1>1, SplitTree
<1> HIDE DEF a, b
<1>3. /\ \A p \in LeavesOf(t) \ {h} : p \in LeavesOf(u) /\ u[p] = t[p]
      /\ \A p \in SplitsOf(t) : p \in SplitsOf(u) /\ u[p] = t[p] /\ p # h
    BY <1>2, Kinds
<1>4. Ids(u) = Ids(t) \cup {new}
    <2>1. \A p \in LeavesOf(u) : u[p].id \in Ids(t) \cup {new}
        BY <1>1, <1>2, <1>3 DEF Ids
    <2>2. \A p \in LeavesOf(t) : t[p].id \in Ids(u)
        BY <1>1, <1>2, <1>3 DEF Ids
    <2>3. new \in Ids(u)
        BY <1>2 DEF Ids
    <2>4. Ids(u) \subseteq Ids(t) \cup {new}
        BY <2>1 DEF Ids
    <2>5. Ids(t) \subseteq Ids(u)
        BY <2>2 DEF Ids
    <2> QED BY <2>3, <2>4, <2>5
<1>5. Borns(u) = Borns(t) \cup {new}
    BY <1>2, <1>3 DEF Borns
<1>6. /\ At(u, x) = {a} /\ At(u, new) = {b}
      /\ \A z \in Ids(t) \ {x} : \E p \in LeavesOf(t) \ {h} : At(t, z) = {p} /\ At(u, z) = {p}
    <2>1. a \in LeavesOf(u) /\ b \in LeavesOf(u) /\ Tree(u) /\ Apart(u) /\ u[a].id = x /\ u[b].id = new
        BY <1>2
    <2>2. At(u, x) = {a} /\ At(u, new) = {b}
        BY <2>1, AtOneLeaf
    <2>3. ASSUME NEW z \in Ids(t) \ {x}
          PROVE  \E p \in LeavesOf(t) \ {h} : At(t, z) = {p} /\ At(u, z) = {p}
        <3>1. PICK p \in LeavesOf(t) : t[p].id = z /\ At(t, z) = {p}
            BY AtOneLeaf
        <3>2. p # h
            BY <1>1, <3>1
        <3>3. p \in LeavesOf(u) /\ u[p].id = z
            BY <1>3, <3>1, <3>2
        <3>4. At(u, z) = {p}
            BY <1>2, <3>3, AtOneLeaf
        <3> QED BY <3>1, <3>2, <3>4
    <2> QED BY <2>2, <2>3
<1>7. h \in Path /\ \A p \in LeavesOf(t) \ {h} : p \in Path /\ ~Begins(h, p) /\ ~Begins(p, h)
    BY Kinds, LeavesDiffer
<1>8. ASSUME NEW p \in LeavesOf(t) \ {h}
      PROVE  /\ LeftOf(p, a) <=> LeftOf(p, h)
             /\ LeftOf(p, b) <=> LeftOf(p, h)
             /\ LeftOf(a, p) <=> LeftOf(h, p)
             /\ LeftOf(b, p) <=> LeftOf(h, p)
    BY <1>7, LeftBelow DEF Turns, a, b
<1>9. LeftOf(a, b) /\ ~LeftOf(b, a) /\ ~LeftOf(h, h) /\ ~LeftOf(a, a) /\ ~LeftOf(b, b)
    <2>1. a \in Path /\ b \in Path
        BY <1>7, OneTurnBelow DEF Turns, a, b
    <2> QED BY <1>7, <2>1, LeftHalves DEF a, b
<1>10. ASSUME NEW y \in Ids(t), NEW z \in Ids(t)
       PROVE  Before(u, y, z) <=> Before(t, y, z)
    <2>1. CASE y = x /\ z = x
        BY <1>1, <1>6, <1>9, <2>1 DEF Before
    <2>2. CASE y = x /\ z # x
        BY <1>1, <1>6, <1>8, <2>2 DEF Before
    <2>3. CASE y # x /\ z = x
        BY <1>1, <1>6, <1>8, <2>3 DEF Before
    <2>4. CASE y # x /\ z # x
        BY <1>6, <2>4 DEF Before
    <2> QED BY <2>1, <2>2, <2>3, <2>4
<1>11. ASSUME NEW z \in Ids(t)
       PROVE  /\ Before(u, z, new) <=> z = x \/ Before(t, z, x)
              /\ Before(u, new, z) <=> Before(t, x, z)
    <2>1. CASE z = x
        BY <1>1, <1>6, <1>9, <2>1 DEF Before
    <2>2. CASE z # x
        BY <1>1, <1>6, <1>8, <2>2 DEF Before
    <2> QED BY <2>1, <2>2
<1>12. ~Before(u, new, new)
    BY <1>6, <1>9 DEF Before
<1>13. \A p \in SplitsOf(u) : u[p].born # new => p \in SplitsOf(t) /\ t[p] = u[p]
    BY <1>2, <1>3
<1> QED BY <1>2, <1>3, <1>4, <1>5, <1>10, <1>11, <1>12, <1>13

(* The order of the naturals is a well-founded relation. *)
LEMMA Smaller ==
    \E R : IsWellFoundedOn(R, Nat) /\ \A x, y \in Nat : <<x, y>> \in R <=> x < y
<1>1. \A x, y \in Nat : <<x, y>> \in OpToRel(<, Nat) <=> x < y
    BY DEF OpToRel
<1> WITNESS OpToRel(<, Nat)
<1> QED BY <1>1, NatLessThanWellFounded, Zenon

(* A set of numbers has a least one. *)
LEMMA Least ==
    ASSUME NEW nums, nums \subseteq Nat, nums # {}
    PROVE  \E m \in nums : \A n \in nums : m <= n
<1>1. PICK R : IsWellFoundedOn(R, Nat) /\ \A x, y \in Nat : <<x, y>> \in R <=> x < y
    BY Smaller
<1>2. IsWellFoundedOn(R, Nat)
    BY <1>1
<1>3. \E m \in nums : \A n \in nums : ~(<<n, m>> \in R)
    BY <1>2, WFMin
<1>4. PICK m \in nums : \A n \in nums : ~(<<n, m>> \in R)
    BY <1>3
<1>5. ASSUME NEW n \in nums
      PROVE  m <= n
    <2>1. m \in Nat /\ n \in Nat
        OBVIOUS
    <2>2. ~(n < m)
        BY <1>1, <1>4, <2>1, Zenon
    <2> QED BY <2>1, <2>2
<1> QED BY <1>5

(* OneTurnBelow every node there is a leaf, *)
LEMMA LeafBelow ==
    ASSUME NEW t, Tree(t), NEW q \in DOMAIN t
    PROVE  \E p \in LeavesOf(t) : Begins(q, p)
<1>1. q \in Path /\ \A r \in DOMAIN t : r \in Path /\ Len(r) \in Nat
    BY Steps DEF Tree
<1>2. PICK n \in Nat : \A r \in DOMAIN t : Len(r) <= n
    BY DEF Tree
<1> DEFINE below == {r \in DOMAIN t : Begins(q, r)}
           depths == {n - Len(r) : r \in below}
<1>3. q \in below
    BY <1>1, Steps DEF Begins
<1>4. depths \subseteq Nat /\ depths # {}
    BY <1>1, <1>2, <1>3
<1>5. PICK d \in depths : \A e \in depths : d <= e
    <2> HIDE DEF depths
    <2> QED BY <1>4, Least
<1>6. PICK r \in below : d = n - Len(r)
    OBVIOUS
<1>7. CASE r \in LeavesOf(t)
    BY <1>6, <1>7
<1>8. CASE r \in SplitsOf(t)
    <2> DEFINE x == Append(r, "first")
    <2>1. x \in DOMAIN t
        BY <1>8 DEF Tree, Rooted, Turns
    <2>2. Len(x) = Len(r) + 1 /\ \A i \in 1..Len(r) : x[i] = r[i]
        BY <1>1, <1>6, OneTurnBelow DEF Turns
    <2> HIDE DEF x
    <2>3. Begins(q, x)
        <3>1. Len(q) <= Len(r) /\ Len(q) \in Nat /\ Len(r) \in Nat /\ \A i \in 1..Len(q) : q[i] = r[i]
            BY <1>1, <1>6 DEF Begins
        <3> QED BY <2>2, <3>1 DEF Begins
    <2>4. n - Len(x) \in depths
        BY <2>1, <2>3
    <2>5. d <= n - Len(x)
        BY <1>5, <2>4
    <2> QED BY <1>1, <1>2, <1>6, <2>2, <2>5
<1> QED BY <1>6, <1>7, <1>8, Kinds

(* so a layout has two panes at least. *)
LEMMA TwoPanes ==
    ASSUME NEW t, Tree(t), Apart(t), <<>> \in SplitsOf(t)
    PROVE  \E x, y \in Ids(t) : x # y
<1> DEFINE a == Append(<<>>, "first")
           b == Append(<<>>, "second")
<1>1. a \in DOMAIN t /\ b \in DOMAIN t
    BY DEF Tree, Rooted, Turns
<1>2. <<>> \in Path /\ Len(<<>>) = 0
    BY Steps, Kinds
<1>3. Len(a) = 1 /\ Len(b) = 1 /\ a[1] = "first" /\ b[1] = "second"
    <2>1. Len(a) = 0 + 1 /\ Len(b) = 0 + 1 /\ a[0 + 1] = "first" /\ b[0 + 1] = "second"
        BY <1>2, OneTurnBelow DEF Turns
    <2> QED BY <2>1
<1> HIDE DEF a, b
<1>4. PICK p \in LeavesOf(t) : Begins(a, p)
    BY <1>1, LeafBelow
<1>5. PICK r \in LeavesOf(t) : Begins(b, r)
    BY <1>1, LeafBelow
<1>6. p[1] = "first" /\ r[1] = "second"
    BY <1>3, <1>4, <1>5 DEF Begins
<1>7. t[p].id # t[r].id
    BY <1>6 DEF Apart
<1> QED BY <1>7 DEF Ids

(* The panes stand in one row: of two one is before the other, and what is
   before a pane is before all that come after it. *)
LEMMA InOneRow ==
    ASSUME NEW t, Tree(t), Apart(t)
    PROVE  /\ \A x \in Ids(t) : ~Before(t, x, x)
           /\ \A x, y \in Ids(t) : x # y => Before(t, x, y) \/ Before(t, y, x)
           /\ \A x, y, z \in Ids(t) : Before(t, x, y) /\ Before(t, y, z) => Before(t, x, z)
<1>1. \A x \in Ids(t) : \E p \in LeavesOf(t) : t[p].id = x /\ At(t, x) = {p} /\ p \in Path
    BY AtOneLeaf, Kinds
<1>2. ASSUME NEW x \in Ids(t)
      PROVE  ~Before(t, x, x)
    <2>1. PICK p \in LeavesOf(t) : At(t, x) = {p} /\ p \in Path
        BY <1>1
    <2> QED BY <2>1, LeftHalves DEF Before
<1>3. ASSUME NEW x \in Ids(t), NEW y \in Ids(t), x # y
      PROVE  Before(t, x, y) \/ Before(t, y, x)
    <2>1. PICK p \in LeavesOf(t) : t[p].id = x /\ At(t, x) = {p} /\ p \in Path
        BY <1>1
    <2>2. PICK r \in LeavesOf(t) : t[r].id = y /\ At(t, y) = {r} /\ r \in Path
        BY <1>1
    <2>3. /\ DOMAIN p = 1..Len(p) /\ DOMAIN r = 1..Len(r) /\ Len(p) \in Nat /\ Len(r) \in Nat
          /\ (\A i \in 1..Len(p) : p[i] \in Turns) /\ (\A i \in 1..Len(r) : r[i] \in Turns)
        BY <2>1, <2>2, Steps
    <2> DEFINE apart == {i \in 1..Len(p) : i \in 1..Len(r) /\ p[i] # r[i]}
    <2>4. apart \subseteq Nat /\ apart # {}
        BY <1>3, <2>1, <2>2, LeavesDiffer
    <2>5. PICK i \in apart : \A j \in apart : i <= j
        <3> HIDE DEF apart
        <3> QED BY <2>4, Least
    <2>6. \A j \in 1..(i - 1) : p[j] = r[j]
        BY <2>3, <2>5
    <2>7. i \in DOMAIN p \cap DOMAIN r /\ p[i] # r[i] /\ p[i] \in Turns /\ r[i] \in Turns
        BY <2>3, <2>5
    <2>8. LeftOf(p, r) \/ LeftOf(r, p)
        BY <2>6, <2>7 DEF LeftOf, Turns
    <2> QED BY <2>1, <2>2, <2>8 DEF Before
<1>4. ASSUME NEW x \in Ids(t), NEW y \in Ids(t), NEW z \in Ids(t),
             Before(t, x, y), Before(t, y, z)
      PROVE  Before(t, x, z)
    <2>1. PICK p \in LeavesOf(t) : At(t, x) = {p} /\ p \in Path
        BY <1>1
    <2>2. PICK r \in LeavesOf(t) : At(t, y) = {r} /\ r \in Path
        BY <1>1
    <2>3. PICK s \in LeavesOf(t) : At(t, z) = {s} /\ s \in Path
        BY <1>1
    <2>4. /\ DOMAIN p = 1..Len(p) /\ DOMAIN r = 1..Len(r) /\ DOMAIN s = 1..Len(s)
          /\ Len(p) \in Nat /\ Len(r) \in Nat /\ Len(s) \in Nat
        BY <2>1, <2>2, <2>3, Steps
    <2>5. PICK i \in 1..Len(p) : /\ i \in 1..Len(r) /\ p[i] = "first" /\ r[i] = "second"
                                 /\ \A k \in 1..(i - 1) : p[k] = r[k]
        BY <1>4, <2>1, <2>2, <2>4 DEF Before, LeftOf
    <2>6. PICK j \in 1..Len(r) : /\ j \in 1..Len(s) /\ r[j] = "first" /\ s[j] = "second"
                                 /\ \A k \in 1..(j - 1) : r[k] = s[k]
        BY <1>4, <2>2, <2>3, <2>4 DEF Before, LeftOf
    <2>7. i # j
        BY <2>5, <2>6
    <2>8. CASE i < j
        <3>1. i \in 1..Len(s) /\ s[i] = "second" /\ \A k \in 1..(i - 1) : p[k] = s[k]
            BY <2>4, <2>5, <2>6, <2>8
        <3>2. LeftOf(p, s)
            BY <2>4, <2>5, <3>1 DEF LeftOf
        <3> QED BY <2>1, <2>3, <3>2 DEF Before
    <2>9. CASE j < i
        <3>1. j \in 1..Len(p) /\ p[j] = "first" /\ \A k \in 1..(j - 1) : p[k] = s[k]
            BY <2>4, <2>5, <2>6, <2>9
        <3>2. LeftOf(p, s)
            BY <2>4, <2>6, <3>1 DEF LeftOf
        <3> QED BY <2>1, <2>3, <3>2 DEF Before
    <2> QED BY <2>7, <2>8, <2>9
<1> QED BY <1>2, <1>3, <1>4

----------------------------------------------------------------------------
(* The invariant *)

(* A layout, the tab's or one that a closePane has read, is a tree whose root
   is a split, with names of the tab's splits.  The session a split will have
   is nowhere yet, and neither is its placeholder before it is shown. *)
Laid(t) == Tree(t) /\ Apart(t) /\ <<>> \in SplitsOf(t)

Fits(t, m, asks) ==
    /\ t = NoTree \/ Laid(t)
    /\ Ids(t) \subseteq 1..(2 * m + 1) /\ Borns(t) \subseteq 1..(2 * m + 1)
    /\ \A s \in asks : New(s) \notin Ids(t)
    /\ \A s \in asks : s.st = "asked" => Pend(s) \notin Ids(t) /\ Pend(s) \notin Borns(t)

LayoutsFit == Fits(tree, made, splits) /\ \A c \in closes : Fits(c.read, made, splits)

Names == 1..(2 * made + 1)

SplitsFit ==
    /\ splits \subseteq [n : 1..made, of : Names, st : {"asked", "opening"}]
    /\ \A s, u \in splits : (s.n = u.n => s = u) /\ New(s) # u.of
    /\ \A s \in splits : ~Placeholder(s.of) /\ New(s) # single

(* A divider that has not moved under the mouse is the one it took hold of. *)
DragHolds ==
    /\ drag \in [on : BOOLEAN, path : Path, born : Nat, moved : BOOLEAN]
    /\ drag.on /\ ~drag.moved =>
          drag.path \in SplitsOf(tree) /\ tree[drag.path].born = drag.born

(* Nobody shares what is typed with nobody. *)
GroupFits == group \subseteq Names /\ Cardinality(group) # 1

(* The session of a reconnection is none that a split will have, and a tab that
   connects waits for one. *)
RedialsFit ==
    /\ redials \subseteq [n : 1..made, auto : BOOLEAN]
    /\ \A d \in redials, s \in splits : d.n # s.n
    /\ status \in {"open", "closed", "connecting"}
    /\ status = "connecting" => gone \/ redials # {}

PanesInv ==
    /\ LayoutsFit /\ SplitsFit /\ RedialsFit /\ DragHolds /\ GroupFits
    /\ single \in Names /\ made \in 0..SPLITS
    /\ gone \in BOOLEAN /\ (gone => tree = NoTree)

----------------------------------------------------------------------------
(* Names and rows *)

(* Placeholders are even, sessions odd, and no two splits share one. *)
LEMMA Numbers ==
    ASSUME NEW m \in Nat, NEW k \in Nat
    PROVE  /\ (2 * m) % 2 = 0 /\ (2 * m + 1) % 2 # 0
           /\ 2 * m # 2 * k + 1
           /\ 2 * m = 2 * k => m = k
           /\ 2 * m + 1 = 2 * k + 1 => m = k
OBVIOUS

(* The names a split gives: neither the pane it splits, nor another split's. *)
LEMMA SplitNames ==
    ASSUME SplitsFit, made \in Nat, NEW s \in splits
    PROVE  /\ s.n \in 1..made /\ s.of \in Names /\ s.st \in {"asked", "opening"}
           /\ Pend(s) \in Names /\ New(s) \in Names /\ Pend(s) \in Nat /\ New(s) \in Nat
           /\ Pend(s) # s.of /\ New(s) = Pend(s) + 1 /\ Placeholder(Pend(s))
           /\ \A u \in splits : /\ Pend(s) # New(u) /\ Pend(s) # u.of /\ New(s) # u.of
                                /\ u # s => Pend(s) # Pend(u) /\ New(s) # New(u)
<1>1. \A u \in splits : u.n \in 1..made /\ u.of \in Names /\ u.st \in {"asked", "opening"} /\ u.n \in Nat
    BY DEF SplitsFit
<1>2. \A u \in splits : /\ (2 * u.n) % 2 = 0
                        /\ \A v \in splits : 2 * u.n # 2 * v.n + 1
    BY <1>1, Numbers
<1>3. \A u \in splits : ~Placeholder(u.of)
    BY DEF SplitsFit
<1>4. Placeholder(Pend(s)) /\ \A u \in splits : Pend(s) # u.of
    BY <1>2, <1>3 DEF Placeholder, Pend
<1>5. Pend(s) \in Names /\ New(s) \in Names /\ Pend(s) \in Nat /\ New(s) \in Nat /\ New(s) = Pend(s) + 1
    BY <1>1 DEF Pend, New, Names
<1>6. \A u \in splits : Pend(s) # New(u)
    BY <1>2 DEF Pend, New
<1>7. \A u \in splits : New(s) # u.of
    BY DEF SplitsFit
<1>8. ASSUME NEW u \in splits, u # s
      PROVE  Pend(s) # Pend(u) /\ New(s) # New(u)
    <2>1. s.n # u.n
        BY <1>8 DEF SplitsFit
    <2> QED BY <1>1, <2>1 DEF Pend, New
<1> QED BY <1>1, <1>4, <1>5, <1>6, <1>7, <1>8

(* A layout goes on fitting while splits go on, end, and are asked for, *)
LEMMA FitsLater ==
    ASSUME NEW t, NEW m \in Nat, NEW k \in Nat, m <= k, NEW asks, NEW later,
           Fits(t, m, asks),
           \A s \in later : \/ \E u \in asks : u.n = s.n /\ (s.st = "asked" => u.st = "asked")
                            \/ s.n \in Nat /\ s.n > m
    PROVE  Fits(t, k, later)
<1>1. Ids(t) \subseteq 1..(2 * m + 1) /\ Borns(t) \subseteq 1..(2 * m + 1)
    BY DEF Fits
<1>2. 1..(2 * m + 1) \subseteq 1..(2 * k + 1)
    OBVIOUS
<1>3. ASSUME NEW s \in later
      PROVE  New(s) \notin Ids(t) /\ (s.st = "asked" => Pend(s) \notin Ids(t) /\ Pend(s) \notin Borns(t))
    <2>1. CASE \E u \in asks : u.n = s.n /\ (s.st = "asked" => u.st = "asked")
        BY <2>1 DEF Fits, New, Pend
    <2>2. CASE s.n \in Nat /\ s.n > m
        <3>1. New(s) \notin 1..(2 * m + 1) /\ Pend(s) \notin 1..(2 * m + 1)
            BY <2>2 DEF New, Pend
        <3> QED BY <1>1, <3>1
    <2> QED BY <2>1, <2>2
<1> QED BY <1>1, <1>2, <1>3 DEF Fits

(* and so does a layout with less in it. *)
LEMMA FitsLess ==
    ASSUME NEW t, NEW m, NEW asks, Fits(t, m, asks), NEW u, u = NoTree \/ Laid(u),
           Ids(u) \subseteq Ids(t), Borns(u) \subseteq Borns(t)
    PROVE  Fits(u, m, asks)
BY DEF Fits

(* So does no layout. *)
LEMMA NoTreeFits ==
    ASSUME NEW m, NEW asks
    PROVE  Fits(NoTree, m, asks)
BY OfNoTree DEF Fits

(* The row of what is shown. *)
Row(t, shown) == {o \in shown \X shown : Before(t, o[1], o[2])}

(* It is the order the panes are shown in, now and after a step. *)
LEMMA RowOf ==
    /\ Order = Row(tree, Shown) /\ Order' = Row(tree', Shown')
    /\ \A shown : Row(NoTree, shown) = {}
<1>1. Order = Row(tree, Shown)
    BY DEF Order, Row, Before
<1>2. Order' = Row(tree', Shown')
    BY DEF Order, Row, Before
<1>3. \A shown : Row(NoTree, shown) = {}
    BY OfNoTree DEF Row, Before
<1> QED BY <1>1, <1>2, <1>3

(* Two layouts that agree on two panes each have the same row. *)
LEMMA RowSame ==
    ASSUME NEW t, NEW u, NEW shown, \A x, y \in shown : Before(u, x, y) <=> Before(t, x, y)
    PROVE  Row(u, shown) = Row(t, shown)
BY DEF Row

(* A pane that goes, ... *)
LEMMA RowLess ==
    ASSUME NEW t, NEW u, NEW x \in Shown, Order = Row(t, Shown),
           Shown' = Shown \ {x}, Order' = Row(u, Shown'),
           \A y, z \in Shown' : Before(u, y, z) <=> Before(t, y, z)
    PROVE  PaneGoes(x)
BY DEF Row, PaneGoes

(* one that has another name, ... *)
LEMMA RowRenamed ==
    ASSUME NEW t, NEW u, NEW from, NEW to, to \notin Shown, Order = Row(t, Shown),
           LET now(z) == IF z = from THEN to ELSE z IN
           /\ Shown' = {now(z) : z \in Shown}
           /\ \A x, y \in Shown : Before(u, now(x), now(y)) <=> Before(t, x, y),
           Order' = Row(u, Shown')
    PROVE  PaneBecomes(from, to)
<1> DEFINE now(z) == IF z = from THEN to ELSE z
           moved == {<<now(o[1]), now(o[2])>> : o \in Order}
<1>1. /\ \A x, y \in Shown : Before(u, now(x), now(y)) <=> Before(t, x, y)
      /\ Shown' = {now(z) : z \in Shown}
    OBVIOUS
<1>2. \A x, y \in Shown : <<x, y>> \in Order <=> Before(t, x, y)
    BY DEF Row
<1>3. \A o \in Order : \E x, y \in Shown : o = <<x, y>> /\ Before(t, x, y)
    BY DEF Row
<1>4. \A x, y \in Shown' : <<x, y>> \in Order' <=> Before(u, x, y)
    BY DEF Row
<1>5. \A o \in Order' : \E x, y \in Shown' : o = <<x, y>> /\ Before(u, x, y)
    BY DEF Row
<1> HIDE DEF now
<1>6. ASSUME NEW o \in Order'
      PROVE  o \in moved
    <2>1. PICK x \in Shown', y \in Shown' : o = <<x, y>> /\ Before(u, x, y)
        BY <1>5
    <2>2. PICK a \in Shown, b \in Shown : x = now(a) /\ y = now(b)
        BY <1>1
    <2>3. <<a, b>> \in Order
        BY <1>1, <1>2, <2>1, <2>2
    <2> QED BY <2>1, <2>2, <2>3
<1>7. ASSUME NEW q \in moved
      PROVE  q \in Order'
    <2>1. PICK o \in Order : q = <<now(o[1]), now(o[2])>>
        OBVIOUS
    <2>2. PICK x \in Shown, y \in Shown : o = <<x, y>> /\ Before(t, x, y)
        BY <1>3
    <2>3. q = <<now(x), now(y)>>
        BY <2>1, <2>2
    <2>4. now(x) \in Shown' /\ now(y) \in Shown' /\ Before(u, now(x), now(y))
        BY <1>1, <2>2
    <2> QED BY <1>4, <2>3, <2>4
<1>8. Order' = moved
    BY <1>6, <1>7
<1> QED BY <1>1, <1>8 DEF PaneBecomes, now

(* and one that appears. *)
LEMMA RowMore ==
    ASSUME NEW t, NEW u, NEW x \in Shown, NEW new, new \notin Shown, Order = Row(t, Shown),
           Shown' = Shown \cup {new}, Order' = Row(u, Shown'),
           \A y, z \in Shown : Before(u, y, z) <=> Before(t, y, z),
           \A z \in Shown : Before(u, z, new) <=> z = x \/ Before(t, z, x),
           \A z \in Shown : Before(u, new, z) <=> Before(t, x, z),
           ~Before(u, new, new)
    PROVE  PaneAppears(new, x)
<1> DEFINE before == {z \in Shown : <<z, x>> \in Order}
           behind == {z \in Shown : <<x, z>> \in Order}
           more == Order \cup {<<x, new>>} \cup {<<z, new>> : z \in before}
                      \cup {<<new, z>> : z \in behind}
<1>1. \A y, z \in Shown : <<y, z>> \in Order <=> Before(t, y, z)
    BY DEF Row
<1>2. \A o \in Order : \E y, z \in Shown : o = <<y, z>> /\ Before(t, y, z)
    BY DEF Row
<1>3. \A y, z \in Shown' : <<y, z>> \in Order' <=> Before(u, y, z)
    BY DEF Row
<1>4. \A o \in Order' : \E y, z \in Shown' : o = <<y, z>> /\ Before(u, y, z)
    BY DEF Row
<1>5. ASSUME NEW o \in Order'
      PROVE  o \in more
    <2>1. PICK y \in Shown', z \in Shown' : o = <<y, z>> /\ Before(u, y, z)
        BY <1>4
    <2>2. CASE y \in Shown /\ z \in Shown
        BY <1>1, <2>1, <2>2
    <2>3. CASE y \in Shown /\ z = new
        <3>1. y = x \/ y \in before
            BY <1>1, <2>1, <2>3
        <3> QED BY <2>1, <2>3, <3>1
    <2>4. CASE y = new /\ z \in Shown
        <3>1. z \in behind
            BY <1>1, <2>1, <2>4
        <3> QED BY <2>1, <2>4, <3>1
    <2> QED BY <2>1, <2>2, <2>3, <2>4
<1>6. ASSUME NEW o \in more
      PROVE  o \in Order'
    <2>1. CASE o \in Order
        BY <1>2, <1>3, <2>1
    <2>2. CASE o = <<x, new>>
        BY <1>3, <2>2
    <2>3. CASE o \in {<<z, new>> : z \in before}
        <3>1. PICK z \in before : o = <<z, new>>
            BY <2>3
        <3>2. Before(u, z, new)
            BY <1>1
        <3> QED BY <1>3, <3>1, <3>2
    <2>4. CASE o \in {<<new, z>> : z \in behind}
        <3>1. PICK z \in behind : o = <<new, z>>
            BY <2>4
        <3>2. Before(u, new, z)
            BY <1>1
        <3> QED BY <1>3, <3>1, <3>2
    <2> QED BY <1>6, <2>1, <2>2, <2>3, <2>4
<1>7. Order' = more
    BY <1>5, <1>6
<1> QED BY <1>7 DEF PaneAppears

----------------------------------------------------------------------------
(* What the tree functions make of a layout *)

SameRatios(t, u) ==
    \A p \in SplitsOf(t), q \in SplitsOf(u) :
        t[p].born = u[q].born => t[p].ratio = u[q].ratio

SameRow(t, u, panes) == \A x, y \in panes : Before(u, x, y) <=> Before(t, x, y)

(* A layout is not a leaf, and holds two panes. *)
LEMMA LaidIsMore ==
    ASSUME NEW t, Laid(t)
    PROVE  /\ t # NoTree /\ ~IsLeaf(t) /\ SameRatios(t, t)
           /\ IsFiniteSet(Ids(t)) => Cardinality(Ids(t)) # 1
<1>1. t # NoTree /\ ~IsLeaf(t)
    BY OfNoTree, Kinds DEF Laid, IsLeaf
<1>2. SameRatios(t, t)
    BY DEF Laid, Apart, SameRatios
<1>3. PICK x \in Ids(t), y \in Ids(t) : x # y
    BY TwoPanes DEF Laid
<1>4. IsFiniteSet(Ids(t)) => Cardinality(Ids(t)) # 1
    BY <1>3, FS_Singleton
<1> QED BY <1>1, <1>2, <1>4

(* removeLeaf: the layout as it was, or one pane less and the rest in its place. *)
LEMMA RemoveFromLayout ==
    ASSUME NEW t, Laid(t), NEW x, NEW u, u = RemoveLeaf(t, x)
    PROVE  \/ x \notin Ids(t) /\ u = t
           \/ /\ x \in Ids(t) /\ u # NoTree
              /\ Ids(u) = Ids(t) \ {x} /\ Borns(u) \subseteq Borns(t)
              /\ SameRatios(t, u) /\ SameRow(t, u, Ids(u))
              /\ IsLeaf(u) => Ids(u) = {u[<<>>].id}
              /\ ~IsLeaf(u) => Laid(u)
<1>1. Tree(t) /\ Apart(t) /\ <<>> \notin LeavesOf(t)
    BY Kinds DEF Laid
<1>2. CASE x \notin Ids(t) /\ u = t
    BY <1>2
<1>3. ASSUME NEW p \in LeavesOf(t), t[p].id = x, p # <<>>, u = WithoutNode(t, p)
      PROVE  /\ x \in Ids(t) /\ u # NoTree
             /\ Ids(u) = Ids(t) \ {x} /\ Borns(u) \subseteq Borns(t)
             /\ SameRatios(t, u) /\ SameRow(t, u, Ids(u))
             /\ IsLeaf(u) => Ids(u) = {u[<<>>].id}
             /\ ~IsLeaf(u) => Laid(u)
    <2>1. Tree(u) /\ Apart(u)
        BY <1>1, <1>3, WithoutTree
    <2>2. /\ Ids(u) = Ids(t) \ {x} /\ Borns(u) \subseteq Borns(t)
          /\ \A s \in SplitsOf(u) : \E q \in SplitsOf(t) : t[q] = u[s]
          /\ \A y, z \in Ids(u) : Before(u, y, z) <=> Before(t, y, z)
        BY <1>1, <1>3, WithoutOrder
    <2>3. SameRatios(t, u)
        BY <1>1, <2>2 DEF SameRatios, Apart
    <2>4. x \in Ids(t)
        BY <1>3 DEF Ids
    <2>5. ASSUME IsLeaf(u)
          PROVE  Ids(u) = {u[<<>>].id}
        <3>1. <<>> \in LeavesOf(u)
            BY <2>5 DEF IsLeaf
        <3>2. ASSUME NEW r \in LeavesOf(u)
              PROVE  r = <<>>
            <4>1. r \in DOMAIN u /\ r \in Path
                BY <2>1, Kinds
            <4>2. Begins(<<>>, r)
                BY <4>1, Steps DEF Begins
            <4> QED BY <2>1, <3>1, <4>1, <4>2, BelowLeaf
        <3> QED BY <3>1, <3>2 DEF Ids
    <2>6. ~IsLeaf(u) => Laid(u)
        BY <2>1, Kinds DEF IsLeaf, Laid, Tree
    <2> QED BY <2>1, <2>2, <2>3, <2>4, <2>5, <2>6, OfNoTree DEF SameRow
<1>4. \/ x \notin Ids(t) /\ u = t
      \/ \E p \in LeavesOf(t) : t[p].id = x /\ p # <<>> /\ u = WithoutNode(t, p)
    BY <1>1, Removed
<1> QED BY <1>2, <1>3, <1>4

(* replaceLeafSessionId *)
LEMMA ReplaceInLayout ==
    ASSUME NEW t, Laid(t), NEW from, NEW to \in Nat, to \notin Ids(t),
           NEW u, u = ReplaceLeaf(t, from, to)
    PROVE  /\ Laid(u) /\ Borns(u) = Borns(t) /\ SameRatios(t, u)
           /\ Ids(u) = {IF z = from THEN to ELSE z : z \in Ids(t)}
<1>1. Tree(t) /\ Apart(t) /\ <<>> \in SplitsOf(t)
    BY DEF Laid
<1>2. /\ SplitsOf(u) = SplitsOf(t) /\ Tree(u) /\ Apart(u)
      /\ \A p \in SplitsOf(t) : u[p] = t[p]
    BY <1>1, ReplaceTree
<1>3. Borns(u) = Borns(t) /\ Ids(u) = {IF z = from THEN to ELSE z : z \in Ids(t)}
    <2> DEFINE now(z) == IF z = from THEN to ELSE z
    <2>1. Borns(u) = Borns(t) /\ Ids(u) = {now(z) : z \in Ids(t)}
        <3> HIDE DEF now
        <3> QED BY <1>1, ReplaceOrder DEF now
    <2> QED BY <2>1
<1>4. SameRatios(t, u)
    BY <1>1, <1>2 DEF SameRatios, Apart
<1> QED BY <1>1, <1>2, <1>3, <1>4 DEF Laid

(* setRatioAt *)
LEMMA RatioInLayout ==
    ASSUME NEW t, Laid(t), NEW path, NEW r \in Int, NEW u, u = SetRatioAt(t, path, r)
    PROVE  /\ Laid(u) /\ Ids(u) = Ids(t) /\ Borns(u) = Borns(t) /\ SameRow(t, u, Ids(t))
           /\ SplitsOf(u) = SplitsOf(t)
           /\ \A p \in SplitsOf(t) : u[p].born = t[p].born /\ (p # path => u[p] = t[p])
<1>1. Tree(t) /\ Apart(t) /\ <<>> \in SplitsOf(t)
    BY DEF Laid
<1>2. /\ SplitsOf(u) = SplitsOf(t) /\ Tree(u) /\ Apart(u)
      /\ \A p \in SplitsOf(t) : u[p].born = t[p].born /\ (p # path => u[p] = t[p])
    BY <1>1, RatioTree
<1>3. /\ Ids(u) = Ids(t) /\ Borns(u) = Borns(t)
      /\ \A x, y : Before(u, x, y) <=> Before(t, x, y)
    BY <1>1, RatioOrder
<1> QED BY <1>1, <1>2, <1>3 DEF Laid, SameRow

(* A pane alone, *)
LEMMA OnlyLeafTree ==
    ASSUME NEW x \in Nat
    PROVE  /\ Tree(OnlyLeaf(x)) /\ Apart(OnlyLeaf(x)) /\ Ids(OnlyLeaf(x)) = {x}
           /\ SplitsOf(OnlyLeaf(x)) = {} /\ Borns(OnlyLeaf(x)) = {}
<1> DEFINE u == OnlyLeaf(x)
<1>1. DOMAIN u = {<<>>} /\ u[<<>>] = Leaf(x)
    BY Zenon DEF OnlyLeaf
<1>2. <<>> \in Path /\ Len(<<>>) = 0
    BY EmptySeq DEF Path
<1>3. Leaf(x) \in Nodes
    BY DEF Leaf, Nodes
<1>4. u \in [DOMAIN u -> Nodes]
    BY <1>1, <1>3 DEF OnlyLeaf
<1> HIDE DEF u
<1>5. LeavesOf(u) = {<<>>} /\ SplitsOf(u) = {}
    BY <1>1 DEF LeavesOf, SplitsOf, Leaf
<1>6. ASSUME NEW p \in Path, Begins(p, <<>>)
      PROVE  p = <<>>
    BY <1>2, <1>6, Steps DEF Begins
<1>7. Tree(u)
    <2>1. \A p \in DOMAIN u : Len(p) <= 0
        BY <1>1, <1>2
    <2> QED BY <1>1, <1>2, <1>4, <1>5, <1>6, <2>1, MakesTree
<1>8. Apart(u) /\ Ids(u) = {x} /\ Borns(u) = {}
    BY <1>1, <1>5 DEF Apart, Ids, Borns, Leaf
<1> QED BY <1>5, <1>7, <1>8 DEF u

(* and splitAt. *)
LEMMA SplitInLayout ==
    ASSUME NEW t, Tree(t), Apart(t), NEW x \in Ids(t),
           NEW new \in Nat, new \notin Ids(t), new \notin Borns(t),
           NEW u, u = SplitAt(t, x, new)
    PROVE  /\ Laid(u) /\ Ids(u) = Ids(t) \cup {new} /\ Borns(u) = Borns(t) \cup {new}
           /\ SameRatios(t, u)
<1>1. /\ Tree(u) /\ Apart(u)
      /\ Ids(u) = Ids(t) \cup {new} /\ Borns(u) = Borns(t) \cup {new}
      /\ \A p \in SplitsOf(u) : u[p].born # new => p \in SplitsOf(t) /\ t[p] = u[p]
    BY SplitOrder
<1>2. SameRatios(t, u)
    <2>1. \A p \in SplitsOf(t) : t[p].born # new
        BY DEF Borns
    <2> QED BY <1>1, <2>1 DEF SameRatios, Apart
<1>3. <<>> \in SplitsOf(u)
    <2>1. new \in Borns(u)
        BY <1>1
    <2>2. PICK p \in SplitsOf(u) : u[p].born = new
        BY <2>1 DEF Borns
    <2>3. p \in Path /\ p \in DOMAIN u /\ <<>> \in Path /\ <<>> \in DOMAIN u
        BY <1>1, Kinds, Steps DEF Tree
    <2>4. Begins(<<>>, p)
        BY <2>3, Steps DEF Begins
    <2> QED BY <1>1, <2>2, <2>3, <2>4, AboveIsSplit
<1> QED BY <1>1, <1>2, <1>3 DEF Laid

(* Splitting a pane that is not there changes nothing. *)
LEMMA SplitMisses ==
    ASSUME NEW t, Tree(t), NEW x, x \notin Ids(t), NEW new
    PROVE  SplitAt(t, x, new) = t
<1>1. At(t, x) = {}
    BY DEF At, Ids
<1>2. t = [p \in DOMAIN t |-> t[p]]
    BY DEF Tree
<1>3. {Append(h, turn) : h \in {}, turn \in Turns} = {}
    OBVIOUS
<1>4. SplitAt(t, x, new) = [p \in DOMAIN t |-> t[p]]
    BY <1>1, <1>3 DEF SplitAt
<1> QED BY <1>2, <1>4

----------------------------------------------------------------------------
(* The steps that write the layout *)

Lost == WrittenBack \/ Reverted \/ SplitLate \/ Redialled

(* What is shown when anything is. *)
LEMMA ShownIs ==
    ASSUME PanesInv, Shown # {}
    PROVE  /\ ~gone /\ status # "connecting"
           /\ tree = NoTree => Shown = {single} /\ Order = {} /\ status = "open"
           /\ tree # NoTree => Laid(tree) /\ Shown = Ids(tree) /\ Order = Row(tree, Ids(tree))
           /\ Shown \subseteq Names /\ Shown \subseteq Nat
BY RowOf DEF PanesInv, LayoutsFit, Fits, Shown, Names

(* What is shown after a step that leaves the tab open and not connecting. *)
LEMMA ShownNext ==
    ASSUME gone' = FALSE, status' # "connecting"
    PROVE  /\ tree' = NoTree /\ status' = "open" => Shown' = {single'} /\ Order' = {}
           /\ tree' = NoTree /\ status' # "open" => Shown' = {} /\ Order' = {}
           /\ tree' # NoTree => Shown' = Ids(tree') /\ Order' = Row(tree', Ids(tree'))
BY RowOf DEF Shown

(* While nothing is shown no pane can lose its place. *)
LEMMA NothingShown == Shown = {} => PlacesKept
BY DEF PlacesKept

(* The placeholder of a split is shown after the pane it is split from. *)
LEMMA SplitPaneStep ==
    ASSUME PanesInv, NEW s \in splits, SplitPane(s)
    PROVE  /\ Fits(tree', made, splits') /\ SplitsFit' /\ SameRatios(tree, tree')
           /\ ~gone' => PlacesKept \/ Lost
           /\ gone' => tree' = NoTree
<1> DEFINE o == [s EXCEPT !.st = "opening"]
           t == IF tree = NoTree THEN OnlyLeaf(s.of) ELSE tree
<1>0. SplitsFit /\ Fits(tree, made, splits) /\ made \in Nat /\ gone \in BOOLEAN
    BY DEF PanesInv, LayoutsFit
<1>1. /\ s.n \in 1..made /\ s.of \in Names /\ s.of \in Nat
      /\ Pend(s) \in Names /\ New(s) \in Names /\ Pend(s) \in Nat
      /\ Pend(s) # s.of
      /\ \A u \in splits : /\ Pend(s) # New(u) /\ Pend(u) # s.of /\ New(u) # s.of
                           /\ u # s => Pend(s) # Pend(u)
    BY <1>0, SplitNames DEF Names
<1>2. /\ s.st = "asked" /\ gone' = gone /\ single' = single /\ made' = made /\ status' = status
    BY DEF SplitPane, Answered, tabVars
<1>3. CASE gone
    <2>1. splits' = splits \ {s} /\ tree' = tree /\ tree = NoTree
        BY <1>3 DEF SplitPane, PanesInv
    <2>2. Fits(tree', made, splits')
        BY <2>1, NoTreeFits
    <2>3. SplitsFit'
        BY <1>0, <1>2, <2>1 DEF SplitsFit, Names
    <2>4. SameRatios(tree, tree')
        BY <2>1, OfNoTree DEF SameRatios
    <2> QED BY <1>2, <1>3, <2>1, <2>2, <2>3, <2>4
<1>4. CASE ~gone
    <2>1. /\ splits' = (splits \ {s}) \cup {o}
          /\ tree' = SplitAt(t, s.of, Pend(s))
        BY <1>4 DEF SplitPane, WithSplit
    <2>2. s \in [n : 1..made, of : Names, st : {"asked", "opening"}]
        BY <1>0 DEF SplitsFit
    <2>3. /\ o.n = s.n /\ o.of = s.of /\ o.st = "opening"
          /\ o \in [n : 1..made, of : Names, st : {"asked", "opening"}]
        BY <2>2
    <2> HIDE DEF o
    <2>4. New(o) = New(s) /\ s \notin splits' /\ o # s
        BY <1>2, <2>1, <2>3 DEF New
    <2>5. SplitsFit'
        <3>1. splits' \subseteq [n : 1..made', of : Names', st : {"asked", "opening"}]
            BY <1>0, <1>2, <2>1, <2>3 DEF SplitsFit, Names
        <3>2. \A u \in splits' : \E v \in splits : /\ u.n = v.n /\ u.of = v.of /\ New(u) = New(v)
                                                   /\ u # o => u = v
                                                   /\ u = o => v = s
            BY <2>1, <2>3, <2>4
        <3>3. \A u \in splits' : u # o => u # s
            BY <2>4
        <3>4. ASSUME NEW u \in splits', NEW v \in splits'
              PROVE  (u.n = v.n => u = v) /\ New(u) # v.of
            BY <1>0, <3>2, <3>3 DEF SplitsFit
        <3>5. \A u \in splits' : ~Placeholder(u.of) /\ New(u) # single'
            BY <1>0, <1>2, <3>2 DEF SplitsFit
        <3> QED BY <3>1, <3>4, <3>5 DEF SplitsFit
    <2>6. /\ Tree(t) /\ Apart(t) /\ Fits(tree, made, splits)
          /\ tree = NoTree => Ids(t) = {s.of} /\ Borns(t) = {} /\ SplitsOf(t) = {}
          /\ tree # NoTree => t = tree /\ Laid(t)
          /\ Ids(t) \subseteq Names /\ Borns(t) \subseteq Names
          /\ \A u \in splits : /\ New(u) \notin Ids(t)
                               /\ u.st = "asked" => Pend(u) \notin Ids(t) /\ Pend(u) \notin Borns(t)
        <3>1. CASE tree = NoTree
            BY <1>0, <1>1, <3>1, OnlyLeafTree
        <3>2. CASE tree # NoTree
            BY <1>0, <3>2 DEF Fits, Laid, Names
        <3> QED BY <3>1, <3>2
    <2> HIDE DEF t
    <2>7. CASE s.of \in Ids(t)
        <3>1. Pend(s) \notin Ids(t) /\ Pend(s) \notin Borns(t)
            BY <1>2, <2>6
        <3>2. /\ Laid(tree') /\ Ids(tree') = Ids(t) \cup {Pend(s)}
              /\ Borns(tree') = Borns(t) \cup {Pend(s)} /\ SameRatios(t, tree')
            BY <1>1, <2>1, <2>6, <2>7, <3>1, SplitInLayout
        <3>3. /\ \A y, z \in Ids(t) : Before(tree', y, z) <=> Before(t, y, z)
              /\ \A z \in Ids(t) : /\ Before(tree', z, Pend(s)) <=> z = s.of \/ Before(t, z, s.of)
                                   /\ Before(tree', Pend(s), z) <=> Before(t, s.of, z)
              /\ ~Before(tree', Pend(s), Pend(s))
            BY <1>1, <2>1, <2>6, <2>7, <3>1, SplitOrder
        <3>4. Fits(tree', made, splits')
            <4>1. Ids(tree') \subseteq Names /\ Borns(tree') \subseteq Names
                BY <1>1, <2>6, <3>2
            <4>2. ASSUME NEW u \in splits'
                  PROVE  /\ New(u) \notin Ids(tree')
                         /\ u.st = "asked" => Pend(u) \notin Ids(tree') /\ Pend(u) \notin Borns(tree')
                <5>1. CASE u = o
                    BY <1>1, <2>3, <2>4, <2>6, <3>2, <5>1
                <5>2. CASE u \in splits \ {s}
                    BY <1>1, <2>6, <3>2, <5>2
                <5> QED BY <2>1, <5>1, <5>2
            <4> QED BY <3>2, <4>1, <4>2 DEF Fits, Names
        <3>5. SameRatios(tree, tree')
            BY <2>6, <3>2, OfNoTree DEF SameRatios
        <3>6. ASSUME s.of \in Shown
              PROVE  PaneAppears(Pend(s), s.of)
            <4>1. Shown = Ids(t) /\ Order = Row(t, Ids(t))
                <5>1. CASE tree = NoTree
                    <6>1. Shown = {single} /\ Shown = Ids(t)
                        BY <1>4, <2>6, <3>6, <5>1, ShownIs
                    <6>2. Ids(t) = {s.of} /\ ~Before(t, s.of, s.of)
                        BY <2>6, <2>7, <5>1, InOneRow
                    <6>3. Row(t, Ids(t)) = {}
                        BY <6>2 DEF Row
                    <6> QED BY <1>4, <5>1, <6>1, <6>3, ShownIs
                <5>2. CASE tree # NoTree
                    BY <1>4, <2>6, <3>6, <5>2, ShownIs
                <5> QED BY <5>1, <5>2
            <4>2. Shown' = Ids(t) \cup {Pend(s)} /\ Order' = Row(tree', Ids(t) \cup {Pend(s)})
                <5>1. gone' = FALSE /\ status' # "connecting"
                    BY <1>0, <1>2, <1>4, <3>6, ShownIs
                <5> QED BY <5>1, <3>2, LaidIsMore, ShownNext
            <4> QED BY <2>7, <3>1, <3>3, <4>1, <4>2, RowMore
        <3>7. s.of \notin Shown => SplitLate
            BY <1>2, <2>4 DEF SplitLate
        <3> QED BY <1>2, <1>4, <2>5, <3>4, <3>5, <3>6, <3>7 DEF PlacesKept, Lost
    <2>8. CASE s.of \notin Ids(t)
        <3>1. tree # NoTree /\ tree' = tree /\ t = tree
            BY <2>1, <2>6, <2>8, SplitMisses
        <3>2. Fits(tree', made, splits')
            <4>1. \A u \in splits' : \E v \in splits : v.n = u.n /\ (u.st = "asked" => v.st = "asked")
                BY <2>1, <2>3
            <4> QED BY <1>0, <3>1, <4>1, FitsLater
        <3>3. SameRatios(tree, tree')
            BY <2>6, <3>1, LaidIsMore
        <3>4. SplitLate
            <4>1. s.of \notin Shown
                BY <1>4, <2>8, <3>1, ShownIs
            <4> QED BY <1>2, <2>4, <4>1 DEF SplitLate
        <3> QED BY <1>2, <1>4, <2>5, <3>2, <3>3, <3>4 DEF Lost
    <2> QED BY <2>7, <2>8
<1> QED BY <1>3, <1>4

(* The layout as it was shows the panes as they were. *)
LEMMA SameLayout ==
    ASSUME PanesInv, tree' = tree, single' = single \/ tree # NoTree, gone' = gone, status' = status
    PROVE  PlacesKept /\ Shown' = Shown /\ SameRatios(tree, tree')
<1>1. Shown' = Shown
    BY DEF Shown
<1>2. Order' = Order
    BY <1>1, RowOf
<1>3. SameRatios(tree, tree)
    BY LaidIsMore, OfNoTree DEF PanesInv, LayoutsFit, Fits, SameRatios
<1> QED BY <1>1, <1>2, <1>3 DEF PlacesKept

(* One split less, and the rest go on. *)
LEMMA SplitEnds ==
    ASSUME SplitsFit, made' = made, single' = single \/ \A u \in splits : New(u) # single',
           splits' \subseteq splits
    PROVE  SplitsFit'
BY DEF SplitsFit, Names

(* A session takes the place of its placeholder. *)
LEMMA SplitResolvesStep ==
    ASSUME PanesInv, NEW s \in splits, SplitResolves(s)
    PROVE  /\ Fits(tree', made, splits') /\ SplitsFit' /\ SameRatios(tree, tree')
           /\ ~gone' => PlacesKept \/ Lost
           /\ gone' => tree' = NoTree
<1>0. SplitsFit /\ Fits(tree, made, splits) /\ made \in Nat /\ gone \in BOOLEAN
    BY DEF PanesInv, LayoutsFit
<1>1. /\ Pend(s) \in Names /\ New(s) \in Names /\ New(s) \in Nat /\ New(s) = Pend(s) + 1
      /\ Placeholder(Pend(s))
      /\ \A u \in splits : /\ Pend(u) # New(s)
                           /\ u # s => New(s) # New(u)
    BY <1>0, SplitNames
<1>2. /\ gone' = gone /\ single' = single /\ made' = made /\ status' = status
      /\ splits' = splits \ {s}
      /\ tree' = ReplaceLeaf(tree, Pend(s), New(s))
    BY DEF SplitResolves, Answered, tabVars
<1>3. SplitsFit'
    BY <1>0, <1>2, SplitEnds
<1>4. CASE tree = NoTree
    <2>1. tree' = tree
        BY <1>2, <1>4, OfNoTree
    <2>2. Fits(tree', made, splits')
        BY <1>4, <2>1, NoTreeFits
    <2> QED BY <1>2, <1>3, <1>4, <2>1, <2>2, SameLayout
<1>5. CASE tree # NoTree
    <2>1. Laid(tree) /\ ~gone /\ New(s) \notin Ids(tree) /\ Ids(tree) \subseteq Names /\ Borns(tree) \subseteq Names
        BY <1>0, <1>5 DEF Fits, PanesInv, Names
    <2> DEFINE now(z) == IF z = Pend(s) THEN New(s) ELSE z
    <2>2. /\ Laid(tree') /\ Borns(tree') = Borns(tree) /\ SameRatios(tree, tree')
          /\ Ids(tree') = {now(z) : z \in Ids(tree)}
        BY <1>1, <1>2, <2>1, ReplaceInLayout
    <2>3. \A x, y \in Ids(tree) : Before(tree', now(x), now(y)) <=> Before(tree, x, y)
        <3> HIDE DEF now
        <3> QED BY <1>1, <1>2, <2>1, ReplaceOrder DEF Laid, now
    <2>4. \A x \in Ids(tree') : x \in Ids(tree) \/ x = New(s)
        BY <2>2
    <2>5. Fits(tree', made, splits')
        BY <1>0, <1>1, <1>2, <2>1, <2>2, <2>4 DEF Fits, Names
    <2>10. CASE Shown = {}
        BY <1>2, <1>3, <2>1, <2>2, <2>5, <2>10, NothingShown
    <2>11. ASSUME Shown # {}
           PROVE  /\ Shown = Ids(tree) /\ Order = Row(tree, Ids(tree))
                  /\ Shown' = Ids(tree') /\ Order' = Row(tree', Ids(tree'))
        BY <1>0, <1>2, <1>5, <2>1, <2>2, <2>11, LaidIsMore, ShownIs, ShownNext
    <2> SUFFICES ASSUME Shown # {}
                 PROVE  /\ Fits(tree', made, splits') /\ SplitsFit' /\ SameRatios(tree, tree')
                        /\ ~gone' => PlacesKept \/ Lost
                        /\ gone' => tree' = NoTree
        BY <2>10
    <2>6. Shown = Ids(tree) /\ Order = Row(tree, Ids(tree))
        BY <2>11
    <2>7. Shown' = Ids(tree') /\ Order' = Row(tree', Ids(tree'))
        BY <2>11
    <2>8. CASE Pend(s) \in Ids(tree)
        <3>1. PaneBecomes(Pend(s), New(s))
            <4>1. /\ Shown' = {now(z) : z \in Shown} /\ Order' = Row(tree', Shown')
                  /\ \A x, y \in Shown : Before(tree', now(x), now(y)) <=> Before(tree, x, y)
                BY <2>2, <2>3, <2>6, <2>7
            <4> HIDE DEF now
            <4> QED BY <2>1, <2>6, <4>1, RowRenamed DEF now
        <3> QED BY <1>1, <1>3, <2>1, <1>2, <2>2, <2>5, <2>6, <2>8, <3>1 DEF PlacesKept
    <2>9. CASE Pend(s) \notin Ids(tree)
        <3>1. Ids(tree') = Ids(tree)
            BY <2>2, <2>9
        <3>2. \A x, y \in Ids(tree) : Before(tree', x, y) <=> Before(tree, x, y)
            BY <2>3, <2>9
        <3>3. Row(tree', Ids(tree)) = Row(tree, Ids(tree))
            BY <3>2, RowSame
        <3> QED BY <1>3, <1>2, <2>1, <2>2, <2>5, <2>6, <2>7, <3>1, <3>3 DEF PlacesKept
    <2> QED BY <2>8, <2>9
<1> QED BY <1>4, <1>5

(* What removeLeaf makes of the layout is written: nothing is lost but the
   pane, unless only one is left. *)
LEMMA PaneTaken ==
    ASSUME PanesInv, Shown # {}, gone' = FALSE, status' # "connecting", tree # NoTree, NEW x, x \in Ids(tree),
           NEW u, u = RemoveLeaf(tree, x),
           IsLeaf(u) => tree' = NoTree /\ single' = u[<<>>].id /\ status' = "open", ~IsLeaf(u) => tree' = u
    PROVE  PaneGoes(x) /\ x \in Shown
<1>1. Laid(tree) /\ Shown = Ids(tree) /\ Order = Row(tree, Ids(tree))
    BY ShownIs
<1>2. /\ u # NoTree /\ Ids(u) = Ids(tree) \ {x} /\ SameRow(tree, u, Ids(u))
      /\ IsLeaf(u) => Ids(u) = {u[<<>>].id}
    BY <1>1, RemoveFromLayout
<1>3. CASE ~IsLeaf(u)
    <2>1. Shown' = Ids(u) /\ Order' = Row(u, Ids(u))
        BY <1>2, <1>3, ShownNext
    <2> QED BY <1>1, <1>2, <2>1, RowLess DEF SameRow
<1>4. CASE IsLeaf(u)
    <2>1. Shown' = Ids(u) /\ Order' = {} /\ Ids(u) = {u[<<>>].id}
        BY <1>2, <1>4, ShownNext
    <2>2. \A z \in Ids(tree) : <<z, z>> \notin Order
        BY <1>1, InOneRow DEF Row, Laid
    <2>3. Order \cap (Shown' \X Shown') = {}
        BY <1>1, <1>2, <2>1, <2>2
    <2> QED BY <1>1, <1>2, <2>1, <2>3 DEF PaneGoes
<1> QED BY <1>1, <1>3, <1>4

(* A placeholder is taken away again. *)
LEMMA SplitRejectsStep ==
    ASSUME PanesInv, NEW s \in splits, SplitRejects(s)
    PROVE  /\ Fits(tree', made, splits') /\ SplitsFit' /\ SameRatios(tree, tree')
           /\ ~gone' => PlacesKept \/ Lost
           /\ gone' => tree' = NoTree
<1> DEFINE u == RemoveLeaf(tree, Pend(s))
<1>0. SplitsFit /\ Fits(tree, made, splits) /\ made \in Nat /\ gone \in BOOLEAN
    BY DEF PanesInv, LayoutsFit
<1>1. /\ gone' = gone /\ single' = single /\ made' = made /\ status' = status
      /\ splits' = splits \ {s}
      /\ tree' = (IF IsLeaf(u) THEN NoTree ELSE u) /\ s.st = "opening"
    BY DEF SplitRejects, Answered, tabVars
<1>2. SplitsFit'
    BY <1>0, <1>1, SplitEnds
<1>3. ASSUME Fits(tree', made, splits)
      PROVE  Fits(tree', made, splits')
    BY <1>1, <1>3 DEF Fits
<1>4. CASE tree = NoTree
    <2>1. tree' = tree
        BY <1>1, <1>4, OfNoTree
    <2> QED BY <1>0, <1>1, <1>2, <1>3, <1>4, <2>1, SameLayout
<1>5. CASE tree # NoTree
    <2>1. Laid(tree) /\ ~gone
        BY <1>0, <1>5 DEF Fits, PanesInv
    <2> HIDE DEF u
    <2>2. CASE Pend(s) \notin Ids(tree) /\ u = tree
        <3>1. tree' = tree
            BY <1>1, <2>1, <2>2, LaidIsMore
        <3> QED BY <1>0, <1>1, <1>2, <1>3, <2>1, <3>1, SameLayout
    <2>3. CASE /\ Pend(s) \in Ids(tree) /\ u # NoTree
               /\ Ids(u) = Ids(tree) \ {Pend(s)} /\ Borns(u) \subseteq Borns(tree)
               /\ SameRatios(tree, u) /\ SameRow(tree, u, Ids(u))
               /\ IsLeaf(u) => Ids(u) = {u[<<>>].id}
               /\ ~IsLeaf(u) => Laid(u)
        <3>1. CASE IsLeaf(u)
            <4>1. tree' = NoTree
                BY <1>1, <3>1
            <4>2. Reverted
                BY <1>1, <1>5, <4>1 DEF Reverted
            <4> QED BY <1>1, <1>2, <2>1, <4>1, <4>2, NoTreeFits, OfNoTree DEF Lost, SameRatios
        <3>2. CASE ~IsLeaf(u)
            <4>1. tree' = u
                BY <1>1, <3>2
            <4>2. Fits(tree', made, splits')
                BY <1>0, <1>3, <2>3, <3>2, <4>1, FitsLess
            <4>3. Shown # {} => PaneGoes(Pend(s)) /\ Pend(s) \in Shown
                <5> SUFFICES ASSUME Shown # {}
                             PROVE  PaneGoes(Pend(s)) /\ Pend(s) \in Shown
                    OBVIOUS
                <5>1. /\ gone' = FALSE /\ u = RemoveLeaf(tree, Pend(s)) /\ status' # "connecting"
                    BY <1>0, <1>1, <2>1, ShownIs DEF u
                <5> QED BY <1>5, <2>1, <2>3, <3>2, <4>1, <5>1, PaneTaken
            <4> QED BY <1>1, <1>2, <2>1, <2>3, <4>1, <4>2, <4>3 DEF PlacesKept
        <3> QED BY <3>1, <3>2
    <2> QED BY <2>1, <2>2, <2>3, RemoveFromLayout DEF u
<1> QED BY <1>4, <1>5

(* closePane writes the layout it read. *)
LEMMA PaneClosedStep ==
    ASSUME PanesInv, NEW c \in closes, PaneClosed(c)
    PROVE  /\ Fits(tree', made, splits) /\ SplitsFit' /\ single' \in Names
           /\ SameRatios(tree, tree') \/ WrittenBack
           /\ ~gone' => PlacesKept \/ Lost
           /\ gone' \in BOOLEAN /\ (gone' => tree' = NoTree)
<1> DEFINE u == RemoveLeaf(c.read, c.id)
<1>0. /\ SplitsFit /\ Fits(tree, made, splits) /\ Fits(c.read, made, splits)
      /\ made \in Nat /\ gone \in BOOLEAN /\ single \in Names
    BY DEF PanesInv, LayoutsFit
<1>1. closes' = closes \ {c} /\ splits' = splits /\ made' = made
    BY DEF PaneClosed, Answered
<1>2. c.read # tree => WrittenBack
    BY <1>1 DEF WrittenBack
<1>3. CASE gone
    <2>1. tree' = tree /\ single' = single /\ gone' = gone /\ status' = status
        BY <1>3 DEF PaneClosed
    <2>2. SplitsFit'
        BY <1>0, <1>1, <2>1, SplitEnds
    <2> QED BY <1>0, <1>3, <2>1, <2>2, SameLayout DEF PanesInv
<1>4. CASE ~gone /\ u = NoTree
    <2>1. tree' = NoTree /\ single' = single /\ gone' = TRUE
        BY <1>4 DEF PaneClosed, TabGone
    <2>2. SplitsFit'
        BY <1>0, <1>1, <2>1, SplitEnds
    <2> QED BY <1>0, <2>1, <2>2, NoTreeFits, OfNoTree DEF SameRatios
<1>5. CASE ~gone /\ u # NoTree
    <2>1. /\ gone' = gone
          /\ tree' = IF IsLeaf(u) THEN NoTree ELSE u
          /\ single' = IF IsLeaf(u) THEN u[<<>>].id ELSE single
          /\ status' = IF IsLeaf(u) THEN "open" ELSE status
        BY <1>5 DEF PaneClosed
    <2>2. Laid(c.read)
        BY <1>0, <1>5, OfNoTree DEF Fits
    <2> HIDE DEF u
    <2>3. CASE c.id \notin Ids(c.read) /\ u = c.read
        <3>1. tree' = c.read /\ single' = single /\ status' = status
            BY <2>1, <2>2, <2>3, LaidIsMore
        <3>2. SplitsFit'
            BY <1>0, <1>1, <3>1, SplitEnds
        <3>3. tree' = tree => PlacesKept /\ SameRatios(tree, tree')
            BY <2>1, <3>1, SameLayout
        <3> QED BY <1>0, <1>2, <1>5, <2>1, <3>1, <3>2, <3>3 DEF Lost
    <2>4. CASE /\ c.id \in Ids(c.read) /\ u # NoTree
               /\ Ids(u) = Ids(c.read) \ {c.id} /\ Borns(u) \subseteq Borns(c.read)
               /\ SameRatios(c.read, u) /\ SameRow(c.read, u, Ids(u))
               /\ IsLeaf(u) => Ids(u) = {u[<<>>].id}
               /\ ~IsLeaf(u) => Laid(u)
        <3>1. single' = single \/ single' \in Ids(c.read)
            <4>1. CASE IsLeaf(u)
                BY <2>1, <2>4, <4>1
            <4> QED BY <2>1, <4>1
        <3>2. single' \in Names /\ (single' = single \/ \A s \in splits : New(s) # single')
            BY <1>0, <3>1 DEF Fits, Names
        <3>3. SplitsFit'
            BY <1>0, <1>1, <3>2, SplitEnds
        <3>4. Fits(tree', made, splits)
            BY <1>0, <2>1, <2>4, FitsLess, NoTreeFits
        <3>5. c.read = tree /\ Shown # {} => PaneGoes(c.id) /\ c.id \in Shown
            <4> SUFFICES ASSUME c.read = tree, Shown # {}
                         PROVE  PaneGoes(c.id) /\ c.id \in Shown
                OBVIOUS
            <4>1. /\ gone' = FALSE /\ u = RemoveLeaf(tree, c.id) /\ tree # NoTree
                  /\ c.id \in Ids(tree) /\ status' # "connecting"
                BY <1>0, <1>5, <2>1, <2>2, <2>4, LaidIsMore, ShownIs DEF u
            <4> QED BY <1>5, <2>1, <4>1, PaneTaken
        <3>6. c.read = tree => SameRatios(tree, tree')
            BY <2>1, <2>4, OfNoTree DEF SameRatios
        <3> QED BY <1>0, <1>2, <1>5, <2>1, <3>2, <3>3, <3>4, <3>5, <3>6 DEF Lost, PlacesKept
    <2> QED BY <2>2, <2>3, <2>4, RemoveFromLayout DEF u
<1> QED BY <1>3, <1>4, <1>5

(* The mouse moves one divider. *)
LEMMA DragStep ==
    ASSUME PanesInv, NEW r \in Int, Drag(r)
    PROVE  /\ Fits(tree', made, splits) /\ PlacesKept /\ (gone => tree' = NoTree) /\ DragHolds'
           /\ \A p \in SplitsOf(tree), q \in SplitsOf(tree') :
                 tree[p].born = tree'[q].born /\ tree[p].ratio # tree'[q].ratio =>
                    drag.born = tree[p].born \/ drag.moved
<1>0. /\ Fits(tree, made, splits) /\ gone \in BOOLEAN /\ DragHolds
      /\ tree' = SetRatioAt(tree, drag.path, r) /\ drag.on /\ drag' = drag
      /\ gone' = gone /\ single' = single /\ status' = status
    BY DEF PanesInv, LayoutsFit, Drag, tabVars
<1>1. CASE tree = NoTree
    <2>1. tree' = tree
        BY <1>0, <1>1, OfNoTree
    <2> QED BY <1>0, <1>1, <2>1, SameLayout, OfNoTree DEF DragHolds
<1>2. CASE tree # NoTree
    <2>1. Laid(tree) /\ ~gone
        BY <1>0, <1>2 DEF Fits, PanesInv
    <2>2. /\ Laid(tree') /\ Ids(tree') = Ids(tree) /\ Borns(tree') = Borns(tree)
          /\ SameRow(tree, tree', Ids(tree))
          /\ SplitsOf(tree') = SplitsOf(tree)
          /\ \A p \in SplitsOf(tree) : /\ tree'[p].born = tree[p].born
                                       /\ p # drag.path => tree'[p] = tree[p]
        BY <1>0, <2>1, RatioInLayout
    <2>3. Fits(tree', made, splits)
        BY <1>0, <2>2, FitsLess
    <2>4. PlacesKept
        <3> SUFFICES ASSUME Shown # {}
                     PROVE  PlacesKept
            BY NothingShown
        <3>1. Shown = Ids(tree) /\ Order = Row(tree, Ids(tree))
            BY <1>2, <2>1, ShownIs
        <3>2. Shown' = Ids(tree') /\ Order' = Row(tree', Ids(tree'))
            BY <1>0, <2>1, <2>2, LaidIsMore, ShownIs, ShownNext
        <3>3. Row(tree', Ids(tree)) = Row(tree, Ids(tree))
            BY <2>2, RowSame DEF SameRow
        <3> QED BY <2>2, <3>1, <3>2, <3>3 DEF PlacesKept
    <2>5. DragHolds'
        BY <1>0, <2>2 DEF DragHolds
    <2>6. ASSUME NEW p \in SplitsOf(tree), NEW q \in SplitsOf(tree'),
                 tree[p].born = tree'[q].born, tree[p].ratio # tree'[q].ratio
          PROVE  drag.born = tree[p].born \/ drag.moved
        <3>1. q \in SplitsOf(tree) /\ tree[q].born = tree[p].born
            BY <2>2, <2>6
        <3>2. p = q
            BY <2>1, <3>1 DEF Laid, Apart
        <3>3. p = drag.path
            BY <2>2, <2>6, <3>2
        <3> QED BY <1>0, <3>3 DEF DragHolds
    <2> QED BY <2>1, <2>3, <2>4, <2>5, <2>6
<1> QED BY <1>1, <1>2

----------------------------------------------------------------------------
(* The other steps, and all of them *)

(* What DividersStay says of one step. *)
DividersKept ==
    \A d \in DividersOf(tree), e \in DividersOf(tree') :
        d.born = e.born /\ d.ratio # e.ratio =>
            (drag.on /\ (drag.born = d.born \/ drag.moved)) \/ WrittenBack

(* A step that changes no ratio, or writes an old layout back, is one of those. *)
LEMMA Dividers ==
    SameRatios(tree, tree') \/ WrittenBack => DividersKept
BY DEF SameRatios, DividersKept, DividersOf

(* What an answer leaves alone holds still, a divider being dragged included. *)
LEMMA AnsweredHolds ==
    ASSUME PanesInv, Answered
    PROVE  DragHolds' /\ GroupFits' /\ made' \in 0..SPLITS
BY DEF PanesInv, DragHolds, GroupFits, Answered, Names

(* A split asked for has names nobody has. *)
LEMMA AskSplitStep ==
    ASSUME PanesInv, NEW x \in Shown, AskSplit(x)
    PROVE  PanesInv'
<1> DEFINE s == [n |-> made + 1, of |-> x, st |-> "asked"]
<1>0. /\ SplitsFit /\ Fits(tree, made, splits) /\ \A c \in closes : Fits(c.read, made, splits)
      /\ made \in 0..SPLITS /\ SPLITS \in Nat /\ single \in Names
    BY SplitPanesAssumption DEF PanesInv, LayoutsFit
<1>1. /\ made' = made + 1 /\ made' \in 0..SPLITS /\ splits' = splits \cup {s}
      /\ UNCHANGED <<tree, tabVars, closes, group, drag>> /\ ~Placeholder(x)
    BY <1>0 DEF AskSplit
<1>2. Names \subseteq Names'
    BY <1>0, <1>1 DEF Names
<1>3. x \in Names /\ x \in Ids(tree) \cup {single}
    BY <1>0, ShownIs DEF Shown, Names
<1>4. /\ s.n = made + 1 /\ s.of = x /\ s.st = "asked"
      /\ s \in [n : 1..made', of : Names', st : {"asked", "opening"}]
    BY <1>0, <1>1, <1>2, <1>3
<1> HIDE DEF s
<1>5. ASSUME NEW t, Fits(t, made, splits)
      PROVE  Fits(t, made', splits')
    <2>1. \A u \in splits' : \/ \E v \in splits : v.n = u.n /\ (u.st = "asked" => v.st = "asked")
                             \/ u.n \in Nat /\ u.n > made
        BY <1>0, <1>1, <1>4
    <2> QED BY <1>0, <1>1, <1>5, <2>1, FitsLater
<1>6. SplitsFit'
    <2>1. splits' \subseteq [n : 1..made', of : Names', st : {"asked", "opening"}]
        BY <1>0, <1>1, <1>2, <1>4 DEF SplitsFit
    <2>2. \A u \in splits : /\ u.n \in 1..made /\ u.of \in Names /\ New(u) # x /\ New(u) # single
                            /\ u.n # s.n /\ ~Placeholder(u.of)
        BY <1>0, <1>3, <1>4 DEF SplitsFit, Fits
    <2>3. \A y \in Names : New(s) # y
        BY <1>0, <1>4 DEF New, Names
    <2>4. ASSUME NEW u \in splits', NEW v \in splits'
          PROVE  (u.n = v.n => u = v) /\ New(u) # v.of
        BY <1>0, <1>1, <1>3, <1>4, <2>2, <2>3 DEF SplitsFit
    <2>5. \A u \in splits' : ~Placeholder(u.of) /\ New(u) # single'
        BY <1>0, <1>1, <1>4, <2>2, <2>3 DEF tabVars
    <2> QED BY <2>1, <2>4, <2>5 DEF SplitsFit
<1>7. LayoutsFit'
    BY <1>0, <1>1, <1>5 DEF LayoutsFit
<1>8. DragHolds' /\ GroupFits'
    BY <1>1, <1>2 DEF PanesInv, DragHolds, GroupFits
<1>9. RedialsFit'
    <2>1. \A d \in redials : d.n \in 1..made /\ d \in [n : 1..made', auto : BOOLEAN]
        BY <1>0, <1>1 DEF PanesInv, RedialsFit
    <2>2. \A d \in redials, u \in splits' : d.n # u.n
        BY <1>0, <1>1, <1>4, <2>1 DEF PanesInv, RedialsFit
    <2> QED BY <1>1, <2>1, <2>2 DEF PanesInv, RedialsFit, tabVars
<1> QED BY <1>0, <1>1, <1>2, <1>6, <1>7, <1>8, <1>9 DEF PanesInv, tabVars

(* A close reads the layout as it is. *)
LEMMA ClosePaneStep ==
    ASSUME PanesInv, NEW x \in Shown, ClosePane(x)
    PROVE  PanesInv'
<1>1. /\ closes' = closes \cup {[id |-> x, read |-> tree]}
      /\ UNCHANGED <<tree, tabVars, splits, group, drag, made>>
    BY DEF ClosePane
<1>2. LayoutsFit'
    BY <1>1 DEF PanesInv, LayoutsFit
<1> QED BY <1>1, <1>2 DEF PanesInv, SplitsFit, RedialsFit, DragHolds, GroupFits, Names, tabVars

(* A pane that joins or leaves the group leaves no group of one. *)
LEMMA ToggleBroadcastStep ==
    ASSUME PanesInv, NEW x \in Shown, ToggleBroadcast(x)
    PROVE  PanesInv'
<1>1. /\ tree # NoTree
      /\ group' = IF x \in group
                  THEN IF Cardinality(group) > 2 THEN group \ {x} ELSE {}
                  ELSE IF group = {} THEN Shown
                  ELSE group \cup {x}
      /\ UNCHANGED <<tree, tabVars, splits, closes, drag, made>>
    BY DEF ToggleBroadcast
<1>2. Laid(tree) /\ Shown = Ids(tree) /\ Shown \subseteq Names
    BY <1>1, ShownIs DEF PanesInv
<1>3. IsFiniteSet(Names)
    BY FS_Interval DEF Names, PanesInv
<1>4. IsFiniteSet(group) /\ IsFiniteSet(Shown) /\ group \subseteq Names /\ Cardinality(group) # 1
    BY <1>2, <1>3, FS_Subset DEF PanesInv, GroupFits
<1>5. Cardinality(group) \in Nat
    BY <1>4, FS_CardinalityType
<1>6. group' \subseteq Names
    BY <1>1, <1>2, <1>4
<1>7. Cardinality(group') # 1
    <2>1. CASE x \in group /\ Cardinality(group) > 2
        <3>1. Cardinality(group \ {x}) = Cardinality(group) - 1
            BY <1>4, <2>1, FS_RemoveElement
        <3> QED BY <1>1, <1>5, <2>1, <3>1
    <2>2. CASE x \in group /\ ~(Cardinality(group) > 2)
        BY <1>1, <2>2, FS_EmptySet
    <2>3. CASE x \notin group /\ group = {}
        BY <1>1, <1>2, <1>4, <2>3, LaidIsMore
    <2>4. CASE x \notin group /\ group # {}
        <3>1. Cardinality(group \cup {x}) = Cardinality(group) + 1 /\ Cardinality(group) # 0
            BY <1>4, <2>4, FS_AddElement, FS_EmptySet
        <3> QED BY <1>1, <1>5, <2>4, <3>1
    <2> QED BY <2>1, <2>2, <2>3, <2>4
<1>8. GroupFits'
    BY <1>1, <1>6, <1>7 DEF GroupFits, Names
<1> QED BY <1>1, <1>8 DEF PanesInv, LayoutsFit, SplitsFit, RedialsFit, DragHolds, Names, tabVars

(* A drag begins at a divider that is there; neither end of it changes the layout. *)
LEMMA DragEnds ==
    ASSUME PanesInv, EndDrag \/ (\E d \in DividersOf(tree) : StartDrag(d))
    PROVE  PanesInv' /\ UNCHANGED <<tree, tabVars>>
<1>1. UNCHANGED <<tree, tabVars, splits, closes, group, made>>
    BY DEF EndDrag, StartDrag
<1>2. Fits(tree, made, splits)
    BY DEF PanesInv, LayoutsFit
<1>3. DragHolds'
    <2>1. CASE EndDrag
        <3>1. drag' = NoDrag /\ <<>> \in Path /\ 0 \in Nat
            BY <2>1, EmptySeq DEF EndDrag, Path
        <3> QED BY <3>1 DEF NoDrag, DragHolds
    <2>2. ASSUME NEW d \in DividersOf(tree), StartDrag(d)
          PROVE  DragHolds'
        <3>1. PICK p \in SplitsOf(tree) : d = [born |-> tree[p].born, ratio |-> tree[p].ratio, path |-> p]
            BY DEF DividersOf
        <3>2. tree # NoTree
            BY <3>1, OfNoTree
        <3>3. p \in Path /\ tree[p].born \in Nat
            BY <1>2, <3>1, <3>2, Kinds DEF Fits, Laid
        <3>4. drag' = [on |-> TRUE, path |-> p, born |-> tree[p].born, moved |-> FALSE]
            BY <2>2, <3>1 DEF StartDrag
        <3> QED BY <1>1, <3>3, <3>4 DEF DragHolds
    <2> QED BY <2>1, <2>2
<1> QED BY <1>1, <1>3 DEF PanesInv, LayoutsFit, SplitsFit, RedialsFit, GroupFits, Names, tabVars

(* A step of a split: the layouts read by closePane fit as they did. *)
LEMMA OthersFit ==
    ASSUME PanesInv, made' = made, NEW s \in splits,
           splits' = splits \ {s} \/ splits' = WithSplit(s, "opening"), closes' \subseteq closes
    PROVE  \A c \in closes' : Fits(c.read, made', splits')
<1>0. SplitsFit /\ made \in Nat /\ \A c \in closes : Fits(c.read, made, splits)
    BY DEF PanesInv, LayoutsFit
<1>1. s \in [n : 1..made, of : Names, st : {"asked", "opening"}]
    BY <1>0 DEF SplitsFit
<1>2. [s EXCEPT !.st = "opening"].n = s.n /\ [s EXCEPT !.st = "opening"].st = "opening"
    BY <1>1
<1>3. \A u \in splits' : \E v \in splits : v.n = u.n /\ (u.st = "asked" => v.st = "asked")
    BY <1>2 DEF WithSplit
<1> QED BY <1>0, <1>3, FitsLater

(* What the tab's session and its reconnections need of a step: of the splits
   and of the redials no more than before, and a tab that connects still waits. *)
LEMMA RedialsStay ==
    ASSUME RedialsFit, made' = made, redials' \subseteq redials,
           \A s \in splits' : \E u \in splits : u.n = s.n,
           status' \in {"open", "closed"}
              \/ (status' = status /\ redials' = redials /\ (gone => gone'))
    PROVE  RedialsFit'
BY DEF RedialsFit

(* A session ends: only a pane that stood alone goes. *)
LEMMA SessionEndsStep ==
    ASSUME PanesInv, NEW x \in Shown, SessionEnds(x)
    PROVE  PanesInv' /\ PlacesKept /\ SameRatios(tree, tree')
<1>1. /\ UNCHANGED <<tree, single, gone, redials, splits, closes, group, drag, made>>
      /\ status' = "closed"
    BY DEF SessionEnds
<1>2. PanesInv'
    <2>1. RedialsFit'
        BY <1>1, RedialsStay DEF PanesInv
    <2> QED BY <1>1, <2>1 DEF PanesInv, LayoutsFit, SplitsFit, DragHolds, GroupFits, Names
<1>3. PlacesKept
    <2>1. gone' = FALSE
        BY <1>1, ShownIs DEF PanesInv
    <2>2. CASE tree = NoTree
        <3>1. Shown = {single} /\ Shown' = {} /\ Order = {} /\ Order' = {}
            BY <1>1, <2>1, <2>2, ShownIs, ShownNext
        <3> QED BY <3>1 DEF PlacesKept, PaneGoes
    <2>3. CASE tree # NoTree
        BY <1>1, <2>1, <2>3, ShownIs, ShownNext DEF PlacesKept
    <2> QED BY <2>2, <2>3
<1>4. SameRatios(tree, tree')
    BY <1>1, LaidIsMore, OfNoTree DEF PanesInv, LayoutsFit, Fits, SameRatios
<1> QED BY <1>2, <1>3, <1>4

(* A reconnection takes the layout down, and has a name nobody has. *)
LEMMA RedialStep ==
    ASSUME PanesInv, NEW auto \in BOOLEAN, Redial(auto)
    PROVE  PanesInv' /\ Redialled /\ SameRatios(tree, tree')
<1> DEFINE d == [n |-> made + 1, auto |-> auto]
<1>0. made \in 0..SPLITS /\ SPLITS \in Nat
    BY SplitPanesAssumption DEF PanesInv
<1>1. /\ made' = made + 1 /\ made' \in 0..SPLITS /\ redials' = redials \cup {d}
      /\ status = "closed" /\ status' = "connecting" /\ tree' = NoTree
      /\ drag' = [drag EXCEPT !.moved = @ \/ (drag.on /\ tree # NoTree)]
      /\ UNCHANGED <<single, gone, splits, closes, group>>
    BY <1>0 DEF Redial
<1>2. Names \subseteq Names'
    BY <1>0, <1>1 DEF Names
<1>3. d.n = made + 1 /\ d \in [n : 1..made', auto : BOOLEAN]
    BY <1>0, <1>1
<1> HIDE DEF d
<1>4. LayoutsFit'
    <2>1. \A s \in splits : \E u \in splits : u.n = s.n /\ (s.st = "asked" => u.st = "asked")
        OBVIOUS
    <2>2. \A c \in closes : Fits(c.read, made', splits)
        BY <1>0, <1>1, <2>1, FitsLater DEF PanesInv, LayoutsFit
    <2> QED BY <1>1, <2>2, NoTreeFits DEF LayoutsFit
<1>5. SplitsFit'
    BY <1>0, <1>1, <1>2 DEF PanesInv, SplitsFit
<1>6. RedialsFit'
    <2>1. \A e \in redials : e \in [n : 1..made', auto : BOOLEAN]
        BY <1>0, <1>1 DEF PanesInv, RedialsFit
    <2>2. \A s \in splits : s.n # d.n
        BY <1>0, <1>3 DEF PanesInv, SplitsFit
    <2> QED BY <1>1, <1>3, <2>1, <2>2 DEF PanesInv, RedialsFit
<1>7. DragHolds'
    BY <1>1, OfNoTree DEF PanesInv, DragHolds
<1>8. GroupFits' /\ single' \in Names'
    BY <1>1, <1>2 DEF PanesInv, GroupFits
<1>9. PanesInv'
    BY <1>1, <1>4, <1>5, <1>6, <1>7, <1>8 DEF PanesInv
<1> QED BY <1>1, <1>9, OfNoTree DEF Redialled, SameRatios

(* Its answer leaves the layout that stands by then. *)
LEMMA RedialEndsStep ==
    ASSUME PanesInv, NEW d \in redials, RedialResolves(d) \/ RedialRejects(d)
    PROVE  PanesInv' /\ (~gone' => PlacesKept \/ Redialled) /\ SameRatios(tree, tree')
<1>0. /\ made \in Nat /\ gone \in BOOLEAN /\ d.n \in 1..made
      /\ \A s \in splits : s.n \in 1..made /\ s.n # d.n
    BY DEF PanesInv, RedialsFit, SplitsFit
<1>1. /\ redials' = redials \ {d}
      /\ UNCHANGED <<tree, gone, splits, closes, group, drag, made>>
      /\ gone => UNCHANGED <<status, single>>
      /\ ~gone => status' \in {"open", "closed"} /\ (single' = single \/ single' = 2 * d.n + 1)
    BY DEF RedialResolves, RedialRejects, RedialEnds
<1>2. single' \in Names /\ \A s \in splits : New(s) # single'
    <2>1. 2 * d.n + 1 \in Names /\ \A s \in splits : New(s) # 2 * d.n + 1
        BY <1>0 DEF New, Names
    <2> QED BY <1>1, <2>1 DEF PanesInv, SplitsFit
<1>3. SplitsFit'
    BY <1>1, <1>2, SplitEnds DEF PanesInv
<1>4. RedialsFit'
    BY <1>1 DEF PanesInv, RedialsFit
<1>5. PanesInv'
    BY <1>1, <1>2, <1>3, <1>4 DEF PanesInv, LayoutsFit, DragHolds, GroupFits, Names
<1>6. ASSUME ~gone'
      PROVE  PlacesKept \/ Redialled
    <2>1. CASE Shown = {}
        BY <2>1, NothingShown
    <2>2. CASE Shown # {} /\ tree = NoTree
        <3>1. redials' # redials /\ status = "open"
            BY <1>1, <2>2, ShownIs
        <3> QED BY <2>2, <3>1 DEF Redialled
    <2>3. CASE Shown # {} /\ tree # NoTree
        <3>1. gone' = FALSE /\ status' # "connecting"
            BY <1>0, <1>1, <1>6
        <3> QED BY <1>1, <2>3, <3>1, ShownIs, ShownNext DEF PlacesKept
    <2> QED BY <2>1, <2>2, <2>3
<1>7. SameRatios(tree, tree')
    BY <1>1, LaidIsMore, OfNoTree DEF PanesInv, LayoutsFit, Fits, SameRatios
<1> QED BY <1>5, <1>6, <1>7

(* Every step keeps the invariant, the panes' places and the other dividers. *)
LEMMA PanesStep ==
    PanesInv /\ [PanesNext]_paneVars =>
        PanesInv' /\ (~gone' => PlacesKept \/ Lost) /\ DividersKept
<1> SUFFICES ASSUME PanesInv, [PanesNext]_paneVars
             PROVE  PanesInv' /\ (~gone' => PlacesKept \/ Lost) /\ DividersKept
    OBVIOUS
<1>0. gone \in BOOLEAN /\ single \in Names /\ made \in 0..SPLITS
    BY DEF PanesInv
<1>1. ASSUME UNCHANGED <<tree, tabVars>>
      PROVE  PlacesKept /\ DividersKept
    BY <1>1, SameLayout, Dividers DEF tabVars
<1>2. ASSUME NEW x \in Shown, AskSplit(x) \/ ClosePane(x) \/ ToggleBroadcast(x)
      PROVE  PanesInv' /\ UNCHANGED <<tree, tabVars>>
    BY <1>2, AskSplitStep, ClosePaneStep, ToggleBroadcastStep DEF AskSplit, ClosePane, ToggleBroadcast
<1>3. ASSUME NEW s \in splits, SplitPane(s) \/ SplitResolves(s) \/ SplitRejects(s)
      PROVE  PanesInv' /\ (~gone' => PlacesKept \/ Lost) /\ DividersKept
    <2>1. /\ Fits(tree', made, splits') /\ SplitsFit' /\ SameRatios(tree, tree')
          /\ ~gone' => PlacesKept \/ Lost
          /\ gone' => tree' = NoTree
        BY <1>3, SplitPaneStep, SplitResolvesStep, SplitRejectsStep
    <2>2. /\ Answered /\ UNCHANGED <<tabVars, closes>> /\ made' = made
          /\ splits' = splits \ {s} \/ splits' = WithSplit(s, "opening")
        BY <1>3 DEF SplitPane, SplitResolves, SplitRejects, Answered
    <2>3. LayoutsFit'
        BY <2>1, <2>2, OthersFit DEF LayoutsFit
    <2>4. PanesInv'
        <3>1. RedialsFit'
            <4>1. \A u \in splits' : \E v \in splits : v.n = u.n
                <5>1. [s EXCEPT !.st = "opening"].n = s.n
                    BY DEF PanesInv, SplitsFit
                <5> QED BY <2>2, <5>1 DEF WithSplit
            <4> QED BY <2>2, <4>1, RedialsStay DEF PanesInv, tabVars
        <3> QED BY <1>0, <2>1, <2>2, <2>3, <3>1, AnsweredHolds DEF PanesInv, Names, tabVars
    <2> QED BY <2>1, <2>4, Dividers
<1>4. ASSUME NEW c \in closes, PaneClosed(c)
      PROVE  PanesInv' /\ (~gone' => PlacesKept \/ Lost) /\ DividersKept
    <2>1. /\ Fits(tree', made, splits) /\ SplitsFit' /\ single' \in Names
          /\ SameRatios(tree, tree') \/ WrittenBack
          /\ ~gone' => PlacesKept \/ Lost
          /\ gone' \in BOOLEAN /\ (gone' => tree' = NoTree)
        BY <1>4, PaneClosedStep
    <2>2. /\ Answered /\ splits' = splits /\ made' = made /\ closes' = closes \ {c}
          /\ redials' = redials /\ (status' = "open" \/ status' = status) /\ (gone => gone')
        BY <1>4 DEF PaneClosed, TabGone, Answered
    <2>3. LayoutsFit'
        BY <2>1, <2>2 DEF LayoutsFit, PanesInv
    <2>4. PanesInv'
        <3>1. RedialsFit'
            BY <2>2, RedialsStay DEF PanesInv
        <3> QED BY <2>1, <2>2, <2>3, <3>1, AnsweredHolds DEF PanesInv, Names
    <2> QED BY <2>1, <2>4, Dividers
<1>5. ASSUME NEW r \in {-2, 3}, Drag(r)
      PROVE  PanesInv' /\ PlacesKept /\ DividersKept
    <2>1. /\ Fits(tree', made, splits) /\ PlacesKept /\ (gone => tree' = NoTree) /\ DragHolds'
          /\ \A p \in SplitsOf(tree), q \in SplitsOf(tree') :
                tree[p].born = tree'[q].born /\ tree[p].ratio # tree'[q].ratio =>
                   drag.born = tree[p].born \/ drag.moved
        <3>1. r \in Int
            OBVIOUS
        <3> QED BY <1>5, <3>1, DragStep
    <2>2. drag.on /\ UNCHANGED <<tabVars, splits, closes, group, made>>
        BY <1>5 DEF Drag
    <2>3. LayoutsFit' /\ SplitsFit' /\ RedialsFit' /\ GroupFits'
        BY <2>1, <2>2 DEF PanesInv, LayoutsFit, SplitsFit, RedialsFit, GroupFits, Names, tabVars
    <2>4. PanesInv'
        BY <1>0, <2>1, <2>2, <2>3 DEF PanesInv, Names, tabVars
    <2>5. DividersKept
        BY <2>1, <2>2 DEF DividersKept, DividersOf
    <2> QED BY <2>1, <2>4, <2>5
<1>6. CASE EndDrag \/ (\E d \in DividersOf(tree) : StartDrag(d))
    BY <1>1, <1>6, DragEnds
<1>7. CASE UNCHANGED paneVars
    <2>1. PanesInv'
        BY <1>7 DEF paneVars, tabVars, PanesInv, LayoutsFit, SplitsFit, RedialsFit, DragHolds, GroupFits, Names
    <2> QED BY <1>1, <1>7, <2>1 DEF paneVars
<1>8. ASSUME NEW x \in Shown, SessionEnds(x)
      PROVE  PanesInv' /\ PlacesKept /\ DividersKept
    BY <1>8, SessionEndsStep, Dividers
<1>9. CASE Reconnect \/ AutoReconnect
    BY <1>9, RedialStep, Dividers DEF Reconnect, AutoReconnect, Lost
<1>10. ASSUME NEW d \in redials, RedialResolves(d) \/ RedialRejects(d)
       PROVE  PanesInv' /\ (~gone' => PlacesKept \/ Lost) /\ DividersKept
    BY <1>10, RedialEndsStep, Dividers DEF Lost
<1>11. CASE LoopStops
    <2>1. UNCHANGED <<tree, status, single, gone, redials, splits, closes, group, drag, made>>
        BY <1>11 DEF LoopStops
    <2>2. PanesInv'
        BY <2>1 DEF PanesInv, LayoutsFit, SplitsFit, RedialsFit, DragHolds, GroupFits, Names
    <2> QED BY <2>1, <2>2, SameLayout, Dividers
<1> QED BY <1>1, <1>2, <1>3, <1>4, <1>5, <1>6, <1>7, <1>8, <1>9, <1>10, <1>11 DEF PanesNext

(* One pane, and nothing asked for. *)
LEMMA PanesStart == PanesInit => PanesInv
<1> SUFFICES ASSUME PanesInit
             PROVE  PanesInv
    OBVIOUS
<1>1. /\ tree = NoTree /\ single = 1 /\ gone = FALSE
      /\ status = "open" /\ redials = {} /\ splits = {} /\ closes = {} /\ group = {} /\ drag = NoDrag /\ made = 0
    BY DEF PanesInit
<1>2. LayoutsFit /\ SplitsFit /\ RedialsFit
    BY <1>1, NoTreeFits DEF LayoutsFit, SplitsFit, RedialsFit
<1>3. DragHolds
    BY <1>1, EmptySeq DEF DragHolds, NoDrag, Path
<1>4. GroupFits
    BY <1>1, FS_EmptySet DEF GroupFits
<1>5. made \in 0..SPLITS
    BY <1>1, SplitPanesAssumption
<1>6. single \in Names
    <2>1. Names = 1..1
        BY <1>1 DEF Names
    <2> QED BY <1>1, <2>1
<1> QED BY <1>1, <1>2, <1>3, <1>4, <1>5, <1>6 DEF PanesInv

(* The invariant says what the type invariant says, and orders the panes. *)
LEMMA PanesInvTypes == PanesInv => PanesTypeOK
<1> SUFFICES ASSUME PanesInv
             PROVE  PanesTypeOK
    OBVIOUS
<1>1. ASSUME tree # NoTree
      PROVE  /\ <<>> \in SplitsOf(tree) /\ Rooted(tree)
             /\ \A p, r \in LeavesOf(tree) : tree[p].id = tree[r].id => p = r
             /\ \A p, r \in SplitsOf(tree) : tree[p].born = tree[r].born => p = r
             /\ \A p \in SplitsOf(tree) : tree[p].ratio \in 1..9
    <2>1. Tree(tree) /\ Apart(tree) /\ <<>> \in SplitsOf(tree)
        BY <1>1 DEF PanesInv, LayoutsFit, Fits, Laid
    <2> QED BY <2>1, Kinds DEF Tree, Apart
<1>2. Names \subseteq 1..(2 * SPLITS + 1)
    BY SplitPanesAssumption DEF PanesInv, Names
<1>3. Cardinality(Lit) = 1 => group \ Shown # {}
    <2>1. group \ Shown = {} => Lit = group
        BY DEF Lit
    <2> QED BY <2>1 DEF PanesInv, GroupFits
<1> QED BY <1>1, <1>2, <1>3 DEF PanesTypeOK, PanesInv, RedialsFit, GroupFits

(* The invariant holds in every state of every behaviour. *)
THEOREM PanesInvariant == PanesSpec => []PanesInv
<1>1. PanesInv /\ [PanesNext]_paneVars => PanesInv'
    BY PanesStep
<1> QED BY <1>1, PanesStart, PTL DEF PanesSpec

(* A layout is a tree with room on both sides of each divider and each pane once
   in it, whatever splits, closes and refusals overlap. *)
THEOREM PanesTyped == PanesSpec => []PanesTypeOK
<1> QED BY PanesInvariant, PanesInvTypes, PTL

(* Whatever is split, closed or refused, the others stay on the screen in their
   order, apart from the four named ways to lose sight of a pane; the end of a
   session alone moves none. *)
THEOREM PlacesAlwaysKept == PanesSpec => PanesKeepPlaces
<1>1. PanesInv /\ [PanesNext]_paneVars =>
          [~gone' => PlacesKept \/ WrittenBack \/ Reverted \/ SplitLate \/ Redialled]_paneVars
    BY PanesStep DEF Lost
<1> QED BY <1>1, PanesInvariant, PTL DEF PanesSpec, PanesKeepPlaces

(* setRatioAt moves no other divider than the one the mouse took hold of, unless
   the layout changed meanwhile or an old one is written back. *)
THEOREM DividersAlwaysStay == PanesSpec => DividersStay
<1>1. PanesInv /\ [PanesNext]_paneVars =>
          [\A d \in DividersOf(tree), e \in DividersOf(tree') :
              d.born = e.born /\ d.ratio # e.ratio =>
                 (drag.on /\ (drag.born = d.born \/ drag.moved)) \/ WrittenBack]_paneVars
    BY PanesStep DEF DividersKept
<1> QED BY <1>1, PanesInvariant, PTL DEF PanesSpec, DividersStay

(* The panes stand in one row: none before itself, any two in some order. *)
InARow ==
    /\ \A x \in Shown : <<x, x>> \notin Order
    /\ \A x, y \in Shown : x # y => <<x, y>> \in Order \/ <<y, x>> \in Order
    /\ \A x, y, z \in Shown : <<x, y>> \in Order /\ <<y, z>> \in Order => <<x, z>> \in Order

(* So whatever SplitLayout renders has a first pane, a next one, and so on. *)
THEOREM PanesInARow == PanesSpec => []InARow
<1>1. PanesInv => InARow
    <2> SUFFICES ASSUME PanesInv
                 PROVE  InARow
        OBVIOUS
    <2>1. CASE Shown = {}
        BY <2>1 DEF InARow
    <2>2. CASE Shown # {} /\ tree = NoTree
        BY <2>2, ShownIs DEF InARow
    <2>3. CASE Shown # {} /\ tree # NoTree
        <3>1. Laid(tree) /\ Shown = Ids(tree) /\ Order = Row(tree, Ids(tree))
            BY <2>3, ShownIs
        <3>2. \A x, y \in Shown : <<x, y>> \in Order <=> Before(tree, x, y)
            BY <3>1 DEF Row
        <3> QED BY <3>1, <3>2, InOneRow DEF InARow, Laid
    <2> QED BY <2>1, <2>2, <2>3
<1> QED BY <1>1, PanesInvariant, PTL

----------------------------------------------------------------------------
(* What MCViews checks is both *)

(* A behaviour of MCViews is one of Files and one of SplitPanes: the side that
   is not its unit does nothing. *)
THEOREM ViewsAreBoth == ViewsSpec => FilesSpec /\ PanesSpec
<1>1. ViewsInit => FilesInit /\ PanesInit
    BY DEF ViewsInit
<1>2. [ViewsNext]_<<unit, fvars, paneVars>> => [FilesNext]_fvars /\ [PanesNext]_paneVars
    BY DEF ViewsNext
<1> QED BY <1>1, <1>2, PTL DEF ViewsSpec, FilesSpec, PanesSpec

(* Both sides hold what they can hold, whichever the tab shows. *)
THEOREM ViewsTyped == ViewsSpec => []ViewsTypeOK
<1>1. FilesTypeOK /\ PanesTypeOK => ViewsTypeOK
    BY DEF ViewsTypeOK
<1> QED BY <1>1, ViewsAreBoth, FilesTyped, PanesTyped, PTL
=============================================================================
