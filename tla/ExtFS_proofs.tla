---------------------------- MODULE ExtFS_proofs ----------------------------
(***************************************************************************)
(* Proofs about ExtFS, for any host tree and any names.  The invariant     *)
(* FSInv says what makes a list of items a catalog, what makes the host    *)
(* directory a tree, where the forks lie and what item the CNID that the   *)
(* Mac was given leads to.  The recursive functions of Obj and Inside are  *)
(* handled as solutions of their equations.                                *)
(***************************************************************************)
EXTENDS ExtFS, WellFoundedInduction, SequenceTheorems, TLAPS

LEMMA Less ==
  \E R : IsWellFoundedOn(R, Nat) /\ \A x, y \in Nat : x < y => <<x, y>> \in R
PROOF
  <1>1. IsWellFoundedOn(OpToRel(<, Nat), Nat)
    BY NatLessThanWellFounded
  <1>2. \A x, y \in Nat : x < y => <<x, y>> \in OpToRel(<, Nat)
    BY DEF OpToRel
  <1>3. QED
    BY <1>1, <1>2, Zenon

\* A set of numbers that is not empty has a lowest one.
LEMMA LowestIn ==
  ASSUME NEW S \in SUBSET Nat, S # {}
  PROVE  Lowest(S) \in S /\ \A j \in S : Lowest(S) <= j
PROOF
  <1>1. PICK R : IsWellFoundedOn(R, Nat) /\ \A x, y \in Nat : x < y => <<x, y>> \in R
    BY Less
  <1>2. S \subseteq Nat /\ IsWellFoundedOn(R, Nat)
    BY <1>1
  <1>3. \E x \in S : \A y \in S : ~(<<y, x>> \in R)
    BY <1>2, WFMin, Zenon
  <1>4. PICK x \in S : \A y \in S : ~(<<y, x>> \in R)
    BY <1>3
  <1>5. ASSUME NEW y \in S PROVE x <= y
    <2>1. x \in Nat /\ y \in Nat
      BY <1>2
    <2>2. ~(y < x)
      BY <1>1, <1>4, <2>1, Zenon
    <2>3. QED
      BY <2>1, <2>2
  <1>6. QED
    BY <1>5 DEF Lowest

\* Induction over the positions of a list: a set that holds a position
\* whenever it holds those before it holds them all.
LEMMA Induct ==
  ASSUME NEW L \in Nat, NEW T,
         \A n \in 1 .. L : (\A m \in 1 .. n - 1 : m \in T) => n \in T
  PROVE  \A n \in 1 .. L : n \in T
PROOF
  <1> DEFINE S == {n \in 1 .. L : n \notin T}
  <1>1. SUFFICES ASSUME S # {} PROVE FALSE
    OBVIOUS
  <1>2. S \in SUBSET Nat
    OBVIOUS
  <1>3. PICK n \in S : \A j \in S : n <= j
    BY <1>1, <1>2, LowestIn
  <1>4. ASSUME NEW m \in 1 .. n - 1 PROVE m \in T
    BY <1>3
  <1>5. QED
    BY <1>3, <1>4

(***************************************************************************)
(* Catalogs.                                                               *)
(***************************************************************************)
Item == [id : Nat, parent : Nat, pid : Nat, name : Names \cup {Empty}, guest : Names \cup {Empty}]

\* A list of items whose first is the root, in which every other item has an
\* earlier one as its parent.  The CNIDs are different, and all but the root's
\* were given out in turn.  No two items stand for the same host name in the
\* same directory, and an item's Mac name is the host name cut off.
IsCat(c) ==
    /\ c \in [items : Seq(Item), next : Nat]
    /\ Len(c.items) >= 1 /\ c.items[1].parent = 0 /\ c.items[1].pid = 1
    /\ c.next = fsUsrCNID + Len(c.items) - 1
    /\ \A i \in 2 .. Len(c.items) :
         /\ c.items[i].parent \in 1 .. i - 1
         /\ c.items[i].pid = c.items[c.items[i].parent].id
         /\ c.items[i].name \in Names
         /\ c.items[i].guest = Guest[c.items[i].name]
    /\ \A i \in 1 .. Len(c.items) :
         c.items[i].id < c.next /\ (c.items[i].id = RootID \/ c.items[i].id >= fsUsrCNID)
    /\ \A i, j \in 1 .. Len(c.items) : c.items[i].id = c.items[j].id => i = j
    /\ \A i, j \in 2 .. Len(c.items) :
         c.items[i].parent = c.items[j].parent /\ c.items[i].name = c.items[j].name => i = j

LEMMA CatItems ==
  ASSUME NEW c, IsCat(c)
  PROVE  /\ c.items \in Seq(Item) /\ Len(c.items) \in Nat
         /\ DOMAIN c.items = 1 .. Len(c.items)
         /\ \A i \in 1 .. Len(c.items) : c.items[i] \in Item
PROOF
  BY DEF IsCat

\* n is c with one more item.
IsNew(n, c, name, guest, p) == n = NewItem(c, name, guest, p)

LEMMA NewItemKeeps ==
  ASSUME NEW c, IsCat(c), NEW name \in Names, NEW guest \in Names, NEW p \in 1 .. Len(c.items),
         guest = Guest[name],
         \A i \in 2 .. Len(c.items) : c.items[i].parent = p => c.items[i].name # name,
         NEW n, IsNew(n, c, name, guest, p)
  PROVE  /\ IsCat(n) /\ Len(n.items) = Len(c.items) + 1
         /\ \A i \in 1 .. Len(c.items) : n.items[i] = c.items[i]
         /\ n.items[Len(c.items) + 1].name = name
         /\ n.items[Len(c.items) + 1].parent = p
PROOF
  <1> DEFINE it == [id |-> c.next, parent |-> p, pid |-> c.items[p].id, name |-> name, guest |-> guest]
             l == Len(c.items)
  <1>1. /\ c.items \in Seq(Item) /\ l \in Nat /\ c.next \in Nat
        /\ \A i \in 1 .. l : c.items[i] \in Item
    BY CatItems DEF IsCat
  <1>2. /\ it \in Item /\ it.id = c.next /\ it.parent = p /\ it.pid = c.items[p].id
        /\ it.name = name /\ it.guest = guest
    <2>1. c.next \in Nat /\ p \in Nat /\ c.items[p].id \in Nat
      BY <1>1 DEF Item
    <2>2. QED
      BY <2>1 DEF Item
  <1>3. n = [items |-> Append(c.items, it), next |-> c.next + 1]
    BY DEF IsNew, NewItem
  <1> HIDE DEF it
  <1>4. /\ Append(c.items, it) \in Seq(Item) /\ Len(Append(c.items, it)) = l + 1
        /\ \A i \in 1 .. l : Append(c.items, it)[i] = c.items[i]
        /\ Append(c.items, it)[l + 1] = it
    BY <1>1, <1>2
  <1>5. /\ n \in [items : Seq(Item), next : Nat] /\ n.items = Append(c.items, it)
        /\ n.next = c.next + 1
    BY <1>1, <1>3, <1>4
  <1>6. IsCat(n)
    <2>1. /\ Len(n.items) >= 1 /\ n.items[1].parent = 0 /\ n.items[1].pid = 1
          /\ n.next = fsUsrCNID + Len(n.items) - 1
      BY <1>1, <1>4, <1>5 DEF IsCat, fsUsrCNID
    <2>2. ASSUME NEW i \in 2 .. Len(n.items)
          PROVE  /\ n.items[i].parent \in 1 .. i - 1
                 /\ n.items[i].pid = n.items[n.items[i].parent].id
                 /\ n.items[i].name \in Names
                 /\ n.items[i].guest = Guest[n.items[i].name]
      <3>1. CASE i \in 2 .. l
        <4>1. n.items[i] = c.items[i] /\ c.items[i].parent \in 1 .. i - 1
          BY <1>1, <1>4, <1>5, <3>1 DEF IsCat
        <4>2. c.items[i].parent \in 1 .. l
          BY <1>1, <3>1, <4>1
        <4>3. n.items[c.items[i].parent] = c.items[c.items[i].parent]
          BY <1>4, <1>5, <4>2
        <4>4. QED
          BY <3>1, <4>1, <4>3 DEF IsCat
      <3>2. CASE i = l + 1
        <4>1. n.items[i] = it /\ n.items[p] = c.items[p]
          BY <1>4, <1>5, <3>2
        <4>2. /\ n.items[i].parent = p /\ n.items[i].pid = n.items[p].id
              /\ n.items[i].name = name /\ n.items[i].guest = guest
          BY <1>2, <4>1
        <4>3. p \in 1 .. i - 1
          BY <1>1, <3>2
        <4>4. QED
          BY <4>2, <4>3
      <3>3. i \in 2 .. l \/ i = l + 1
        BY <1>1, <1>4, <1>5
      <3>4. QED
        BY <3>1, <3>2, <3>3
    <2>3. ASSUME NEW i \in 1 .. Len(n.items)
          PROVE  /\ n.items[i].id < n.next
                 /\ n.items[i].id = RootID \/ n.items[i].id >= fsUsrCNID
      <3>1. CASE i \in 1 .. l
        <4>1. /\ n.items[i] = c.items[i] /\ c.items[i].id < c.next /\ c.items[i].id \in Nat
              /\ c.items[i].id = RootID \/ c.items[i].id >= fsUsrCNID
          BY <1>1, <1>4, <1>5, <3>1 DEF IsCat, Item
        <4>2. QED
          BY <1>1, <1>5, <4>1
      <3>2. CASE i = l + 1
        <4>1. n.items[i].id = c.next /\ n.next = c.next + 1
          BY <1>2, <1>4, <1>5, <3>2
        <4>2. c.next >= fsUsrCNID
          BY <1>1 DEF IsCat, fsUsrCNID
        <4>3. QED
          BY <1>1, <4>1, <4>2
      <3>3. QED
        BY <1>1, <1>4, <1>5, <3>1, <3>2
    <2>4. ASSUME NEW i \in 1 .. Len(n.items), NEW j \in 1 .. Len(n.items),
                 n.items[i].id = n.items[j].id
          PROVE  i = j
      <3>1. \A k \in 1 .. l : n.items[k] = c.items[k] /\ c.items[k].id < c.next /\ c.items[k].id \in Nat
        BY <1>1, <1>4, <1>5 DEF IsCat, Item
      <3>2. n.items[l + 1].id = c.next
        BY <1>2, <1>4, <1>5
      <3>3. CASE i \in 1 .. l /\ j \in 1 .. l
        BY <2>4, <3>1, <3>3 DEF IsCat
      <3> DEFINE u(k) == n.items[k].id
      <3>4. u(l + 1) = c.next /\ \A k \in 1 .. l : u(k) \in Nat /\ u(k) < c.next
        BY <3>1, <3>2
      <3>5. u(i) = u(j)
        BY <2>4
      <3> HIDE DEF u
      <3>6. ~(i = l + 1 /\ j \in 1 .. l) /\ ~(j = l + 1 /\ i \in 1 .. l)
        BY <1>1, <3>4, <3>5
      <3>7. QED
        BY <1>1, <1>4, <1>5, <3>3, <3>6
    <2>5. ASSUME NEW i \in 2 .. Len(n.items), NEW j \in 2 .. Len(n.items),
                 n.items[i].parent = n.items[j].parent, n.items[i].name = n.items[j].name
          PROVE  i = j
      <3>1. \A k \in 2 .. l : n.items[k] = c.items[k]
        BY <1>1, <1>4, <1>5
      <3>2. n.items[l + 1].name = name /\ n.items[l + 1].parent = p
        BY <1>2, <1>4, <1>5
      <3>3. CASE i \in 2 .. l /\ j \in 2 .. l
        BY <2>5, <3>1, <3>3 DEF IsCat
      <3>4. CASE i = l + 1 /\ j \in 2 .. l
        BY <2>5, <3>1, <3>2, <3>4
      <3>5. CASE j = l + 1 /\ i \in 2 .. l
        BY <2>5, <3>1, <3>2, <3>5
      <3>6. QED
        BY <1>1, <1>4, <1>5, <3>3, <3>4, <3>5
    <2>6. QED
      BY <1>5, <2>1, <2>2, <2>3, <2>4, <2>5 DEF IsCat
  <1>7. QED
    BY <1>2, <1>4, <1>5, <1>6

\* The catalog d is c, perhaps with items added.
Extends(c, d) ==
    /\ IsCat(d) /\ Len(c.items) <= Len(d.items)
    /\ \A i \in 1 .. Len(c.items) : d.items[i] = c.items[i]

\* A lookup adds at most an item and never finds the root.
LEMMA FoundKeeps ==
  ASSUME NEW c, IsCat(c), NEW name \in Names, NEW guest \in Names, NEW p \in 1 .. Len(c.items),
         NEW found \in SUBSET (1 .. Len(c.items)), \A i \in found : c.items[i].parent = p,
         guest = Guest[name],
         \A i \in 2 .. Len(c.items) :
           c.items[i].parent = p /\ c.items[i].name = name => i \in found
  PROVE  LET r == Found(c, found, name, guest, p)
         IN  /\ Extends(c, r.cat) /\ r.item \in 2 .. Len(r.cat.items)
             /\ r.cat.items[r.item].parent = p
             /\ r.item \in found \/ r.cat.items[r.item].name = name
PROOF
  <1> DEFINE r == Found(c, found, name, guest, p)
  <1>1. Len(c.items) \in Nat
    BY CatItems
  <1>2. CASE found # {}
    <2>1. r = [cat |-> c, item |-> Lowest(found)]
      BY <1>2 DEF Found
    <2>2. found \subseteq Nat
      BY <1>1
    <2>3. Lowest(found) \in found
      BY <1>2, <2>2, LowestIn
    <2>4. Lowest(found) # 1
      BY <2>3 DEF IsCat
    <2>5. Lowest(found) \in 2 .. Len(c.items)
      <3>1. Lowest(found) \in 1 .. Len(c.items)
        BY <2>3
      <3>2. QED
        BY <1>1, <2>4, <3>1
    <2>6. Extends(c, c)
      BY <1>1 DEF Extends
    <2>7. QED
      BY <2>1, <2>3, <2>5, <2>6
  <1>3. CASE found = {}
    <2> DEFINE n == NewItem(c, name, guest, p)
    <2>1. r = [cat |-> n, item |-> Len(c.items) + 1]
      BY <1>3 DEF Found
    <2>2. /\ IsCat(n) /\ Len(n.items) = Len(c.items) + 1
          /\ \A i \in 1 .. Len(c.items) : n.items[i] = c.items[i]
          /\ n.items[Len(c.items) + 1].name = name
          /\ n.items[Len(c.items) + 1].parent = p
      <3>1. \A i \in 2 .. Len(c.items) : c.items[i].parent = p => c.items[i].name # name
        BY <1>3
      <3>2. IsNew(n, c, name, guest, p)
        BY DEF IsNew
      <3> HIDE DEF n
      <3>3. QED
        BY <3>1, <3>2, NewItemKeeps
    <2> HIDE DEF n
    <2>3. Extends(c, n)
      BY <1>1, <2>2 DEF Extends
    <2>4. Len(c.items) + 1 \in 2 .. Len(n.items)
      BY <1>1, <2>2 DEF IsCat
    <2>5. r.cat = n /\ r.item = Len(c.items) + 1
      BY <2>1
    <2>6. QED
      BY <2>2, <2>3, <2>4, <2>5
  <1>4. QED
    BY <1>2, <1>3

LEMMA GuestNames ==
  /\ MacNames \subseteq Names /\ Empty \notin Names
  /\ \A n \in Names : Guest[n] \in Names
  /\ \A n \in MacNames : Guest[n] = n
PROOF
  BY ConstAssumption DEF ConstAssumption, MacNames

\* find_fsitem finds or makes the item of a host name.
LEMMA FindKeeps ==
  ASSUME NEW c, IsCat(c), NEW n \in Names, NEW p \in 1 .. Len(c.items)
  PROVE  LET r == find_fsitem(c, n, p)
         IN  /\ Extends(c, r.cat) /\ r.item \in 2 .. Len(r.cat.items)
             /\ r.cat.items[r.item].parent = p /\ r.cat.items[r.item].name = n
PROOF
  <1> DEFINE S == {i \in DOMAIN c.items : c.items[i].parent = p /\ c.items[i].name = n}
             u == Guest[n]
             r == Found(c, S, n, u, p)
  <1>1. /\ S \in SUBSET (1 .. Len(c.items))
        /\ \A i \in S : c.items[i].parent = p /\ c.items[i].name = n
        /\ \A i \in 2 .. Len(c.items) : c.items[i].parent = p /\ c.items[i].name = n => i \in S
    BY CatItems
  <1>2. u \in Names /\ u = Guest[n]
    BY GuestNames
  <1>3. find_fsitem(c, n, p) = r
    BY DEF find_fsitem
  <1> HIDE DEF S, u
  <1>4. /\ Extends(c, r.cat) /\ r.item \in 2 .. Len(r.cat.items)
        /\ r.cat.items[r.item].parent = p
        /\ r.item \in S \/ r.cat.items[r.item].name = n
    BY <1>1, <1>2, FoundKeeps
  <1> HIDE DEF r
  <1>5. r.item \in S => r.cat.items[r.item].name = n
    BY <1>1, <1>4 DEF Extends
  <1>6. QED
    BY <1>3, <1>4, <1>5

\* find_fsitem_guest finds the item of a Mac name, or takes it for a host name.
LEMMA FindGuestKeeps ==
  ASSUME NEW c, IsCat(c), NEW n \in MacNames, NEW p \in 1 .. Len(c.items)
  PROVE  LET r == find_fsitem_guest(c, n, p)
         IN  /\ Extends(c, r.cat) /\ r.item \in 2 .. Len(r.cat.items)
             /\ r.cat.items[r.item].parent = p
PROOF
  <1> DEFINE S == {i \in DOMAIN c.items : c.items[i].parent = p /\ c.items[i].guest = n}
             r == Found(c, S, n, n, p)
  <1>1. n \in Names /\ n = Guest[n]
    BY GuestNames
  <1>2. DOMAIN c.items = 1 .. Len(c.items) /\ Len(c.items) \in Nat
    BY CatItems
  <1>3. /\ S \in SUBSET (1 .. Len(c.items)) /\ \A i \in S : c.items[i].parent = p
    BY <1>2
  <1>4. ASSUME NEW i \in 2 .. Len(c.items), c.items[i].parent = p, c.items[i].name = n
        PROVE  i \in S
    <2>1. c.items[i].guest = n
      BY <1>1, <1>4 DEF IsCat
    <2>2. QED
      BY <1>2, <1>4, <2>1
  <1>5. find_fsitem_guest(c, n, p) = r
    BY DEF find_fsitem_guest
  <1> HIDE DEF S
  <1>6. /\ Extends(c, r.cat) /\ r.item \in 2 .. Len(r.cat.items)
        /\ r.cat.items[r.item].parent = p
    BY <1>1, <1>3, <1>4, FoundKeeps
  <1> HIDE DEF r
  <1>7. QED
    BY <1>5, <1>6

\* The CNIDs of the catalog c.
Ids(c) == {c.items[i].id : i \in 1 .. Len(c.items)}

LEMMA ByIdIn ==
  ASSUME NEW c, IsCat(c), NEW id \in Ids(c)
  PROVE  ById(c, id) \in 1 .. Len(c.items)
PROOF
  <1>1. DOMAIN c.items = 1 .. Len(c.items) /\ Len(c.items) \in Nat
    BY CatItems
  <1>2. WithId(c, id) \in SUBSET Nat /\ WithId(c, id) # {} /\ WithId(c, id) \subseteq 1 .. Len(c.items)
    BY <1>1 DEF WithId, Ids
  <1>3. QED
    BY <1>2, LowestIn DEF ById

LEMMA GetItemKeeps ==
  ASSUME NEW c, IsCat(c), NEW id \in Ids(c), NEW name \in MacNames \cup {Empty}
  PROVE  /\ Extends(c, GetItem(c, id, name).cat)
         /\ GetItem(c, id, name).item \in 1 .. Len(GetItem(c, id, name).cat.items)
         /\ name # Empty => GetItem(c, id, name).item \in 2 .. Len(GetItem(c, id, name).cat.items)
PROOF
  <1>1. ById(c, id) \in 1 .. Len(c.items) /\ Len(c.items) \in Nat
    BY ByIdIn, CatItems
  <1>2. CASE name = Empty
    <2>1. GetItem(c, id, name) = [cat |-> c, item |-> ById(c, id)]
      BY <1>2 DEF GetItem
    <2>2. Extends(c, c)
      BY <1>1 DEF Extends
    <2>3. QED
      BY <1>1, <1>2, <2>1, <2>2
  <1>3. CASE name # Empty
    <2>1. GetItem(c, id, name) = find_fsitem_guest(c, name, ById(c, id)) /\ name \in MacNames
      BY <1>3 DEF GetItem
    <2> DEFINE r == find_fsitem_guest(c, name, ById(c, id))
    <2>2. Extends(c, r.cat) /\ r.item \in 2 .. Len(r.cat.items)
      BY <1>1, <2>1, FindGuestKeeps
    <2>3. Len(r.cat.items) \in Nat
      BY <2>2, CatItems DEF Extends
    <2> HIDE DEF r
    <2>4. r.item \in 1 .. Len(r.cat.items)
      BY <2>2, <2>3
    <2>5. QED
      BY <2>1, <2>2, <2>4 DEF r
  <1>4. QED
    BY <1>2, <1>3

\* A lookup loses no CNID.
LEMMA IdsKept ==
  ASSUME NEW c, NEW d, IsCat(c), Extends(c, d)
  PROVE  Ids(c) \subseteq Ids(d)
PROOF
  <1>1. Len(c.items) \in Nat /\ Len(d.items) \in Nat /\ Len(c.items) <= Len(d.items)
    BY CatItems DEF Extends
  <1>2. ASSUME NEW i \in 1 .. Len(c.items) PROVE c.items[i].id \in Ids(d)
    <2>1. i \in 1 .. Len(d.items) /\ d.items[i] = c.items[i]
      BY <1>1 DEF Extends
    <2>2. QED
      BY <2>1 DEF Ids
  <1>3. QED
    BY <1>2 DEF Ids

\* The effect of swap_parent_ids and of the exchange of the two CNIDs.
Swapped(x, a, b) == IF x = a THEN b ELSE IF x = b THEN a ELSE x

LEMMA SwapItems ==
  ASSUME NEW c, IsCat(c), NEW i \in 1 .. Len(c.items), NEW j \in 1 .. Len(c.items)
  PROVE  LET s == SwapIds(c, i, j)
             a == c.items[i].id
             b == c.items[j].id
         IN  /\ s \in [items : Seq(Item), next : Nat] /\ s.next = c.next
             /\ Len(s.items) = Len(c.items)
             /\ \A k \in 1 .. Len(c.items) :
                  /\ s.items[k].parent = c.items[k].parent
                  /\ s.items[k].name = c.items[k].name
                  /\ s.items[k].guest = c.items[k].guest
                  /\ s.items[k].pid = Swapped(c.items[k].pid, a, b)
                  /\ s.items[k].id = Swapped(c.items[k].id, a, b)
PROOF
  <1> DEFINE a == c.items[i].id
             b == c.items[j].id
             l == Len(c.items)
             q == SwapParentIds(c.items, a, b)
             w == [k \in DOMAIN q |-> [q[k] EXCEPT !.id = IF k = i THEN b ELSE IF k = j THEN a ELSE @]]
             s == SwapIds(c, i, j)
  <1>1. /\ DOMAIN c.items = 1 .. l /\ l \in Nat /\ c.next \in Nat
        /\ \A k \in 1 .. l : c.items[k] \in Item
    BY CatItems DEF IsCat
  <1>2. a \in Nat /\ b \in Nat
    BY <1>1 DEF Item
  <1>3. DOMAIN q = 1 .. l
    BY <1>1 DEF SwapParentIds
  <1>4. ASSUME NEW k \in 1 .. l
        PROVE  /\ q[k] \in Item /\ q[k].pid = Swapped(c.items[k].pid, a, b)
               /\ q[k].id = c.items[k].id /\ q[k].parent = c.items[k].parent
               /\ q[k].name = c.items[k].name /\ q[k].guest = c.items[k].guest
    <2> DEFINE v == Swapped(c.items[k].pid, a, b)
    <2>1. v \in Nat
      BY <1>1, <1>2 DEF Swapped, Item
    <2>2. q[k] = [c.items[k] EXCEPT !.pid = v]
      BY <1>1 DEF SwapParentIds, Swapped
    <2> HIDE DEF v
    <2>3. c.items[k] \in Item
      BY <1>1
    <2>4. /\ [c.items[k] EXCEPT !.pid = v] \in Item /\ [c.items[k] EXCEPT !.pid = v].pid = v
          /\ [c.items[k] EXCEPT !.pid = v].id = c.items[k].id
          /\ [c.items[k] EXCEPT !.pid = v].parent = c.items[k].parent
          /\ [c.items[k] EXCEPT !.pid = v].name = c.items[k].name
          /\ [c.items[k] EXCEPT !.pid = v].guest = c.items[k].guest
      BY <2>1, <2>3 DEF Item
    <2>5. QED
      BY <2>2, <2>4 DEF v
  <1>5. s = [c EXCEPT !.items = w]
    BY DEF SwapIds
  <1> HIDE DEF q
  <1>6. ASSUME NEW k \in 1 .. l
        PROVE  /\ w[k] \in Item /\ w[k].pid = q[k].pid /\ w[k].parent = q[k].parent
               /\ w[k].name = q[k].name /\ w[k].guest = q[k].guest
               /\ w[k].id = Swapped(c.items[k].id, a, b)
    <2> DEFINE v == IF k = i THEN b ELSE IF k = j THEN a ELSE q[k].id
    <2>1. q[k] \in Item /\ q[k].id = c.items[k].id
      BY <1>4
    <2>2. v \in Nat
      BY <1>2, <2>1 DEF Item
    <2>3. v = Swapped(c.items[k].id, a, b)
      <3>1. c.items[k].id = a => k = i
        BY DEF IsCat
      <3>2. c.items[k].id = b => k = j
        BY DEF IsCat
      <3>3. QED
        BY <2>1, <3>1, <3>2 DEF Swapped
    <2>4. w[k] = [q[k] EXCEPT !.id = v]
      BY <1>3
    <2> HIDE DEF v, w
    <2>5. /\ [q[k] EXCEPT !.id = v] \in Item /\ [q[k] EXCEPT !.id = v].id = v
          /\ [q[k] EXCEPT !.id = v].pid = q[k].pid
          /\ [q[k] EXCEPT !.id = v].parent = q[k].parent
          /\ [q[k] EXCEPT !.id = v].name = q[k].name
          /\ [q[k] EXCEPT !.id = v].guest = q[k].guest
      BY <2>1, <2>2 DEF Item
    <2>6. QED
      BY <2>3, <2>4, <2>5
  <1>7. DOMAIN w = 1 .. l /\ w = [k \in 1 .. l |-> w[k]]
    BY <1>3
  <1> HIDE DEF w
  <1>8. w \in Seq(Item) /\ Len(w) = l
    <2>1. w \in [1 .. l -> Item]
      BY <1>6, <1>7
    <2>2. QED
      BY <1>1, <2>1
  <1>9. s \in [items : Seq(Item), next : Nat] /\ s.items = w /\ s.next = c.next
    BY <1>1, <1>5, <1>8 DEF IsCat
  <1> HIDE DEF s, a, b
  <1>10. /\ s \in [items : Seq(Item), next : Nat] /\ s.next = c.next
         /\ Len(s.items) = Len(c.items)
         /\ \A k \in 1 .. Len(c.items) :
              /\ s.items[k].parent = c.items[k].parent
              /\ s.items[k].name = c.items[k].name
              /\ s.items[k].guest = c.items[k].guest
              /\ s.items[k].pid = Swapped(c.items[k].pid, a, b)
              /\ s.items[k].id = Swapped(c.items[k].id, a, b)
    BY <1>4, <1>6, <1>8, <1>9
  <1>11. QED
    BY <1>10 DEF s, a, b

\* Exchanging the CNIDs of two items keeps all that makes a catalog.
LEMMA SwapKeeps ==
  ASSUME NEW c, IsCat(c), NEW i \in 1 .. Len(c.items), NEW j \in 1 .. Len(c.items)
  PROVE  IsCat(SwapIds(c, i, j)) /\ Len(SwapIds(c, i, j).items) = Len(c.items)
PROOF
  <1> DEFINE s == SwapIds(c, i, j)
             a == c.items[i].id
             b == c.items[j].id
             l == Len(c.items)
  <1>1. /\ s \in [items : Seq(Item), next : Nat] /\ s.next = c.next
        /\ Len(s.items) = Len(c.items)
        /\ \A k \in 1 .. Len(c.items) :
             /\ s.items[k].parent = c.items[k].parent
             /\ s.items[k].name = c.items[k].name
             /\ s.items[k].guest = c.items[k].guest
             /\ s.items[k].pid = Swapped(c.items[k].pid, a, b)
             /\ s.items[k].id = Swapped(c.items[k].id, a, b)
    BY SwapItems
  <1>2. l \in Nat /\ l >= 1 /\ c.items[1].parent = 0
    BY CatItems DEF IsCat
  <1>3. /\ a < c.next /\ b < c.next
        /\ a = RootID \/ a >= fsUsrCNID
        /\ b = RootID \/ b >= fsUsrCNID
    BY DEF IsCat
  <1> HIDE DEF s, a, b
  <1>4. /\ Len(s.items) >= 1 /\ s.items[1].parent = 0 /\ s.items[1].pid = 1
        /\ s.next = fsUsrCNID + Len(s.items) - 1
    <2>1. a # 1 /\ b # 1
      BY <1>3 DEF RootID, fsUsrCNID
    <2>2. QED
      BY <1>1, <1>2, <2>1 DEF IsCat, Swapped
  <1>5. ASSUME NEW k \in 2 .. Len(s.items)
        PROVE  /\ s.items[k].parent \in 1 .. k - 1
               /\ s.items[k].pid = s.items[s.items[k].parent].id
               /\ s.items[k].name \in Names
               /\ s.items[k].guest = Guest[s.items[k].name]
    <2>1. k \in 2 .. l /\ k \in 1 .. l
      BY <1>1, <1>2
    <2>2. /\ c.items[k].parent \in 1 .. k - 1
          /\ c.items[k].pid = c.items[c.items[k].parent].id
          /\ c.items[k].name \in Names
          /\ c.items[k].guest = Guest[c.items[k].name]
      BY <2>1 DEF IsCat
    <2> DEFINE q == c.items[k].parent
    <2>3. q \in 1 .. l
      BY <1>2, <2>1, <2>2
    <2>4. /\ s.items[k].parent = q /\ s.items[k].pid = Swapped(c.items[q].id, a, b)
          /\ s.items[k].name = c.items[k].name /\ s.items[k].guest = c.items[k].guest
      BY <1>1, <2>1, <2>2
    <2>5. s.items[q].id = Swapped(c.items[q].id, a, b)
      BY <1>1, <2>3
    <2>6. QED
      BY <2>2, <2>4, <2>5
  <1>6. ASSUME NEW k \in 1 .. Len(s.items)
        PROVE  s.items[k].id < s.next /\ (s.items[k].id = RootID \/ s.items[k].id >= fsUsrCNID)
    <2>1. /\ k \in 1 .. l /\ c.items[k].id < c.next
          /\ c.items[k].id = RootID \/ c.items[k].id >= fsUsrCNID
      BY <1>1 DEF IsCat
    <2>2. QED
      BY <1>1, <1>3, <2>1 DEF Swapped
  <1>7. ASSUME NEW k \in 1 .. Len(s.items), NEW m \in 1 .. Len(s.items),
               s.items[k].id = s.items[m].id
        PROVE  k = m
    <2>1. k \in 1 .. l /\ m \in 1 .. l
      BY <1>1
    <2>2. Swapped(c.items[k].id, a, b) = Swapped(c.items[m].id, a, b)
      BY <1>1, <1>7, <2>1
    <2>3. c.items[k].id = c.items[m].id
      BY <2>2 DEF Swapped
    <2>4. QED
      BY <2>1, <2>3 DEF IsCat
  <1>8. ASSUME NEW k \in 2 .. Len(s.items), NEW m \in 2 .. Len(s.items),
               s.items[k].parent = s.items[m].parent, s.items[k].name = s.items[m].name
        PROVE  k = m
    <2>1. k \in 2 .. l /\ m \in 2 .. l /\ k \in 1 .. l /\ m \in 1 .. l
      BY <1>1, <1>2
    <2>2. QED
      BY <1>1, <1>8, <2>1 DEF IsCat
  <1>9. IsCat(s)
    BY <1>1, <1>4, <1>5, <1>6, <1>7, <1>8 DEF IsCat
  <1>10. QED
    BY <1>1, <1>9 DEF s

LEMMA CatInit == Init => IsCat(cat)
PROOF
  <1> SUFFICES ASSUME Init PROVE IsCat(cat)
    OBVIOUS
  <1> DEFINE r == [id |-> RootID, parent |-> 0, pid |-> 1, name |-> Empty, guest |-> Empty]
  <1>1. cat = [items |-> <<r>>, next |-> fsUsrCNID]
    BY DEF Init
  <1>2. r \in Item /\ r.parent = 0 /\ r.id = RootID /\ r.pid = 1
    BY DEF Item, RootID
  <1> HIDE DEF r
  <1>3. <<r>> \in Seq(Item) /\ Len(<<r>>) = 1 /\ <<r>>[1] = r
    BY <1>2
  <1>4. cat \in [items : Seq(Item), next : Nat] /\ cat.items = <<r>> /\ cat.next = 16
    BY <1>1, <1>3 DEF fsUsrCNID
  <1>5. QED
    BY <1>2, <1>3, <1>4 DEF IsCat, RootID, fsUsrCNID

(***************************************************************************)
(* What the items stand for, with the host tree a as a parameter.  The     *)
(* recursive function of Obj is the one that ObjStep maps to itself.       *)
(***************************************************************************)
Value == Objects \cup {Root, None}

NameIn(a, d, n) ==
    IF \E o \in Objects : a[o] = <<d, n>> THEN CHOOSE o \in Objects : a[o] = <<d, n>> ELSE None

ObjStep(a, c, f) ==
    [k \in DOMAIN c.items |->
        IF k = 1 THEN Root ELSE NameIn(a, f[c.items[k].parent], c.items[k].name)]

ObjFun(a, c) == CHOOSE f : f = ObjStep(a, c, f)

\* A host tree: no two objects with the same path, no object in a directory
\* that does not exist.
IsHost(a) ==
    /\ a \in [Objects -> {None} \cup Entry]
    /\ \A o, x \in Objects : a[o] # None /\ a[o] = a[x] => o = x
    /\ \A o \in Objects : a[o] # None /\ a[o][1] # Root => a[a[o][1]] # None

LEMMA ObjIs ==
  ASSUME NEW c, NEW i
  PROVE  /\ Obj(c, i) = ObjFun(at, c)[i]
         /\ Obj(c, i)' = ObjFun(at', c)[i]
         /\ Obj(cat, i)' = ObjFun(at', cat')[i]
PROOF
  <1>1. Obj(c, i) = ObjFun(at, c)[i]
    BY DEF Obj, ObjFun, ObjStep, InDir, NameIn
  <1>2. Obj(c, i)' = ObjFun(at', c)[i]
    BY DEF Obj, ObjFun, ObjStep, InDir, NameIn
  <1>3. Obj(cat, i)' = ObjFun(at', cat')[i]
    BY DEF Obj, ObjFun, ObjStep, InDir, NameIn
  <1>4. QED
    BY <1>1, <1>2, <1>3

LEMMA Distinct ==
  /\ Root \notin Objects /\ None \notin Objects /\ None # Root
  /\ None \notin Value \X Names /\ None \notin Entry
  /\ Dirs \subseteq Objects /\ Files \subseteq Objects /\ AllDirs \subseteq Value
  /\ None \notin AllDirs /\ Files \cap AllDirs = {}
  /\ None \notin Files /\ Loose \notin Files
PROOF
  BY ConstAssumption DEF ConstAssumption, Objects, AllDirs, Value, Entry

\* What a name stands for.
LEMMA NameInIs ==
  ASSUME NEW a, IsHost(a), NEW d \in Value, NEW n \in Names
  PROVE  /\ \/ NameIn(a, d, n) = None
            \/ NameIn(a, d, n) \in Objects /\ a[NameIn(a, d, n)] = <<d, n>> /\ d \in AllDirs
         /\ \A o \in Objects : a[o] = <<d, n>> => NameIn(a, d, n) = o
PROOF
  <1>1. <<d, n>> # None
    BY Distinct
  <1>2. CASE \E o \in Objects : a[o] = <<d, n>>
    <2> DEFINE v == NameIn(a, d, n)
    <2>1. v \in Objects /\ a[v] = <<d, n>>
      BY <1>2 DEF NameIn
    <2> HIDE DEF v
    <2>2. a[v] \in Entry
      BY <1>1, <2>1 DEF IsHost
    <2>3. d \in AllDirs
      BY <2>1, <2>2 DEF Entry
    <2>4. \A o \in Objects : a[o] = <<d, n>> => v = o
      BY <1>1, <2>1 DEF IsHost
    <2>5. QED
      BY <2>1, <2>3, <2>4 DEF v
  <1>3. CASE ~ \E o \in Objects : a[o] = <<d, n>>
    BY <1>3 DEF NameIn
  <1>4. QED
    BY <1>2, <1>3

\* Parents come first, so the recursion is well-founded: there is a function
\* that ObjStep maps to itself.
LEMMA ObjExists ==
  ASSUME NEW a, NEW c, IsCat(c)
  PROVE  \E f : f = ObjStep(a, c, f)
PROOF
  <1> DEFINE L == Len(c.items)
             P(n, f) == \A k \in 1 .. n :
                          f[k] = IF k = 1 THEN Root
                                 ELSE NameIn(a, f[c.items[k].parent], c.items[k].name)
             T == {n \in 1 .. L : \E f : P(n, f)}
  <1>1. L \in Nat /\ L >= 1 /\ DOMAIN c.items = 1 .. L
    BY CatItems DEF IsCat
  <1>2. ASSUME NEW n \in 1 .. L, \A m \in 1 .. n - 1 : m \in T
        PROVE  n \in T
    <2>1. CASE n = 1
      <3> DEFINE f == [k \in 1 .. 1 |-> Root]
      <3>1. P(n, f)
        BY <2>1
      <3>2. QED
        BY <3>1
    <2>2. CASE n # 1
      <3>1. n - 1 \in 1 .. n - 1
        BY <1>1, <2>2
      <3>2. PICK f : P(n - 1, f)
        BY <1>2, <3>1
      <3> DEFINE g == [k \in 1 .. n |->
                         IF k = n THEN NameIn(a, f[c.items[n].parent], c.items[n].name)
                                  ELSE f[k]]
      <3>3. ASSUME NEW k \in 1 .. n
            PROVE  g[k] = IF k = 1 THEN Root
                          ELSE NameIn(a, g[c.items[k].parent], c.items[k].name)
        <4>1. CASE k = 1
          <5>1. g[k] = f[k] /\ k \in 1 .. n - 1
            BY <2>2, <4>1
          <5>2. QED
            BY <3>2, <4>1, <5>1
        <4>2. CASE k # 1
          <5>1. c.items[k].parent \in 1 .. k - 1
            BY <1>1, <4>2 DEF IsCat
          <5>2. c.items[k].parent \in 1 .. n /\ c.items[k].parent # n
            BY <1>1, <5>1
          <5>3. g[c.items[k].parent] = f[c.items[k].parent]
            BY <5>2
          <5>4. CASE k = n
            BY <4>2, <5>3, <5>4
          <5>5. CASE k # n
            <6>1. k \in 1 .. n - 1 /\ g[k] = f[k]
              BY <1>1, <5>5
            <6> HIDE DEF g
            <6>2. QED
              BY <3>2, <4>2, <5>3, <6>1
          <5>6. QED
            BY <5>4, <5>5
        <4>3. QED
          BY <4>1, <4>2
      <3>4. P(n, g)
        BY <3>3
      <3>5. QED
        BY <3>4
    <2>3. QED
      BY <2>1, <2>2
  <1> HIDE DEF T
  <1>3. \A n \in 1 .. L : n \in T
    BY <1>1, <1>2, Induct
  <1>4. L \in T
    BY <1>1, <1>3
  <1> USE DEF T
  <1>5. PICK f : P(L, f)
    BY <1>4
  <1> DEFINE h == [k \in 1 .. L |-> f[k]]
  <1>6. ASSUME NEW k \in 1 .. L
        PROVE  h[k] = IF k = 1 THEN Root
                      ELSE NameIn(a, h[c.items[k].parent], c.items[k].name)
    <2>1. k # 1 => c.items[k].parent \in 1 .. L
      BY <1>1 DEF IsCat
    <2>2. QED
      BY <1>5, <2>1
  <1>7. h = ObjStep(a, c, h)
    <2>1. h = [k \in 1 .. L |-> h[k]]
      OBVIOUS
    <2> HIDE DEF h
    <2>2. h = [k \in 1 .. L |-> IF k = 1 THEN Root
                      ELSE NameIn(a, h[c.items[k].parent], c.items[k].name)]
      BY <1>6, <2>1
    <2>3. QED
      BY <1>1, <2>2 DEF ObjStep
  <1>8. QED
    BY <1>7

\* The object of an item is what its name stands for in its parent's object.
LEMMA ObjFacts ==
  ASSUME NEW a, IsHost(a), NEW c, IsCat(c)
  PROVE  LET f == ObjFun(a, c)
             L == Len(c.items)
         IN  /\ f[1] = Root /\ \A k \in 1 .. L : f[k] \in Value
             /\ \A k \in 2 .. L :
                  /\ c.items[k].parent \in 1 .. k - 1 /\ c.items[k].parent \in 1 .. L
                  /\ f[c.items[k].parent] \in Value
                  /\ f[k] = NameIn(a, f[c.items[k].parent], c.items[k].name)
                  /\ \/ f[k] = None
                     \/ /\ f[k] \in Objects /\ f[c.items[k].parent] \in AllDirs
                        /\ a[f[k]] = <<f[c.items[k].parent], c.items[k].name>>
                  /\ \A o \in Objects :
                       a[o] = <<f[c.items[k].parent], c.items[k].name>> => f[k] = o
PROOF
  <1> DEFINE f == ObjFun(a, c)
             L == Len(c.items)
  <1>1. L \in Nat /\ L >= 1 /\ DOMAIN c.items = 1 .. L
    BY CatItems DEF IsCat
  <1>2. f = ObjStep(a, c, f)
    BY ObjExists DEF ObjFun
  <1> HIDE DEF f
  <1>3. \A k \in 1 .. L :
          f[k] = IF k = 1 THEN Root ELSE NameIn(a, f[c.items[k].parent], c.items[k].name)
    BY <1>1, <1>2 DEF ObjStep
  <1>4. f[1] = Root
    BY <1>1, <1>3
  <1>5. \A d, n : NameIn(a, d, n) \in Objects \cup {None}
    BY DEF NameIn
  <1>6. ASSUME NEW k \in 1 .. L PROVE f[k] \in Value
    BY <1>3, <1>5 DEF Value
  <1>7. ASSUME NEW k \in 2 .. L
        PROVE  /\ c.items[k].parent \in 1 .. k - 1 /\ c.items[k].parent \in 1 .. L
               /\ f[c.items[k].parent] \in Value
               /\ f[k] = NameIn(a, f[c.items[k].parent], c.items[k].name)
               /\ \/ f[k] = None
                  \/ /\ f[k] \in Objects /\ f[c.items[k].parent] \in AllDirs
                     /\ a[f[k]] = <<f[c.items[k].parent], c.items[k].name>>
               /\ \A o \in Objects :
                    a[o] = <<f[c.items[k].parent], c.items[k].name>> => f[k] = o
    <2>1. c.items[k].parent \in 1 .. k - 1 /\ c.items[k].name \in Names
      BY DEF IsCat
    <2>2. c.items[k].parent \in 1 .. L
      BY <1>1, <2>1
    <2>3. f[c.items[k].parent] \in Value
      BY <1>6, <2>2
    <2>4. k \in 1 .. L /\ k # 1
      BY <1>1
    <2>5. f[k] = NameIn(a, f[c.items[k].parent], c.items[k].name)
      BY <1>3, <2>4
    <2>6. QED
      BY <2>1, <2>2, <2>3, <2>5, NameInIs
  <1>8. QED
    BY <1>4, <1>6, <1>7 DEF f

\* What an item stands for depends on the parents and names alone.
LEMMA ObjSame ==
  ASSUME NEW a, IsHost(a), NEW c, IsCat(c), NEW d, IsCat(d), Len(c.items) <= Len(d.items),
         \A k \in 1 .. Len(c.items) :
           d.items[k].parent = c.items[k].parent /\ d.items[k].name = c.items[k].name
  PROVE  \A k \in 1 .. Len(c.items) : ObjFun(a, d)[k] = ObjFun(a, c)[k]
PROOF
  <1> DEFINE f == ObjFun(a, c)
             g == ObjFun(a, d)
             L == Len(c.items)
             T == {k \in 1 .. L : g[k] = f[k]}
  <1>1. L \in Nat /\ Len(d.items) \in Nat
    BY CatItems
  <1>2. f[1] = Root /\ g[1] = Root
    BY ObjFacts
  <1>3. \A k \in 2 .. L : /\ c.items[k].parent \in 1 .. k - 1
                         /\ f[k] = NameIn(a, f[c.items[k].parent], c.items[k].name)
    BY ObjFacts
  <1>4. \A k \in 2 .. Len(d.items) :
          g[k] = NameIn(a, g[d.items[k].parent], d.items[k].name)
    BY ObjFacts
  <1> HIDE DEF f, g
  <1>5. ASSUME NEW n \in 1 .. L, \A m \in 1 .. n - 1 : m \in T
        PROVE  n \in T
    <2>1. CASE n = 1
      BY <1>2, <2>1
    <2>2. CASE n # 1
      <3>1. n \in 2 .. L /\ n \in 2 .. Len(d.items)
        BY <1>1, <2>2
      <3>2. g[c.items[n].parent] = f[c.items[n].parent]
        BY <1>3, <1>5, <3>1
      <3>3. d.items[n].parent = c.items[n].parent /\ d.items[n].name = c.items[n].name
        OBVIOUS
      <3>4. g[n] = f[n]
        BY <1>3, <1>4, <3>1, <3>2, <3>3
      <3>5. QED
        BY <3>4
    <2>3. QED
      BY <2>1, <2>2
  <1> HIDE DEF T
  <1>6. \A n \in 1 .. L : n \in T
    BY <1>1, <1>5, Induct
  <1>7. QED
    BY <1>6 DEF T, f, g

\* No object is the object of two items.
LEMMA ObjInjective ==
  ASSUME NEW a, IsHost(a), NEW c, IsCat(c)
  PROVE  \A i, j \in 1 .. Len(c.items) :
           ObjFun(a, c)[i] = ObjFun(a, c)[j] /\ ObjFun(a, c)[i] # None => i = j
PROOF
  <1> DEFINE f == ObjFun(a, c)
             L == Len(c.items)
             T == {i \in 1 .. L : \A j \in 1 .. L : f[i] = f[j] /\ f[i] # None => i = j}
  <1>1. L \in Nat
    BY CatItems
  <1>2. f[1] = Root /\ Root \notin Objects \cup {None}
    BY ObjFacts, Distinct
  <1>3. \A k \in 2 .. L :
          /\ c.items[k].parent \in 1 .. k - 1 /\ c.items[k].parent \in 1 .. L
          /\ \/ f[k] = None
             \/ /\ f[k] \in Objects /\ f[c.items[k].parent] \in AllDirs
                /\ a[f[k]] = <<f[c.items[k].parent], c.items[k].name>>
    BY ObjFacts
  <1> HIDE DEF f
  <1>4. ASSUME NEW i \in 1 .. L, \A m \in 1 .. i - 1 : m \in T
        PROVE  i \in T
    <2>1. SUFFICES ASSUME NEW j \in 1 .. L, f[i] = f[j], f[i] # None PROVE i = j
      OBVIOUS
    <2>2. CASE i = 1 \/ j = 1
      <3>1. f[i] = Root /\ f[j] = Root
        BY <1>2, <2>1, <2>2
      <3>2. \A k \in 2 .. L : f[k] # Root
        BY <1>2, <1>3
      <3>3. QED
        BY <1>1, <3>1, <3>2
    <2>3. CASE i # 1 /\ j # 1
      <3>1. i \in 2 .. L /\ j \in 2 .. L
        BY <1>1, <2>3
      <3> DEFINE p == c.items[i].parent
                 q == c.items[j].parent
      <3>2. /\ a[f[i]] = <<f[p], c.items[i].name>> /\ a[f[j]] = <<f[q], c.items[j].name>>
            /\ f[p] \in AllDirs /\ p \in 1 .. i - 1 /\ q \in 1 .. L
        BY <1>3, <2>1, <3>1
      <3>3. f[p] = f[q] /\ c.items[i].name = c.items[j].name /\ f[p] # None
        BY <2>1, <3>2, Distinct
      <3>4. p \in T
        BY <1>4, <3>2
      <3>5. p = q
        BY <3>2, <3>3, <3>4
      <3>6. QED
        BY <3>1, <3>3, <3>5 DEF IsCat
    <2>4. QED
      BY <2>2, <2>3
  <1> HIDE DEF T
  <1>5. \A n \in 1 .. L : n \in T
    BY <1>1, <1>4, Induct
  <1>6. QED
    BY <1>5 DEF T, f

\* When the host tree changes outside a set of objects that holds its own
\* parents, the items of those objects stand for them still.
LEMMA ObjKept ==
  ASSUME NEW a, IsHost(a), NEW b, IsHost(b), NEW c, IsCat(c), NEW K,
         \A o \in Objects : o \in K /\ a[o] # None =>
           b[o] = a[o] /\ (a[o][1] = Root \/ a[o][1] \in K)
  PROVE  \A k \in 1 .. Len(c.items) :
           \/ ObjFun(a, c)[k] = Root
           \/ ObjFun(a, c)[k] \in Objects /\ ObjFun(a, c)[k] \in K
           => ObjFun(b, c)[k] = ObjFun(a, c)[k]
PROOF
  <1> DEFINE f == ObjFun(a, c)
             g == ObjFun(b, c)
             L == Len(c.items)
             T == {k \in 1 .. L : f[k] = Root \/ (f[k] \in Objects /\ f[k] \in K) => g[k] = f[k]}
  <1>1. L \in Nat
    BY CatItems
  <1>2. f[1] = Root /\ g[1] = Root /\ Root \notin Objects \cup {None}
    BY ObjFacts, Distinct
  <1>3. \A k \in 2 .. L :
          /\ c.items[k].parent \in 1 .. k - 1
          /\ \/ f[k] = None
             \/ /\ f[k] \in Objects /\ f[c.items[k].parent] \in AllDirs
                /\ a[f[k]] = <<f[c.items[k].parent], c.items[k].name>>
    BY ObjFacts
  <1>4. \A k \in 2 .. L : \A o \in Objects :
          b[o] = <<g[c.items[k].parent], c.items[k].name>> => g[k] = o
    BY ObjFacts
  <1> HIDE DEF f, g
  <1>5. ASSUME NEW n \in 1 .. L, \A m \in 1 .. n - 1 : m \in T
        PROVE  n \in T
    <2>1. CASE n = 1
      BY <1>2, <2>1
    <2>2. CASE n # 1
      <3>1. n \in 2 .. L
        BY <1>1, <2>2
      <3> DEFINE p == c.items[n].parent
      <3>2. SUFFICES ASSUME f[n] \in Objects, f[n] \in K PROVE g[n] = f[n]
        BY <1>2, <1>3, <3>1
      <3>3. /\ p \in 1 .. n - 1 /\ f[p] \in AllDirs /\ c.items[n].name \in Names
            /\ a[f[n]] = <<f[p], c.items[n].name>>
        BY <1>2, <1>3, <3>1, <3>2, Distinct DEF IsCat
      <3>4. <<f[p], c.items[n].name>> \in Value \X Names
        BY <3>3, Distinct
      <3>5. a[f[n]] # None /\ a[f[n]][1] = f[p]
        BY <3>3, <3>4, Distinct
      <3>6. b[f[n]] = a[f[n]] /\ (f[p] = Root \/ f[p] \in K)
        BY <3>2, <3>5
      <3>7. f[p] = Root \/ f[p] \in Objects
        BY <3>3 DEF AllDirs, Objects
      <3>8. g[p] = f[p]
        BY <1>5, <3>3, <3>6, <3>7
      <3>9. QED
        BY <1>4, <3>1, <3>2, <3>3, <3>6, <3>8
    <2>3. QED
      BY <2>1, <2>2
  <1> HIDE DEF T
  <1>6. \A n \in 1 .. L : n \in T
    BY <1>1, <1>5, Induct
  <1>7. QED
    BY <1>6 DEF T, f, g

(***************************************************************************)
(* The objects below a directory.  The equation of Inside has a solution   *)
(* for every tree, the least of the sets that it maps into themselves.     *)
(***************************************************************************)
\* x lies in d or in a directory of the set S.
Below(a, d, S, x) == a[x] # None /\ (a[x][1] = d \/ (a[x][1] # Root /\ a[x][1] \in S))

LEMMA BelowSolved ==
  ASSUME NEW a, NEW d
  PROVE  \E S \in SUBSET Objects : \A x \in Objects : x \in S <=> Below(a, d, S, x)
PROOF
  <1> DEFINE Closed(T) == \A x \in Objects : Below(a, d, T, x) => x \in T
             S == {x \in Objects : \A T \in SUBSET Objects : Closed(T) => x \in T}
             U == {x \in S : Below(a, d, S, x)}
  <1>1. \A A, B, x : A \subseteq B /\ Below(a, d, A, x) => Below(a, d, B, x)
    BY DEF Below
  <1>2. Closed(S)
    <2>1. ASSUME NEW x \in Objects, Below(a, d, S, x), NEW T \in SUBSET Objects, Closed(T)
          PROVE  x \in T
      <3>1. S \subseteq T
        BY <2>1
      <3> HIDE DEF S
      <3>2. Below(a, d, T, x)
        BY <1>1, <2>1, <3>1
      <3>3. QED
        BY <2>1, <3>2
    <2>2. QED
      BY <2>1
  <1>3. Closed(U)
    <2>1. ASSUME NEW x \in Objects, Below(a, d, U, x) PROVE x \in U
      <3>1. U \subseteq S
        OBVIOUS
      <3>2. Below(a, d, S, x)
        BY <1>1, <2>1, <3>1, Zenon
      <3>3. x \in S
        BY <1>2, <3>2
      <3>4. QED
        BY <3>2, <3>3
    <2>2. QED
      BY <2>1
  <1>4. S \subseteq U
    <2>1. U \in SUBSET Objects
      OBVIOUS
    <2>2. QED
      BY <1>3, <2>1
  <1>5. \A x \in Objects : x \in S <=> Below(a, d, S, x)
    BY <1>2, <1>4
  <1>6. S \in SUBSET Objects
    OBVIOUS
  <1>7. QED
    BY <1>5, <1>6

LEMMA InsideIs ==
  ASSUME at \in [Objects -> {None} \cup Entry], NEW d
  PROVE  /\ Inside(d) \subseteq Objects
         /\ \A x \in Objects : x \in Inside(d) <=> Below(at, d, Inside(d), x)
PROOF
  <1> DEFINE Step(f) == [o \in Objects |->
                           at[o] # None /\ (at[o][1] = d \/ (at[o][1] # Root /\ f[at[o][1]]))]
             b == CHOOSE f : f = Step(f)
  <1>1. Inside(d) = {o \in Objects : b[o]}
    BY Zenon DEF Inside
  <1>2. \A o \in Objects : at[o] # None /\ at[o][1] # Root => at[o][1] \in Objects
    BY DEF Entry, AllDirs, Objects
  <1>3. \E f : f = Step(f)
    <2>1. PICK S \in SUBSET Objects : \A x \in Objects : x \in S <=> Below(at, d, S, x)
      BY BelowSolved
    <2> DEFINE g == [o \in Objects |-> o \in S]
    <2>2. ASSUME NEW o \in Objects
          PROVE  (o \in S) = (at[o] # None /\ (at[o][1] = d \/ (at[o][1] # Root /\ g[at[o][1]])))
      <3>1. at[o] # None /\ at[o][1] # Root => (g[at[o][1]] <=> at[o][1] \in S)
        BY <1>2
      <3> HIDE DEF g
      <3>2. (o \in S) <=> (at[o] # None /\ (at[o][1] = d \/ (at[o][1] # Root /\ g[at[o][1]])))
        BY <2>1, <3>1 DEF Below
      <3>3. QED
        BY <3>2, SMT
    <2>3. g = Step(g)
      BY <2>2
    <2>4. QED
      BY <2>3
  <1>4. b = Step(b)
    BY <1>3
  <1> HIDE DEF b
  <1>5. ASSUME NEW o \in Objects
        PROVE  b[o] <=> at[o] # None /\ (at[o][1] = d \/ (at[o][1] # Root /\ b[at[o][1]]))
    <2>1. b[o] = (at[o] # None /\ (at[o][1] = d \/ (at[o][1] # Root /\ b[at[o][1]])))
      BY <1>4, Zenon
    <2>2. QED
      BY <2>1
  <1>6. ASSUME NEW o \in Objects
        PROVE  o \in Inside(d) <=> Below(at, d, Inside(d), o)
    <2>1. o \in Inside(d) <=> b[o]
      BY <1>1
    <2>2. at[o] # None /\ at[o][1] # Root => (at[o][1] \in Inside(d) <=> b[at[o][1]])
      BY <1>1, <1>2
    <2>3. QED
      BY <1>5, <2>1, <2>2 DEF Below
  <1>7. QED
    BY <1>1, <1>6

(***************************************************************************)
(* The host tree after an object was put, moved or removed.                *)
(***************************************************************************)
\* The object o goes to the free name n of the directory d that exists.
LEMMA PutHost ==
  ASSUME NEW a, IsHost(a), NEW o \in Objects, NEW d \in AllDirs, d # o,
         d = Root \/ a[d] # None, NEW n \in Names, NameIn(a, d, n) = None,
         NEW b, b = [a EXCEPT ![o] = <<d, n>>]
  PROVE  IsHost(b)
PROOF
  <1>1. <<d, n>> \in Entry /\ <<d, n>> # None
    BY Distinct DEF Entry
  <1>2. \A x \in Objects : a[x] # <<d, n>>
    BY NameInIs, Distinct
  <1>3. b \in [Objects -> {None} \cup Entry] /\ b[o] = <<d, n>> /\ \A x \in Objects \ {o} : b[x] = a[x]
    BY <1>1 DEF IsHost
  <1>4. ASSUME NEW x \in Objects, NEW y \in Objects, b[x] # None, b[x] = b[y] PROVE x = y
    <2>1. CASE x = o \/ y = o
      BY <1>2, <1>3, <1>4, <2>1
    <2>2. CASE x # o /\ y # o
      BY <1>3, <1>4, <2>2 DEF IsHost
    <2>3. QED
      BY <2>1, <2>2
  <1>5. ASSUME NEW x \in Objects, b[x] # None, b[x][1] # Root PROVE b[b[x][1]] # None
    <2>1. CASE x = o
      <3>1. b[x][1] = d
        BY <1>3, <2>1
      <3>2. d \in Objects \ {o} /\ a[d] # None
        BY <1>5, <3>1 DEF AllDirs, Objects
      <3>3. QED
        BY <1>3, <3>1, <3>2
    <2>2. CASE x # o
      <3>1. b[x] = a[x] /\ a[x] \in Entry
        BY <1>3, <1>5, <2>2 DEF IsHost
      <3>2. a[x][1] \in Objects
        BY <1>5, <3>1 DEF Entry, AllDirs, Objects
      <3>3. a[a[x][1]] # None
        BY <1>5, <3>1 DEF IsHost
      <3>4. QED
        BY <1>1, <1>3, <3>1, <3>2, <3>3
    <2>3. QED
      BY <2>1, <2>2
  <1>6. QED
    BY <1>3, <1>4, <1>5 DEF IsHost

LEMMA RemoveHost ==
  ASSUME NEW a, IsHost(a), NEW o \in Objects,
         \A x \in Objects : a[x] # None => a[x][1] # o,
         NEW b, b = [a EXCEPT ![o] = None]
  PROVE  IsHost(b)
PROOF
  <1>1. b \in [Objects -> {None} \cup Entry] /\ b[o] = None /\ \A x \in Objects \ {o} : b[x] = a[x]
    BY DEF IsHost
  <1>2. \A x \in Objects : b[x] # None => x # o /\ b[x] = a[x]
    BY <1>1
  <1>3. ASSUME NEW x \in Objects, NEW y \in Objects, b[x] # None, b[x] = b[y] PROVE x = y
    BY <1>2, <1>3 DEF IsHost
  <1>4. ASSUME NEW x \in Objects, b[x] # None, b[x][1] # Root PROVE b[b[x][1]] # None
    <2>1. b[x] = a[x] /\ a[x] \in Entry /\ a[a[x][1]] # None
      BY <1>2, <1>4 DEF IsHost
    <2>2. a[x][1] \in Objects \ {o}
      BY <1>4, <2>1, Distinct DEF Entry, AllDirs, Objects
    <2>3. QED
      BY <1>1, <2>1, <2>2
  <1>5. QED
    BY <1>1, <1>3, <1>4 DEF IsHost

(***************************************************************************)
(* Resource forks.                                                         *)
(***************************************************************************)
ForkInv == rsrc \in [Entry -> {None, Loose} \cup Files] /\ ForkStays

\* A call moves at most the object o. The forks of files that it leaves where
\* they were are not o's, or o stays.
LEMMA ForkStep ==
  ASSUME IsHost(at), ForkInv, NEW o, \A x \in Objects : x # o => at'[x] = at[x],
         rsrc' \in [Entry -> {None, Loose} \cup Files],
         \A e \in Entry : rsrc'[e] \in Files =>
           \/ rsrc'[e] = rsrc[e] /\ rsrc[e] # o
           \/ at'[rsrc'[e]] = e
  PROVE  ForkInv'
PROOF
  <1>1. ASSUME NEW e \in Entry, rsrc'[e] \in Files PROVE at'[rsrc'[e]] = e
    <2>1. CASE at'[rsrc'[e]] = e
      BY <2>1
    <2>2. CASE rsrc'[e] = rsrc[e] /\ rsrc[e] # o
      <3>1. at[rsrc[e]] = e /\ rsrc[e] \in Objects
        BY <1>1, <2>2, Distinct DEF ForkInv, ForkStays
      <3>2. QED
        BY <2>2, <3>1
    <2>3. QED
      BY <1>1, <2>1, <2>2
  <1>2. QED
    BY <1>1 DEF ForkInv, ForkStays

\* The fork of a file in the helper file of a path is that of the object there.
LEMMA ForkOwner ==
  ASSUME IsHost(at), ForkInv, NEW d \in Value, NEW n \in Names, NEW e \in Entry,
         rsrc[e] \in Files
  PROVE  rsrc[e] = NameIn(at, d, n) <=> e = <<d, n>>
PROOF
  <1>1. at[rsrc[e]] = e /\ rsrc[e] \in Objects
    BY Distinct DEF ForkInv, ForkStays
  <1>2. e = <<d, n>> => NameIn(at, d, n) = rsrc[e]
    BY <1>1, NameInIs
  <1>3. ASSUME rsrc[e] = NameIn(at, d, n) PROVE at[rsrc[e]] = <<d, n>>
    <2>1. NameIn(at, d, n) = None \/ at[NameIn(at, d, n)] = <<d, n>>
      BY NameInIs
    <2>2. NameIn(at, d, n) # None
      BY <1>3, Distinct
    <2>3. QED
      BY <1>3, <2>1, <2>2
  <1>4. QED
    BY <1>1, <1>2, <1>3

\* The helper file of the path goes, or stays and then belongs to no file when
\* the object has gone.
LEMMA ForkRemove ==
  ASSUME IsHost(at), ForkInv, NEW d \in Value, NEW n \in Names, NEW done \in BOOLEAN,
         HostRemove(<<d, n>>, done)
  PROVE  ForkInv'
PROOF
  <1> DEFINE src == <<d, n>>
             o == NameIn(at, d, n)
             fork == ForkAt(src)
  <1>1. o = InDir(src[1], src[2])
    BY DEF InDir, NameIn
  <1>2. /\ \/ fork = None /\ rsrc' = rsrc
           \/ fork # None /\ rsrc' = [rsrc EXCEPT ![src] = None]
           \/ fork # None /\ rsrc' = [rsrc EXCEPT ![src] = IF done THEN Loose ELSE fork]
        /\ \/ ~done /\ at' = at
           \/ done /\ o \in Objects /\ at' = [at EXCEPT ![o] = None]
    BY <1>1, Zenon DEF HostRemove, CanRemove
  <1>3. fork # None => src \in Entry /\ fork = rsrc[src]
    BY DEF ForkAt
  <1>4. src \in Entry => fork = rsrc[src]
    BY DEF ForkAt
  <1>5. rsrc \in [Entry -> {None, Loose} \cup Files]
    BY DEF ForkInv
  <1>6. \A e \in Entry : rsrc[e] \in Files => (rsrc[e] = o <=> e = src)
    BY ForkOwner
  <1> HIDE DEF src, o, fork
  <1>7. \A x \in Objects : x # o => at'[x] = at[x]
    BY <1>2 DEF IsHost
  <1>8. CASE fork = None /\ rsrc' = rsrc
    <2>1. ASSUME NEW e \in Entry, rsrc'[e] \in Files PROVE rsrc'[e] = rsrc[e] /\ rsrc[e] # o
      BY <1>4, <1>6, <1>8, <2>1, Distinct
    <2>2. QED
      BY <1>5, <1>7, <1>8, <2>1, ForkStep
  <1>9. CASE fork # None /\ rsrc' = [rsrc EXCEPT ![src] = None]
    <2>1. /\ rsrc' \in [Entry -> {None, Loose} \cup Files]
          /\ \A e \in Entry : rsrc'[e] = IF e = src THEN None ELSE rsrc[e]
      BY <1>3, <1>5, <1>9
    <2>2. ASSUME NEW e \in Entry, rsrc'[e] \in Files PROVE rsrc'[e] = rsrc[e] /\ rsrc[e] # o
      BY <1>6, <2>1, <2>2, Distinct
    <2>3. QED
      BY <1>7, <2>1, <2>2, ForkStep
  <1>10. CASE fork # None /\ rsrc' = [rsrc EXCEPT ![src] = IF done THEN Loose ELSE fork]
    <2>1. /\ rsrc' \in [Entry -> {None, Loose} \cup Files]
          /\ \A e \in Entry : rsrc'[e] = IF e = src /\ done THEN Loose ELSE rsrc[e]
      BY <1>3, <1>5, <1>10
    <2>2. CASE done
      <3>1. ASSUME NEW e \in Entry, rsrc'[e] \in Files PROVE rsrc'[e] = rsrc[e] /\ rsrc[e] # o
        BY <1>6, <2>1, <2>2, <3>1, Distinct
      <3>2. QED
        BY <1>7, <2>1, <3>1, ForkStep
    <2>3. CASE ~done
      <3>1. rsrc' = rsrc /\ at' = at
        BY <1>2, <1>5, <2>1, <2>3
      <3>2. QED
        BY <3>1 DEF ForkInv, ForkStays
    <2>4. QED
      BY <2>2, <2>3
  <1>11. QED
    BY <1>2, <1>8, <1>9, <1>10

\* extfs_rename moves the helper file first and ignores whether it could: the
\* fork stays a file's only when both went or both stayed.
LEMMA ForkRename ==
  ASSUME IsHost(at), ForkInv, NEW sd \in Value, NEW sn \in Names, NEW d \in Value, NEW n \in Names,
         NameIn(at, d, n) = None, NEW done \in BOOLEAN, HostRename(<<sd, sn>>, <<d, n>>, done)
  PROVE  ForkInv'
PROOF
  <1> DEFINE src == <<sd, sn>>
             dst == <<d, n>>
             o == NameIn(at, sd, sn)
             fork == ForkAt(src)
  <1>1. o = InDir(src[1], src[2])
    BY DEF InDir, NameIn
  <1>2. /\ \/ fork = None /\ rsrc' = rsrc
           \/ /\ fork # None
              /\ \E moved \in BOOLEAN :
                   /\ moved => dst[1] \in AllDirs
                   /\ rsrc' = [rsrc EXCEPT ![src] = None,
                                           ![IF moved THEN dst ELSE src] =
                                               IF moved = done THEN fork ELSE Loose]
        /\ \/ ~done /\ at' = at
           \/ done /\ o \in Objects /\ at' = [at EXCEPT ![o] = dst]
    BY <1>1, Zenon DEF HostRename, CanRename
  <1>3. fork # None => src \in Entry /\ fork = rsrc[src]
    BY DEF ForkAt
  <1>4. src \in Entry => fork = rsrc[src]
    BY DEF ForkAt
  <1>5. rsrc \in [Entry -> {None, Loose} \cup Files]
    BY DEF ForkInv
  <1>6. \A e \in Entry : rsrc[e] \in Files => (rsrc[e] = o <=> e = src)
    BY ForkOwner
  <1>7. dst[1] \in AllDirs => dst \in Entry
    BY DEF Entry
  <1>8. \A e \in Entry : rsrc[e] \in Files => e # dst
    <2>1. ASSUME NEW e \in Entry, rsrc[e] \in Files, e = dst PROVE FALSE
      <3>1. rsrc[e] = None
        BY <2>1, ForkOwner
      <3>2. QED
        BY <2>1, <3>1, Distinct
    <2>2. QED
      BY <2>1
  <1> HIDE DEF src, dst, o, fork
  <1>9. /\ \A x \in Objects : x # o => at'[x] = at[x]
        /\ done => at'[o] = dst
    BY <1>2 DEF IsHost
  <1>10. CASE fork = None /\ rsrc' = rsrc
    <2>1. ASSUME NEW e \in Entry, rsrc'[e] \in Files PROVE rsrc'[e] = rsrc[e] /\ rsrc[e] # o
      BY <1>4, <1>6, <1>10, <2>1, Distinct
    <2>2. QED
      BY <1>5, <1>9, <1>10, <2>1, ForkStep
  <1>11. CASE /\ fork # None
              /\ \E moved \in BOOLEAN :
                   /\ moved => dst[1] \in AllDirs
                   /\ rsrc' = [rsrc EXCEPT ![src] = None,
                                           ![IF moved THEN dst ELSE src] =
                                               IF moved = done THEN fork ELSE Loose]
    <2>1. PICK moved \in BOOLEAN :
            /\ moved => dst[1] \in AllDirs
            /\ rsrc' = [rsrc EXCEPT ![src] = None,
                                    ![IF moved THEN dst ELSE src] =
                                        IF moved = done THEN fork ELSE Loose]
      BY <1>11
    <2> DEFINE to == IF moved THEN dst ELSE src
               left == IF moved = done THEN fork ELSE Loose
    <2>2. to \in Entry /\ src \in Entry /\ fork = rsrc[src]
      BY <1>3, <1>7, <1>11, <2>1
    <2>3. left \in {None, Loose} \cup Files
      BY <1>5, <2>2
    <2>4. rsrc' = [rsrc EXCEPT ![src] = None, ![to] = left]
      BY <2>1
    <2>5. (to = dst \/ ~moved) /\ (to = src \/ moved) /\ (left = fork \/ left = Loose)
      OBVIOUS
    <2>6. left = fork => moved = done \/ fork = Loose
      OBVIOUS
    <2> HIDE DEF to, left
    <2>7. /\ rsrc' \in [Entry -> {None, Loose} \cup Files]
          /\ \A e \in Entry : rsrc'[e] = IF e = to THEN left ELSE IF e = src THEN None ELSE rsrc[e]
      BY <1>5, <2>2, <2>3, <2>4
    <2>8. ASSUME NEW e \in Entry, rsrc'[e] \in Files
          PROVE  \/ rsrc'[e] = rsrc[e] /\ rsrc[e] # o
                 \/ at'[rsrc'[e]] = e
      <3>1. CASE e = to
        <4>1. rsrc'[e] = fork /\ fork \in Files /\ moved = done
          BY <2>5, <2>6, <2>7, <2>8, <3>1, Distinct
        <4>2. fork = o
          BY <1>6, <2>2, <4>1
        <4>3. CASE done
          BY <1>9, <2>5, <3>1, <4>1, <4>2, <4>3
        <4>4. CASE ~done
          <5>1. at' = at /\ e = src
            BY <1>2, <2>5, <3>1, <4>1, <4>4
          <5>2. at[rsrc[src]] = src
            BY <2>2, <4>1 DEF ForkInv, ForkStays
          <5>3. QED
            BY <2>2, <4>1, <5>1, <5>2
        <4>5. QED
          BY <4>3, <4>4
      <3>2. CASE e # to
        <4>1. e # src /\ rsrc'[e] = rsrc[e]
          BY <2>7, <2>8, <3>2, Distinct
        <4>2. QED
          BY <1>6, <2>8, <4>1
      <3>3. QED
        BY <3>1, <3>2
    <2>9. QED
      BY <1>9, <2>7, <2>8, ForkStep
  <1>12. QED
    BY <1>2, <1>10, <1>11

(***************************************************************************)
(* The CNID that the Mac was given.                                        *)
(***************************************************************************)
\* What the record t says of CNID and object is so in host tree a and catalog c.
KeptIn(a, c, t) ==
    t # None /\ t.ok =>
      \E i \in 1 .. Len(c.items) : c.items[i].id = t.id /\ ObjFun(a, c)[i] = t.obj

ToldType(t) == t \in {None} \cup [id : IDs, obj : Objects, ok : BOOLEAN]

\* The object of an item exists.
LEMMA ObjThere ==
  ASSUME NEW a, IsHost(a), NEW c, IsCat(c), NEW k \in 1 .. Len(c.items)
  PROVE  /\ ObjFun(a, c)[k] \in Value
         /\ ObjFun(a, c)[k] \in Objects => a[ObjFun(a, c)[k]] # None
         /\ ObjFun(a, c)[k] = Root <=> k = 1
PROOF
  <1> DEFINE f == ObjFun(a, c)
  <1>1. Len(c.items) \in Nat
    BY CatItems
  <1>2. f[1] = Root /\ f[k] \in Value
    BY ObjFacts
  <1>3. CASE k = 1
    BY <1>2, <1>3, Distinct
  <1>4. CASE k # 1
    <2>1. k \in 2 .. Len(c.items)
      BY <1>1, <1>4
    <2> DEFINE e == <<f[c.items[k].parent], c.items[k].name>>
    <2>2. /\ f[c.items[k].parent] \in Value
          /\ f[k] = None \/ (f[k] \in Objects /\ a[f[k]] = e)
      BY <2>1, ObjFacts
    <2>3. c.items[k].name \in Names
      BY <2>1 DEF IsCat
    <2>4. e # None
      BY <2>2, <2>3, Distinct
    <2> HIDE DEF e
    <2>5. QED
      BY <1>2, <1>4, <2>2, <2>4, Distinct
  <1>5. QED
    BY <1>3, <1>4

LEMMA ObjExtends ==
  ASSUME NEW a, IsHost(a), NEW c, IsCat(c), NEW d, Extends(c, d)
  PROVE  \A k \in 1 .. Len(c.items) : ObjFun(a, d)[k] = ObjFun(a, c)[k]
PROOF
  <1>1. IsCat(d) /\ Len(c.items) <= Len(d.items)
    BY DEF Extends
  <1>2. \A k \in 1 .. Len(c.items) :
          d.items[k].parent = c.items[k].parent /\ d.items[k].name = c.items[k].name
    BY DEF Extends
  <1>3. QED
    BY <1>1, <1>2, ObjSame

LEMMA KeptExtends ==
  ASSUME NEW a, IsHost(a), NEW c, IsCat(c), NEW d, Extends(c, d), NEW t, KeptIn(a, c, t)
  PROVE  KeptIn(a, d, t)
PROOF
  <1>1. IsCat(d) /\ Len(c.items) \in Nat /\ Len(d.items) \in Nat /\ Len(c.items) <= Len(d.items)
    BY CatItems DEF Extends
  <1>2. \A k \in 1 .. Len(c.items) : d.items[k] = c.items[k] /\ k \in 1 .. Len(d.items)
    BY <1>1 DEF Extends
  <1>3. \A k \in 1 .. Len(c.items) : ObjFun(a, d)[k] = ObjFun(a, c)[k]
    BY ObjExtends
  <1>4. QED
    BY <1>2, <1>3 DEF KeptIn

LEMMA KeptHost ==
  ASSUME NEW a, IsHost(a), NEW b, IsHost(b), NEW c, IsCat(c), NEW K, NEW t, ToldType(t),
         \A o \in Objects : o \in K /\ a[o] # None =>
           b[o] = a[o] /\ (a[o][1] = Root \/ a[o][1] \in K),
         t # None /\ t.ok => t.obj \in K, KeptIn(a, c, t)
  PROVE  KeptIn(b, c, t)
PROOF
  <1> SUFFICES ASSUME t # None, t.ok
               PROVE  \E i \in 1 .. Len(c.items) : c.items[i].id = t.id /\ ObjFun(b, c)[i] = t.obj
    BY DEF KeptIn
  <1>1. PICK i \in 1 .. Len(c.items) : c.items[i].id = t.id /\ ObjFun(a, c)[i] = t.obj
    BY DEF KeptIn
  <1>2. t.obj \in Objects /\ t.obj \in K
    BY DEF ToldType
  <1>3. ObjFun(b, c)[i] = ObjFun(a, c)[i]
    BY <1>1, <1>2, ObjKept
  <1>4. QED
    BY <1>1, <1>3

\* A rename or a move: the object o of item i goes to where item j points, and
\* the two exchange their CNIDs.  All that is not below o keeps its CNID.
LEMMA KeptSwap ==
  ASSUME NEW a, IsHost(a), NEW b, IsHost(b), NEW c, IsCat(c), NEW t, ToldType(t), KeptIn(a, c, t),
         NEW i \in 1 .. Len(c.items), NEW j \in 2 .. Len(c.items),
         NEW o \in Objects, ObjFun(a, c)[i] = o, ObjFun(a, c)[j] = None,
         NEW d \in AllDirs, d # o, ObjFun(a, c)[c.items[j].parent] = d,
         b[o] = <<d, c.items[j].name>>, \A x \in Objects \ {o} : b[x] = a[x],
         NEW S \in SUBSET Objects, \A x \in Objects : x \in S <=> Below(a, o, S, x), d \notin S,
         t # None => t.obj \notin S
  PROVE  KeptIn(b, SwapIds(c, i, j), t)
PROOF
  <1> DEFINE f == ObjFun(a, c)
             g == ObjFun(b, c)
             s == SwapIds(c, i, j)
             h == ObjFun(b, s)
             L == Len(c.items)
             K == Objects \ (S \cup {o})
             u == c.items[i].id
             v == c.items[j].id
  <1>1. L \in Nat /\ j \in 1 .. L
    BY CatItems
  <1>2. SUFFICES ASSUME t # None, t.ok
                 PROVE  \E m \in 1 .. Len(s.items) : s.items[m].id = t.id /\ h[m] = t.obj
    BY DEF KeptIn
  <1>3. PICK m \in 1 .. L : c.items[m].id = t.id /\ f[m] = t.obj
    BY <1>2 DEF KeptIn
  <1>4. t.obj \in Objects /\ t.obj \notin S
    BY <1>2 DEF ToldType
  <1>5. IsCat(s) /\ Len(s.items) = L
    BY <1>1, SwapKeeps
  <1>6. \A k \in 1 .. L :
          /\ s.items[k].parent = c.items[k].parent /\ s.items[k].name = c.items[k].name
          /\ s.items[k].id = Swapped(c.items[k].id, u, v)
    BY <1>1, SwapItems
  <1>7. \A k \in 1 .. L : h[k] = g[k]
    <2> HIDE DEF s
    <2>1. Len(c.items) <= Len(s.items)
      BY <1>1, <1>5
    <2>2. QED
      BY <1>5, <1>6, <2>1, ObjSame
  <1>8. ASSUME NEW x \in Objects, x \in K, a[x] # None
        PROVE  b[x] = a[x] /\ (a[x][1] = Root \/ a[x][1] \in K)
    <2>1. b[x] = a[x]
      BY <1>8
    <2>2. a[x][1] = Root \/ a[x][1] \in Objects
      BY <1>8 DEF IsHost, Entry, AllDirs, Objects
    <2>3. a[x][1] # o /\ (a[x][1] # Root => a[x][1] \notin S)
      BY <1>8 DEF Below
    <2>4. QED
      BY <2>1, <2>2, <2>3
  <1>9. \A k \in 1 .. L : f[k] = Root \/ (f[k] \in Objects /\ f[k] \in K) => g[k] = f[k]
    <2>1. \A x \in Objects : x \in K /\ a[x] # None =>
            b[x] = a[x] /\ (a[x][1] = Root \/ a[x][1] \in K)
      BY <1>8
    <2> HIDE DEF K
    <2>2. ASSUME NEW k \in 1 .. L, f[k] = Root \/ (f[k] \in Objects /\ f[k] \in K)
          PROVE  g[k] = f[k]
      BY <2>1, <2>2, ObjKept
    <2>3. QED
      BY <2>2
  <1>10. CASE t.obj = o
    <2>1. m = i
      BY <1>3, <1>10, ObjInjective, Distinct
    <2>2. s.items[j].id = t.id
      BY <1>1, <1>3, <1>6, <2>1 DEF Swapped
    <2> DEFINE p == c.items[j].parent
    <2>3. p \in 1 .. L
      BY ObjFacts
    <2>4. f[p] = Root \/ (f[p] \in Objects /\ f[p] \in K)
      BY DEF AllDirs, Objects
    <2>5. g[p] = d
      BY <1>9, <2>3, <2>4
    <2>6. b[o] = <<d, c.items[j].name>>
      OBVIOUS
    <2>7. \A x \in Objects : b[x] = <<g[p], c.items[j].name>> => g[j] = x
      BY ObjFacts
    <2>8. g[j] = o
      BY <2>5, <2>6, <2>7
    <2>9. QED
      BY <1>1, <1>5, <1>7, <1>10, <2>2, <2>8
  <1>11. CASE t.obj # o
    <2>1. g[m] = t.obj
      BY <1>3, <1>4, <1>9, <1>11
    <2>2. m # i /\ m # j
      BY <1>3, <1>4, <1>11, Distinct
    <2>3. c.items[m].id # u /\ c.items[m].id # v
      BY <1>1, <2>2 DEF IsCat
    <2>4. s.items[m].id = t.id
      BY <1>3, <1>6, <2>3 DEF Swapped
    <2>5. QED
      BY <1>3, <1>5, <1>7, <2>1, <2>4
  <1>12. QED
    BY <1>10, <1>11

\* The Mac is given the CNID of item i.
LEMMA TellKeeps ==
  ASSUME NEW a, NEW c, IsCat(c), Len(c.items) <= MaxItems, NEW i \in 1 .. Len(c.items),
         NEW o, ObjFun(a, c)[i] = o, ToldType(told), KeptIn(a, c, told), Tell(c, i, o)
  PROVE  ToldType(told') /\ KeptIn(a, c, told')
PROOF
  <1>1. CASE told' = told
    BY <1>1
  <1>2. CASE o \in Objects /\ told' = [id |-> c.items[i].id, obj |-> o, ok |-> TRUE]
    <2>1. c.items[i].id \in IDs
      <3>1. Len(c.items) \in Nat /\ c.items[i] \in Item /\ MaxItems \in Nat
        BY CatItems, ConstAssumption DEF ConstAssumption
      <3>2. /\ c.items[i].id \in Nat /\ c.items[i].id < fsUsrCNID + Len(c.items) - 1
            /\ c.items[i].id = RootID \/ c.items[i].id >= fsUsrCNID
        BY <3>1 DEF IsCat, Item
      <3>3. QED
        BY <3>1, <3>2 DEF IDs, RootID, fsUsrCNID
    <2>2. ToldType(told')
      BY <1>2, <2>1 DEF ToldType
    <2>3. told'.id = c.items[i].id /\ told'.obj = o
      BY <1>2
    <2>4. QED
      BY <2>2, <2>3 DEF KeptIn
  <1>3. QED
    BY <1>1, <1>2 DEF Tell

(***************************************************************************)
(* The inductive invariant and the calls.                                  *)
(***************************************************************************)
FSInv ==
    /\ IsCat(cat) /\ Len(cat.items) <= MaxItems
    /\ IsHost(at)
    /\ ForkInv
    /\ ToldType(told) /\ KeptIn(at, cat, told)

LEMMA FSInvInit == Init => FSInv
PROOF
  <1> SUFFICES ASSUME Init PROVE FSInv
    OBVIOUS
  <1>1. IsCat(cat)
    BY CatInit
  <1>2. Len(cat.items) <= MaxItems
    <2> DEFINE r == [id |-> RootID, parent |-> 0, pid |-> 1, name |-> Empty, guest |-> Empty]
    <2>1. cat.items = <<r>>
      BY DEF Init
    <2> HIDE DEF r
    <2>2. Len(cat.items) = 1
      BY <2>1
    <2>3. QED
      BY <2>2, ConstAssumption DEF ConstAssumption
  <1>3. at \in [Objects -> {None} \cup Entry]
    BY DEF Init
  <1>4. \A o \in Objects : at[o] # None =>
          at[o][1] = Root \/ (at[o][1] \in Dirs /\ \E n \in Names : at[at[o][1]] = <<Root, n>>)
    BY DEF Init
  <1>5. \A n \in Names : <<Root, n>> # None /\ <<Root, n>>[1] = Root
    BY Distinct DEF Value
  <1>6. IsHost(at)
    <2>1. \A o, x \in Objects : at[o] # None /\ at[o] = at[x] => o = x
      BY DEF Init
    <2>2. \A o \in Objects : at[o] # None /\ at[o][1] # Root => at[at[o][1]] # None
      BY <1>4, <1>5
    <2>3. QED
      BY <1>3, <2>1, <2>2 DEF IsHost
  <1>7. ForkInv
    <2>1. rsrc = [e \in Entry |-> None]
      BY DEF Init
    <2>2. QED
      BY <2>1, Distinct DEF ForkInv, ForkStays
  <1>8. ToldType(told) /\ KeptIn(at, cat, told)
    BY DEF Init, ToldType, KeptIn
  <1>9. QED
    BY <1>1, <1>2, <1>6, <1>7, <1>8 DEF FSInv

\* What the lookup of a name in the directory with a CNID returns.
LEMMA Lookup ==
  ASSUME IsCat(cat), NEW c, Extends(cat, c), NEW id \in DirIDs, NEW name \in MacNames \cup {Empty}
  PROVE  LET g == GetItem(c, id, name)
         IN  /\ Extends(cat, g.cat) /\ Extends(c, g.cat)
             /\ IsCat(g.cat) /\ Len(g.cat.items) \in Nat
             /\ g.item \in 1 .. Len(g.cat.items)
             /\ name \in MacNames => g.item \in 2 .. Len(g.cat.items)
PROOF
  <1> DEFINE g == GetItem(c, id, name)
  <1>1. DirIDs = Ids(cat) /\ IsCat(c)
    BY CatItems DEF DirIDs, Ids, Extends
  <1>2. id \in Ids(c)
    BY <1>1, IdsKept
  <1>3. /\ Extends(c, g.cat) /\ g.item \in 1 .. Len(g.cat.items)
        /\ name # Empty => g.item \in 2 .. Len(g.cat.items)
    BY <1>1, <1>2, GetItemKeeps
  <1> HIDE DEF g
  <1>4. IsCat(g.cat)
    BY <1>3 DEF Extends
  <1>5. /\ Len(cat.items) \in Nat /\ Len(c.items) \in Nat /\ Len(g.cat.items) \in Nat
        /\ Len(cat.items) <= Len(c.items) /\ Len(c.items) <= Len(g.cat.items)
    BY <1>1, <1>3, <1>4, CatItems DEF Extends
  <1>6. ASSUME NEW k \in 1 .. Len(cat.items) PROVE g.cat.items[k] = cat.items[k]
    <2>1. c.items[k] = cat.items[k] /\ k \in 1 .. Len(c.items)
      BY <1>5 DEF Extends
    <2>2. QED
      BY <1>3, <2>1 DEF Extends
  <1>7. Extends(cat, g.cat)
    BY <1>4, <1>5, <1>6 DEF Extends
  <1>8. name \in MacNames => name # Empty
    BY GuestNames
  <1>9. QED
    BY <1>3, <1>4, <1>5, <1>7, <1>8 DEF g

LEMMA ExtendsSelf ==
  ASSUME NEW c, IsCat(c)
  PROVE  Extends(c, c)
PROOF
  BY CatItems DEF Extends

\* A call that only looks up and tells the CNID of what it found.
LEMMA FSInvTell ==
  ASSUME FSInv, NEW c, Extends(cat, c), Keep(c), UNCHANGED at, ForkInv',
         NEW i \in 1 .. Len(c.items), NEW o, ObjFun(at, c)[i] = o, Tell(c, i, o)
  PROVE  FSInv'
PROOF
  <1>1. IsCat(c) /\ Len(c.items) <= MaxItems /\ cat' = c /\ at' = at
    BY DEF Extends, Keep
  <1>2. KeptIn(at, c, told)
    BY KeptExtends DEF FSInv
  <1>3. ToldType(told') /\ KeptIn(at, c, told')
    BY <1>1, <1>2, TellKeeps DEF FSInv
  <1>4. QED
    BY <1>1, <1>3 DEF FSInv

LEMMA ForkSame ==
  ASSUME ForkInv, UNCHANGED <<at, rsrc>>
  PROVE  ForkInv'
PROOF
  BY DEF ForkInv, ForkStays

LEMMA FSInvInfo ==
  ASSUME FSInv, NEW id \in DirIDs, NEW name \in MacNames \cup {Empty}, GetCatInfo(id, name)
  PROVE  FSInv'
PROOF
  <1> DEFINE g == GetItem(cat, id, name)
             o == Obj(g.cat, g.item)
  <1>1. Keep(g.cat) /\ Tell(g.cat, g.item, o) /\ UNCHANGED <<at, rsrc>>
    BY DEF GetCatInfo
  <1>2. IsCat(cat) /\ Extends(cat, cat)
    BY ExtendsSelf DEF FSInv
  <1>3. Extends(cat, g.cat) /\ g.item \in 1 .. Len(g.cat.items)
    BY <1>2, Lookup
  <1>4. ObjFun(at, g.cat)[g.item] = o
    BY ObjIs
  <1>5. ForkInv'
    BY <1>1, ForkSame DEF FSInv
  <1> HIDE DEF g, o
  <1>6. QED
    BY <1>1, <1>3, <1>4, <1>5, FSInvTell

LEMMA FSInvFork ==
  ASSUME FSInv, NEW id \in DirIDs, NEW name \in MacNames, OpenFork(id, name)
  PROVE  FSInv'
PROOF
  <1> DEFINE g == GetItem(cat, id, name)
             o == Obj(g.cat, g.item)
  <1>1. /\ Keep(g.cat) /\ Tell(g.cat, g.item, o) /\ UNCHANGED at /\ o \in Objects
        /\ \/ rsrc' = [rsrc EXCEPT ![at[o]] = IF o \in Files THEN o ELSE Loose]
           \/ rsrc' = rsrc
    BY DEF OpenFork
  <1>2. IsCat(cat) /\ Extends(cat, cat) /\ IsHost(at)
    BY ExtendsSelf DEF FSInv
  <1>3. Extends(cat, g.cat) /\ g.item \in 1 .. Len(g.cat.items) /\ IsCat(g.cat)
    BY <1>2, Lookup
  <1>4. ObjFun(at, g.cat)[g.item] = o
    BY ObjIs
  <1> HIDE DEF g, o
  <1>5. at[o] # None
    BY <1>1, <1>2, <1>3, <1>4, ObjThere
  <1>6. at[o] \in Entry
    BY <1>1, <1>2, <1>5 DEF IsHost
  <1>7. ForkInv'
    <2>1. rsrc \in [Entry -> {None, Loose} \cup Files] /\ ForkStays /\ at' = at
      BY <1>1 DEF FSInv, ForkInv
    <2>2. CASE rsrc' = [rsrc EXCEPT ![at[o]] = IF o \in Files THEN o ELSE Loose]
      <3>1. rsrc' \in [Entry -> {None, Loose} \cup Files]
        BY <2>1, <2>2
      <3>2. \A e \in Entry : rsrc'[e] \in Files =>
              rsrc'[e] = rsrc[e] \/ (e = at[o] /\ rsrc'[e] = o)
        BY <1>6, <2>1, <2>2, Distinct
      <3>3. QED
        BY <2>1, <3>1, <3>2 DEF ForkInv, ForkStays
    <2>3. CASE rsrc' = rsrc
      BY <2>1, <2>3 DEF ForkInv, ForkStays
    <2>4. QED
      BY <1>1, <2>2, <2>3
  <1>8. QED
    BY <1>1, <1>3, <1>4, <1>7, FSInvTell

LEMMA FSInvIndexed ==
  ASSUME FSInv, NEW id \in DirIDs, NEW o \in Objects, GetIndexed(id, o)
  PROVE  FSInv'
PROOF
  <1> DEFINE p == ById(cat, id)
             n == at[o][2]
             g == find_fsitem(cat, n, p)
  <1>1. /\ at[o] # None /\ Obj(cat, p) = at[o][1] /\ Keep(g.cat) /\ Tell(g.cat, g.item, o)
        /\ UNCHANGED <<at, rsrc>>
    BY DEF GetIndexed
  <1>2. IsCat(cat) /\ IsHost(at) /\ id \in Ids(cat)
    BY CatItems DEF FSInv, DirIDs, Ids
  <1>3. at[o] \in Entry
    BY <1>1, <1>2 DEF IsHost
  <1>4. n \in Names /\ at[o] = <<at[o][1], n>>
    BY <1>3 DEF Entry
  <1>5. p \in 1 .. Len(cat.items)
    BY <1>2, ByIdIn
  <1> HIDE DEF p, n
  <1>6. /\ Extends(cat, g.cat) /\ g.item \in 2 .. Len(g.cat.items)
        /\ g.cat.items[g.item].parent = p /\ g.cat.items[g.item].name = n
    BY <1>2, <1>4, <1>5, FindKeeps
  <1> HIDE DEF g
  <1>7. IsCat(g.cat) /\ Len(g.cat.items) \in Nat
    BY <1>6, CatItems DEF Extends
  <1>8. ObjFun(at, g.cat)[p] = ObjFun(at, cat)[p]
    BY <1>2, <1>5, <1>6, ObjExtends
  <1>9. ObjFun(at, cat)[p] = at[o][1]
    BY <1>1, ObjIs
  <1>10. \A x \in Objects : at[x] = <<ObjFun(at, g.cat)[p], n>> => ObjFun(at, g.cat)[g.item] = x
    BY <1>2, <1>6, <1>7, ObjFacts
  <1>11. ObjFun(at, g.cat)[g.item] = o
    BY <1>4, <1>8, <1>9, <1>10
  <1>12. ForkInv'
    BY <1>1, ForkSame DEF FSInv
  <1>13. g.item \in 1 .. Len(g.cat.items)
    BY <1>6, <1>7
  <1>14. QED
    BY <1>1, <1>6, <1>11, <1>12, <1>13, FSInvTell

\* A call that only looks up.
LEMMA FSInvLook ==
  ASSUME FSInv, Extends(cat, cat'), Len(cat'.items) <= MaxItems, UNCHANGED <<at, rsrc, told>>
  PROVE  FSInv'
PROOF
  <1>1. KeptIn(at, cat', told)
    BY KeptExtends DEF FSInv
  <1>2. ForkInv'
    BY ForkSame DEF FSInv
  <1>3. QED
    BY <1>1, <1>2 DEF FSInv, Extends

\* An object o made in host tree a where item i points: the CNIDs of the others
\* stay and i stands for o.
LEMMA Created ==
  ASSUME NEW a, IsHost(a), NEW b, IsHost(b), NEW c, IsCat(c), NEW t, ToldType(t), KeptIn(a, c, t),
         NEW i \in 2 .. Len(c.items), NEW o \in Objects, a[o] = None,
         NEW d \in AllDirs, ObjFun(a, c)[c.items[i].parent] = d,
         b[o] = <<d, c.items[i].name>>, \A x \in Objects \ {o} : b[x] = a[x]
  PROVE  KeptIn(b, c, t) /\ ObjFun(b, c)[i] = o
PROOF
  <1> DEFINE f == ObjFun(a, c)
             g == ObjFun(b, c)
             K == {x \in Objects : a[x] # None}
             p == c.items[i].parent
  <1>1. \A x \in Objects : x \in K /\ a[x] # None =>
          b[x] = a[x] /\ (a[x][1] = Root \/ a[x][1] \in K)
    <2>1. SUFFICES ASSUME NEW x \in Objects, a[x] # None
                   PROVE  b[x] = a[x] /\ (a[x][1] = Root \/ a[x][1] \in K)
      OBVIOUS
    <2>2. a[x] \in Entry /\ x # o
      BY <2>1 DEF IsHost
    <2>3. a[x][1] = Root \/ a[x][1] \in Objects
      BY <2>2 DEF Entry, AllDirs, Objects
    <2>4. a[x][1] # Root => a[a[x][1]] # None
      BY <2>1 DEF IsHost
    <2>5. QED
      BY <2>2, <2>3, <2>4
  <1>2. t # None /\ t.ok => t.obj \in K
    <2>1. SUFFICES ASSUME t # None, t.ok PROVE t.obj \in K
      OBVIOUS
    <2>2. PICK m \in 1 .. Len(c.items) : f[m] = t.obj
      BY <2>1 DEF KeptIn
    <2>3. t.obj \in Objects
      BY <2>1 DEF ToldType
    <2>4. a[f[m]] # None
      BY <2>2, <2>3, ObjThere
    <2>5. QED
      BY <2>2, <2>3, <2>4
  <1>3. p \in 1 .. Len(c.items)
    BY ObjFacts
  <1>4. f[p] = Root \/ (f[p] \in Objects /\ f[p] \in K)
    <2>1. f[p] \in Objects => a[f[p]] # None
      BY <1>3, ObjThere
    <2>2. QED
      BY <2>1 DEF AllDirs, Objects
  <1> HIDE DEF K
  <1>5. KeptIn(b, c, t)
    BY <1>1, <1>2, KeptHost
  <1>6. g[p] = d
    <2>1. ASSUME NEW k \in 1 .. Len(c.items), f[k] = Root \/ (f[k] \in Objects /\ f[k] \in K)
          PROVE  g[k] = f[k]
      BY <1>1, <2>1, ObjKept
    <2>2. QED
      BY <1>3, <1>4, <2>1
  <1>7. \A x \in Objects : b[x] = <<g[p], c.items[i].name>> => g[i] = x
    BY ObjFacts
  <1>8. g[i] = o
    BY <1>6, <1>7
  <1>9. QED
    BY <1>5, <1>8

LEMMA FSInvCreate ==
  ASSUME FSInv, NEW id \in DirIDs, NEW name \in MacNames, NEW o \in Objects,
         CreateObject(id, name, o)
  PROVE  FSInv'
PROOF
  <1> DEFINE g == GetItem(cat, id, name)
             c == g.cat
             i == g.item
             d == Obj(c, c.items[i].parent)
             n == c.items[i].name
  <1>1. /\ at[o] = None /\ Keep(c) /\ UNCHANGED rsrc
        /\ \/ UNCHANGED <<at, told>>
           \/ /\ Obj(c, i) = None /\ d \in AllDirs
              /\ at' = [at EXCEPT ![o] = <<d, n>>]
              /\ Tell(c, i, o)
    BY DEF CreateObject, Tell, Place
  <1>2. IsCat(cat) /\ Extends(cat, cat) /\ IsHost(at)
    BY ExtendsSelf DEF FSInv
  <1>3. Extends(cat, c) /\ i \in 2 .. Len(c.items) /\ i \in 1 .. Len(c.items) /\ IsCat(c)
    BY <1>2, Lookup
  <1>4. d = ObjFun(at, c)[c.items[i].parent] /\ Obj(c, i) = ObjFun(at, c)[i]
    BY ObjIs
  <1> HIDE DEF d, g
  <1>5. CASE UNCHANGED <<at, told>>
    BY <1>1, <1>3, <1>5, FSInvLook DEF Keep
  <1>6. CASE /\ Obj(c, i) = None /\ d \in AllDirs
             /\ at' = [at EXCEPT ![o] = <<d, n>>]
             /\ Tell(c, i, o)
    <2>1. n \in Names
      BY <1>3 DEF IsCat
    <2>2. /\ c.items[i].parent \in 1 .. Len(c.items)
          /\ ObjFun(at, c)[i] = NameIn(at, d, n)
      BY <1>2, <1>3, <1>4, ObjFacts
    <2>3. NameIn(at, d, n) = None
      BY <1>4, <1>6, <2>2
    <2>4. d \in Objects => at[d] # None
      BY <1>2, <1>3, <1>4, <2>2, ObjThere
    <2>5. d # o /\ (d = Root \/ at[d] # None)
      BY <1>1, <1>6, <2>4 DEF AllDirs, Objects
    <2> HIDE DEF n
    <2>6. IsHost(at') /\ at'[o] = <<d, n>>
      <3>1. d \in AllDirs /\ at' = [at EXCEPT ![o] = <<d, n>>]
        BY <1>6
      <3>2. IsHost(at')
        BY <1>2, <2>1, <2>3, <2>5, <3>1, PutHost, Zenon
      <3>3. QED
        BY <1>2, <3>1, <3>2 DEF IsHost
    <2>7. \A x \in Objects \ {o} : at'[x] = at[x]
      BY <1>2, <1>6 DEF IsHost
    <2>8. ForkInv'
      <3>1. rsrc \in [Entry -> {None, Loose} \cup Files]
        BY DEF FSInv, ForkInv
      <3>2. ASSUME NEW e \in Entry, rsrc[e] \in Files PROVE at'[rsrc[e]] = e
        <4>1. at[rsrc[e]] = e /\ rsrc[e] \in Objects
          BY <3>2, Distinct DEF FSInv, ForkInv, ForkStays
        <4>2. rsrc[e] # o
          BY <1>1, <4>1, Distinct
        <4>3. QED
          BY <2>7, <4>1, <4>2
      <3>3. QED
        BY <1>1, <3>1, <3>2 DEF ForkInv, ForkStays
    <2>9. KeptIn(at, c, told) /\ ToldType(told)
      BY <1>2, <1>3, KeptExtends DEF FSInv
    <2>10. KeptIn(at', c, told) /\ ObjFun(at', c)[i] = o
      <3>1. at'[o] = <<d, c.items[i].name>>
        BY <2>6 DEF n
      <3>2. /\ at[o] = None /\ d \in AllDirs /\ IsHost(at) /\ IsHost(at') /\ IsCat(c)
            /\ ObjFun(at, c)[c.items[i].parent] = d /\ i \in 2 .. Len(c.items)
        BY <1>1, <1>2, <1>3, <1>4, <1>6, <2>6
      <3> HIDE DEF c, i
      <3>3. KeptIn(at', c, told)
        BY <2>7, <2>9, <3>1, <3>2, Created
      <3>4. ObjFun(at', c)[i] = o
        BY <2>7, <2>9, <3>1, <3>2, Created
      <3>5. QED
        BY <3>3, <3>4
    <2>11. Len(c.items) <= MaxItems /\ cat' = c
      BY <1>1 DEF Keep
    <2>12. ToldType(told') /\ KeptIn(at', c, told')
      BY <1>3, <1>6, <2>9, <2>10, <2>11, TellKeeps
    <2>13. QED
      BY <1>3, <2>6, <2>8, <2>11, <2>12 DEF FSInv
  <1>7. QED
    BY <1>1, <1>5, <1>6

LEMMA FSInvDelete ==
  ASSUME FSInv, NEW id \in DirIDs, NEW name \in MacNames, Delete(id, name)
  PROVE  FSInv'
PROOF
  <1> DEFINE g == GetItem(cat, id, name)
             c == g.cat
             i == g.item
             d == Obj(c, c.items[i].parent)
             n == c.items[i].name
             o == NameIn(at, d, n)
  <1>1. Keep(c) /\ \E done \in BOOLEAN : HostRemove(<<d, n>>, done)
    BY DEF Delete, Place
  <1>2. IsCat(cat) /\ Extends(cat, cat) /\ IsHost(at)
    BY ExtendsSelf DEF FSInv
  <1>3. Extends(cat, c) /\ i \in 2 .. Len(c.items) /\ IsCat(c)
    BY <1>2, Lookup
  <1>4. d = ObjFun(at, c)[c.items[i].parent]
    BY ObjIs
  <1> HIDE DEF g, d
  <1>5. Len(c.items) <= MaxItems /\ cat' = c
    BY <1>1 DEF Keep
  <1>6. n \in Names /\ d \in Value
    <2>1. c.items[i].parent \in 1 .. Len(c.items) /\ ObjFun(at, c)[c.items[i].parent] \in Value
      BY <1>2, <1>3, ObjFacts
    <2>2. QED
      BY <1>3, <1>4, <2>1 DEF IsCat
  <1>7. PICK done \in BOOLEAN : HostRemove(<<d, n>>, done)
    BY <1>1
  <1> HIDE DEF n
  <1>8. FSInv'
    <2>1. o = InDir(<<d, n>>[1], <<d, n>>[2])
      BY DEF InDir, NameIn
    <2>2. \/ UNCHANGED <<at, told>>
          \/ /\ o \in Objects /\ \A x \in Objects : at[x] # None => at[x][1] # o
             /\ at' = [at EXCEPT ![o] = None]
             /\ told' = IF told # None /\ told.obj = o THEN None ELSE told
      BY <1>7, <2>1, Zenon DEF HostRemove, CanRemove
    <2>3. ForkInv'
      BY <1>2, <1>6, <1>7, ForkRemove DEF FSInv
    <2>4. KeptIn(at, c, told) /\ ToldType(told)
      BY <1>2, <1>3, KeptExtends DEF FSInv
    <2> HIDE DEF o
    <2>5. CASE UNCHANGED <<at, told>>
      BY <1>2, <1>3, <1>5, <2>3, <2>4, <2>5 DEF FSInv
    <2>6. CASE /\ o \in Objects /\ \A x \in Objects : at[x] # None => at[x][1] # o
               /\ at' = [at EXCEPT ![o] = None]
               /\ told' = IF told # None /\ told.obj = o THEN None ELSE told
      <3>1. IsHost(at')
        BY <1>2, <2>6, RemoveHost
      <3>2. ToldType(told') /\ KeptIn(at, c, told') /\ (told' # None => told'.obj # o)
        BY <2>4, <2>6 DEF ToldType, KeptIn
      <3> DEFINE K == Objects \ {o}
      <3>3. told' # None /\ told'.ok => told'.obj \in K
        BY <3>2 DEF ToldType
      <3>4. \A x \in Objects : x \in K /\ at[x] # None =>
              at'[x] = at[x] /\ (at[x][1] = Root \/ at[x][1] \in K)
        <4>1. \A x \in Objects \ {o} : at'[x] = at[x]
          BY <1>2, <2>6 DEF IsHost
        <4>2. \A x \in Objects : at[x] # None => at[x][1] = Root \/ at[x][1] \in Objects
          BY <1>2 DEF IsHost, Entry, AllDirs, Objects
        <4>3. QED
          BY <2>6, <4>1, <4>2
      <3> HIDE DEF K
      <3>5. KeptIn(at', c, told')
        BY <1>2, <1>3, <3>1, <3>2, <3>3, <3>4, KeptHost
      <3>6. QED
        BY <1>3, <1>5, <2>3, <3>1, <3>2, <3>5 DEF FSInv
    <2>7. QED
      BY <2>2, <2>5, <2>6
  <1>9. QED
    BY <1>8

\* extfs_rename moves the object of item i to where item j points, and the two
\* items exchange their CNIDs if that succeeds.
LEMMA FSInvMoved ==
  ASSUME FSInv, NEW c, Extends(cat, c), NEW i \in 2 .. Len(c.items), NEW j \in 2 .. Len(c.items),
         NEW sd, sd = ObjFun(at, c)[c.items[i].parent], NEW sn, sn = c.items[i].name,
         NEW d, d = ObjFun(at, c)[c.items[j].parent], NEW n, n = c.items[j].name,
         NameIn(at, d, n) = None, NEW done \in BOOLEAN, HostRename(<<sd, sn>>, <<d, n>>, done),
         done => cat' = SwapIds(c, i, j) /\ Len(cat'.items) <= MaxItems,
         ~done => Extends(cat, cat') /\ Len(cat'.items) <= MaxItems
  PROVE  FSInv'
PROOF
  <1> DEFINE o == ObjFun(at, c)[i]
  <1>1. IsCat(cat) /\ IsHost(at) /\ IsCat(c)
    BY DEF FSInv, Extends
  <1>2. n \in Names /\ sn \in Names /\ Len(c.items) \in Nat
    BY <1>1, CatItems DEF IsCat
  <1>3. /\ c.items[j].parent \in 1 .. Len(c.items) /\ d \in Value
        /\ ObjFun(at, c)[j] = None
    <2>1. /\ c.items[j].parent \in 1 .. Len(c.items)
          /\ ObjFun(at, c)[c.items[j].parent] \in Value
          /\ ObjFun(at, c)[j] = NameIn(at, ObjFun(at, c)[c.items[j].parent], c.items[j].name)
      BY <1>1, ObjFacts
    <2>2. QED
      BY <2>1
  <1>4. sd \in Value /\ o = NameIn(at, sd, sn)
    <2>1. /\ ObjFun(at, c)[c.items[i].parent] \in Value
          /\ ObjFun(at, c)[i] = NameIn(at, ObjFun(at, c)[c.items[i].parent], c.items[i].name)
      BY <1>1, ObjFacts
    <2>2. QED
      BY <2>1
  <1>5. ForkInv'
    BY <1>1, <1>2, <1>3, <1>4, ForkRename DEF FSInv
  <1>6. KeptIn(at, c, told) /\ ToldType(told)
    BY <1>1, KeptExtends DEF FSInv
  <1> HIDE DEF o
  <1>7. o = InDir(<<sd, sn>>[1], <<sd, sn>>[2])
    BY <1>4 DEF InDir, NameIn
  <1>8. \/ ~done /\ at' = at /\ told' = told
        \/ /\ done /\ CanRename(o, d)
           /\ at' = [at EXCEPT ![o] = <<d, n>>]
           /\ told' = IF told # None /\ told.obj \in Inside(o)
                        THEN [told EXCEPT !.ok = FALSE] ELSE told
    <2>1. <<d, n>>[1] = d
      OBVIOUS
    <2>2. QED
      BY <1>7, <2>1, Zenon DEF HostRename
  <1>9. CASE ~done
    <2>1. at' = at /\ told' = told
      BY <1>9, <1>8
    <2>2. Extends(cat, cat') /\ Len(cat'.items) <= MaxItems
      BY <1>9
    <2>3. KeptIn(at, cat', told)
      BY <1>1, <2>2, KeptExtends DEF FSInv
    <2>4. QED
      BY <1>1, <1>5, <1>6, <2>1, <2>2, <2>3 DEF FSInv, Extends
  <1>10. CASE done
    <2>1. /\ at' = [at EXCEPT ![o] = <<d, n>>]
          /\ told' = IF told # None /\ told.obj \in Inside(o)
                       THEN [told EXCEPT !.ok = FALSE] ELSE told
      BY <1>10, <1>8
    <2>2. o \in Objects /\ d \in AllDirs /\ d # o /\ d \notin Inside(o)
      BY <1>10, <1>8 DEF CanRename
    <2>3. /\ Inside(o) \in SUBSET Objects
          /\ \A x \in Objects : x \in Inside(o) <=> Below(at, o, Inside(o), x)
      BY <1>1, InsideIs DEF IsHost
    <2>4. d = Root \/ at[d] # None
      <3>1. d \in Objects => at[d] # None
        BY <1>1, <1>3, ObjThere
      <3>2. QED
        BY <2>2, <3>1 DEF AllDirs, Objects
    <2>5. IsHost(at')
      BY <1>1, <1>2, <2>1, <2>2, <2>4, PutHost, Zenon
    <2>6. at'[o] = <<d, n>> /\ \A x \in Objects \ {o} : at'[x] = at[x]
      BY <1>1, <2>1, <2>2 DEF IsHost
    <2>7. cat' = SwapIds(c, i, j) /\ Len(cat'.items) <= MaxItems
      BY <1>10
    <2>8. i \in 1 .. Len(c.items) /\ j \in 1 .. Len(c.items)
      BY <1>2
    <2>9. IsCat(cat')
      BY <1>1, <2>7, <2>8, SwapKeeps
    <2>10. ToldType(told') /\ KeptIn(at', cat', told')
      <3>1. CASE told # None /\ told.obj \in Inside(o)
        <4>1. told \in [id : IDs, obj : Objects, ok : BOOLEAN]
          BY <1>6, <3>1 DEF ToldType
        <4>2. told' = [told EXCEPT !.ok = FALSE]
          BY <2>1, <3>1
        <4>3. told' \in [id : IDs, obj : Objects, ok : BOOLEAN] /\ told'.ok = FALSE
          BY <4>1, <4>2
        <4>4. QED
          BY <4>3 DEF ToldType, KeptIn
      <3>2. CASE ~(told # None /\ told.obj \in Inside(o))
        <4>1. told' = told
          BY <2>1, <3>2
        <4> DEFINE S == Inside(o)
        <4>2. /\ S \in SUBSET Objects /\ \A x \in Objects : x \in S <=> Below(at, o, S, x)
              /\ d \notin S /\ (told # None => told.obj \notin S)
          BY <2>2, <2>3, <3>2
        <4>3. at'[o] = <<d, c.items[j].name>> /\ ObjFun(at, c)[c.items[j].parent] = d
          BY <2>6
        <4> HIDE DEF S
        <4>4. KeptIn(at', SwapIds(c, i, j), told)
          BY <1>1, <1>3, <1>6, <2>2, <2>5, <2>6, <2>8, <4>2, <4>3, KeptSwap DEF o
        <4>5. QED
          BY <1>6, <2>7, <4>1, <4>4
      <3>3. QED
        BY <3>1, <3>2
    <2>11. QED
      BY <1>5, <2>5, <2>7, <2>9, <2>10 DEF FSInv
  <1>11. QED
    BY <1>9, <1>10

LEMMA FSInvRename ==
  ASSUME FSInv, NEW id \in DirIDs, NEW name \in MacNames, NEW new \in MacNames,
         Rename(id, name, new)
  PROVE  FSInv'
PROOF
  <1> DEFINE g == GetItem(cat, id, name)
             h == GetItem(g.cat, id, new)
             c == h.cat
             sd == Obj(c, c.items[g.item].parent)
             sn == c.items[g.item].name
             d == Obj(c, c.items[h.item].parent)
             n == c.items[h.item].name
  <1>1. \/ /\ Obj(c, h.item) = None
           /\ \E done \in BOOLEAN :
                /\ HostRename(<<sd, sn>>, <<d, n>>, done)
                /\ Keep(IF done THEN SwapIds(c, g.item, h.item) ELSE c)
        \/ Keep(c) /\ UNCHANGED <<at, rsrc, told>>
    BY DEF Rename, Place
  <1>2. IsCat(cat) /\ IsHost(at) /\ Extends(cat, cat)
    BY ExtendsSelf DEF FSInv
  <1>3. Extends(cat, g.cat) /\ IsCat(g.cat) /\ g.item \in 2 .. Len(g.cat.items)
    BY <1>2, Lookup
  <1> HIDE DEF g
  <1>4. /\ Extends(cat, c) /\ Extends(g.cat, c) /\ IsCat(c)
        /\ h.item \in 2 .. Len(c.items)
    BY <1>2, <1>3, Lookup
  <1> HIDE DEF h
  <1>5. g.item \in 2 .. Len(c.items)
    BY <1>3, <1>4, CatItems DEF Extends
  <1>6. /\ sd = ObjFun(at, c)[c.items[g.item].parent] /\ d = ObjFun(at, c)[c.items[h.item].parent]
        /\ Obj(c, h.item) = ObjFun(at, c)[h.item]
    BY ObjIs
  <1> HIDE DEF sd, d
  <1>7. CASE Keep(c) /\ UNCHANGED <<at, rsrc, told>>
    BY <1>1, <1>4, <1>7, FSInvLook DEF Keep
  <1>8. CASE /\ Obj(c, h.item) = None
             /\ \E done \in BOOLEAN :
                  /\ HostRename(<<sd, sn>>, <<d, n>>, done)
                  /\ Keep(IF done THEN SwapIds(c, g.item, h.item) ELSE c)
    <2>1. NameIn(at, d, n) = None
      <3>1. ObjFun(at, c)[h.item]
              = NameIn(at, ObjFun(at, c)[c.items[h.item].parent], c.items[h.item].name)
        BY <1>2, <1>4, ObjFacts
      <3>2. QED
        BY <1>6, <1>8, <3>1
    <2>2. PICK done \in BOOLEAN :
            /\ HostRename(<<sd, sn>>, <<d, n>>, done)
            /\ Keep(IF done THEN SwapIds(c, g.item, h.item) ELSE c)
      BY <1>8
    <2>3. done => cat' = SwapIds(c, g.item, h.item) /\ Len(cat'.items) <= MaxItems
      BY <2>2 DEF Keep
    <2>4. ~done => Extends(cat, cat') /\ Len(cat'.items) <= MaxItems
      BY <1>4, <2>2 DEF Keep
    <2>5. n = c.items[h.item].name /\ sn = c.items[g.item].name
      OBVIOUS
    <2> HIDE DEF n, sn, c
    <2>6. QED
      BY <1>4, <1>5, <1>6, <2>1, <2>2, <2>3, <2>4, <2>5, FSInvMoved
  <1>9. QED
    BY <1>1, <1>7, <1>8

LEMMA FSInvMove ==
  ASSUME FSInv, NEW id \in DirIDs, NEW name \in MacNames, NEW to \in DirIDs,
         CatMove(id, name, to)
  PROVE  FSInv'
PROOF
  <1> DEFINE g == GetItem(cat, id, name)
             h == GetItem(g.cat, to, Empty)
             sd == Obj(h.cat, h.cat.items[g.item].parent)
             d == Obj(h.cat, h.item)
             n == h.cat.items[g.item].name
             k == find_fsitem(h.cat, n, h.item)
             c == k.cat
  <1>1. \/ /\ InDir(d, n) = None
           /\ \E done \in BOOLEAN :
                /\ HostRename(<<sd, n>>, <<d, n>>, done)
                /\ Keep(IF done THEN SwapIds(c, g.item, k.item) ELSE h.cat)
        \/ Keep(h.cat) /\ UNCHANGED <<at, rsrc, told>>
    BY DEF CatMove, Place
  <1>2. IsCat(cat) /\ IsHost(at) /\ Extends(cat, cat)
    BY ExtendsSelf DEF FSInv
  <1>3. Extends(cat, g.cat) /\ IsCat(g.cat) /\ g.item \in 2 .. Len(g.cat.items)
    BY <1>2, Lookup
  <1> HIDE DEF g
  <1>4. /\ Extends(cat, h.cat) /\ Extends(g.cat, h.cat) /\ IsCat(h.cat)
        /\ h.item \in 1 .. Len(h.cat.items) /\ Len(h.cat.items) \in Nat
    BY <1>2, <1>3, Lookup
  <1> HIDE DEF h
  <1>5. g.item \in 2 .. Len(h.cat.items) /\ g.item \in 1 .. Len(h.cat.items)
    BY <1>3, <1>4, CatItems DEF Extends
  <1>6. n \in Names
    BY <1>4, <1>5 DEF IsCat
  <1>7. /\ sd = ObjFun(at, h.cat)[h.cat.items[g.item].parent] /\ d = ObjFun(at, h.cat)[h.item]
        /\ n = h.cat.items[g.item].name
    BY ObjIs
  <1>8. InDir(d, n) = NameIn(at, d, n)
    BY DEF InDir, NameIn
  <1> HIDE DEF sd, d, n
  <1>9. /\ Extends(h.cat, c) /\ k.item \in 2 .. Len(c.items)
        /\ c.items[k.item].parent = h.item /\ c.items[k.item].name = n
    BY <1>4, <1>6, FindKeeps
  <1> HIDE DEF k
  <1>10. /\ IsCat(c) /\ Len(c.items) \in Nat /\ Len(h.cat.items) <= Len(c.items)
         /\ \A x \in 1 .. Len(h.cat.items) : c.items[x] = h.cat.items[x]
    BY <1>9, CatItems DEF Extends
  <1>11. Extends(cat, c) /\ g.item \in 2 .. Len(c.items)
    <2>1. /\ Len(cat.items) \in Nat /\ Len(cat.items) <= Len(h.cat.items)
          /\ \A x \in 1 .. Len(cat.items) : h.cat.items[x] = cat.items[x]
      BY <1>2, <1>4, CatItems DEF Extends
    <2>2. ASSUME NEW x \in 1 .. Len(cat.items) PROVE c.items[x] = cat.items[x]
      <3>1. x \in 1 .. Len(h.cat.items)
        BY <1>4, <2>1
      <3>2. QED
        BY <1>10, <2>1, <3>1
    <2> HIDE DEF c
    <2>3. Len(cat.items) <= Len(c.items) /\ g.item \in 2 .. Len(c.items)
      BY <1>4, <1>5, <1>10, <2>1
    <2>4. QED
      BY <1>10, <2>2, <2>3 DEF Extends
  <1>12. /\ sd = ObjFun(at, c)[c.items[g.item].parent] /\ n = c.items[g.item].name
         /\ d = ObjFun(at, c)[c.items[k.item].parent]
    <2> HIDE DEF c
    <2>1. c.items[g.item] = h.cat.items[g.item]
      BY <1>5, <1>10
    <2>2. h.cat.items[g.item].parent \in 1 .. Len(h.cat.items)
      BY <1>2, <1>4, <1>5, ObjFacts
    <2>3. \A x \in 1 .. Len(h.cat.items) : ObjFun(at, c)[x] = ObjFun(at, h.cat)[x]
      BY <1>2, <1>4, <1>9, ObjExtends
    <2>4. QED
      BY <1>4, <1>7, <1>9, <2>1, <2>2, <2>3
  <1>13. CASE Keep(h.cat) /\ UNCHANGED <<at, rsrc, told>>
    BY <1>4, <1>13, FSInvLook DEF Keep
  <1>14. CASE /\ InDir(d, n) = None
              /\ \E done \in BOOLEAN :
                   /\ HostRename(<<sd, n>>, <<d, n>>, done)
                   /\ Keep(IF done THEN SwapIds(c, g.item, k.item) ELSE h.cat)
    <2>1. PICK done \in BOOLEAN :
            /\ HostRename(<<sd, n>>, <<d, n>>, done)
            /\ Keep(IF done THEN SwapIds(c, g.item, k.item) ELSE h.cat)
      BY <1>14
    <2>2. done => cat' = SwapIds(c, g.item, k.item) /\ Len(cat'.items) <= MaxItems
      BY <2>1 DEF Keep
    <2>3. ~done => Extends(cat, cat') /\ Len(cat'.items) <= MaxItems
      BY <1>4, <2>1 DEF Keep
    <2>4. NameIn(at, d, n) = None /\ n = c.items[k.item].name
      BY <1>8, <1>9, <1>14
    <2> HIDE DEF c
    <2>5. QED
      BY <1>9, <1>11, <1>12, <2>1, <2>2, <2>3, <2>4, FSInvMoved
  <1>15. QED
    BY <1>1, <1>13, <1>14

LEMMA FSInvNext == FSInv /\ [Next]_vars => FSInv'
PROOF
  <1> SUFFICES ASSUME FSInv, [Next]_vars PROVE FSInv'
    OBVIOUS
  <1>1. CASE UNCHANGED vars
    <2>1. ForkInv'
      BY <1>1, ForkSame DEF FSInv, vars
    <2>2. QED
      BY <1>1, <2>1 DEF FSInv, vars
  <1>2. CASE Next
    <2>1. PICK id \in DirIDs :
            \/ GetCatInfo(id, Empty)
            \/ \E o \in Objects : GetIndexed(id, o)
            \/ \E n \in MacNames :
                 \/ GetCatInfo(id, n)
                 \/ Delete(id, n)
                 \/ \E o \in Objects : CreateObject(id, n, o)
                 \/ OpenFork(id, n)
                 \/ \E m \in MacNames : Rename(id, n, m)
                 \/ \E j \in DirIDs : CatMove(id, n, j)
      BY <1>2 DEF Next
    <2>2. ASSUME NEW n \in MacNames \cup {Empty}, GetCatInfo(id, n) PROVE FSInv'
      BY <2>2, FSInvInfo
    <2>3. ASSUME NEW n \in MacNames, Delete(id, n) PROVE FSInv'
      BY <2>3, FSInvDelete
    <2>4. ASSUME NEW n \in MacNames, NEW o \in Objects, CreateObject(id, n, o) PROVE FSInv'
      BY <2>4, FSInvCreate
    <2>5. ASSUME NEW n \in MacNames, OpenFork(id, n) PROVE FSInv'
      BY <2>5, FSInvFork
    <2>6. ASSUME NEW n \in MacNames, NEW m \in MacNames, Rename(id, n, m) PROVE FSInv'
      BY <2>6, FSInvRename
    <2>7. ASSUME NEW n \in MacNames, NEW j \in DirIDs, CatMove(id, n, j) PROVE FSInv'
      BY <2>7, FSInvMove
    <2>8. ASSUME NEW o \in Objects, GetIndexed(id, o) PROVE FSInv'
      BY <2>8, FSInvIndexed
    <2>9. QED
      BY <2>1, <2>2, <2>3, <2>4, <2>5, <2>6, <2>7, <2>8
  <1>3. QED
    BY <1>1, <1>2

LEMMA FSAlways == Spec => []FSInv
PROOF
  BY FSInvInit, FSInvNext, PTL DEF Spec

\* For any host tree, any names and any sequence of calls the state of the file
\* system is well formed: items and CNIDs stay within the list that
\* create_fsitem fills, and every object lies in a directory or nowhere.
THEOREM ExtFSTypeCorrect == Spec => []TypeOK
PROOF
  <1>1. FSInv => TypeOK
    <2> SUFFICES ASSUME FSInv PROVE TypeOK
      OBVIOUS
    <2> DEFINE L == Len(cat.items)
               R == [id : IDs, parent : 0 .. MaxItems, pid : IDs \cup {1},
                     name : Names \cup {Empty}, guest : Names \cup {Empty}]
    <2>1. /\ IsCat(cat) /\ L \in Nat /\ MaxItems \in Nat /\ L <= MaxItems /\ L >= 1
          /\ cat.items \in Seq(Item) /\ cat.next = fsUsrCNID + L - 1
      BY CatItems, ConstAssumption DEF FSInv, IsCat, ConstAssumption
    <2>2. ASSUME NEW i \in 1 .. L PROVE cat.items[i].id \in IDs
      <3>1. /\ cat.items[i].id \in Nat /\ cat.items[i].id < fsUsrCNID + L - 1
            /\ cat.items[i].id = RootID \/ cat.items[i].id >= fsUsrCNID
        BY <2>1, CatItems DEF IsCat, Item
      <3>2. QED
        BY <2>1, <3>1 DEF IDs, RootID, fsUsrCNID
    <2>3. ASSUME NEW i \in 1 .. L PROVE cat.items[i] \in R
      <3>1. cat.items[i] \in Item
        BY <2>1, CatItems
      <3>2. cat.items[i].parent \in 0 .. MaxItems /\ cat.items[i].pid \in IDs \cup {1}
        <4>1. CASE i = 1
          BY <2>1, <4>1 DEF IsCat
        <4>2. CASE i # 1
          <5>1. /\ i \in 2 .. L /\ cat.items[i].parent \in 1 .. i - 1
                /\ cat.items[i].pid = cat.items[cat.items[i].parent].id
            BY <2>1, <4>2 DEF IsCat
          <5>2. cat.items[i].parent \in 1 .. L
            BY <2>1, <5>1
          <5>3. QED
            BY <2>1, <2>2, <5>1, <5>2
        <4>3. QED
          BY <4>1, <4>2
      <3>3. QED
        BY <2>2, <3>1, <3>2 DEF Item
    <2> HIDE DEF R
    <2>4. cat.items \in Seq(R)
      <3>1. DOMAIN cat.items = 1 .. L /\ cat.items = [i \in 1 .. L |-> cat.items[i]]
        BY <2>1
      <3>2. cat.items \in [1 .. L -> R]
        BY <2>3, <3>1
      <3>3. QED
        BY <2>1, <3>2
    <2>5. Len(cat.items) \in 1 .. MaxItems
      BY <2>1
    <2>6. QED
      BY <2>1, <2>4, <2>5 DEF TypeOK, FSInv, IsHost, ForkInv, ToldType, R
  <1>2. QED
    BY <1>1, FSAlways, PTL

\* For any host tree, any names and any sequence of calls, renames and moves
\* that exchange CNIDs included, no two items have the same CNID and none has
\* the one that create_fsitem gives out next.
THEOREM IdsUnique == Spec => []UniqueIds
PROOF
  <1>1. FSInv => UniqueIds
    <2> SUFFICES ASSUME FSInv PROVE UniqueIds
      OBVIOUS
    <2>1. IsCat(cat) /\ DOMAIN cat.items = 1 .. Len(cat.items)
      BY CatItems DEF FSInv
    <2>2. QED
      BY <2>1 DEF IsCat, UniqueIds
  <1>2. QED
    BY <1>1, FSAlways, PTL

\* Likewise the parent CNID an item reports is always that of the item that its
\* host path goes through, so swap_parent_ids misses none.
THEOREM ParentsAgree == Spec => []ParentAgrees
PROOF
  <1>1. FSInv => ParentAgrees
    <2> SUFFICES ASSUME FSInv, NEW i \in DOMAIN cat.items \ {1}
                 PROVE  /\ cat.items[i].parent \in 1 .. i - 1
                        /\ cat.items[i].pid = cat.items[cat.items[i].parent].id
      BY DEF ParentAgrees
    <2>1. IsCat(cat) /\ DOMAIN cat.items = 1 .. Len(cat.items) /\ Len(cat.items) \in Nat
      BY CatItems DEF FSInv
    <2>2. i \in 2 .. Len(cat.items)
      BY <2>1
    <2>3. QED
      BY <2>1, <2>2 DEF IsCat
  <1>2. QED
    BY <1>1, FSAlways, PTL

\* A CNID that the Mac was given names the same file or directory for as long
\* as it exists, for any host tree and any sequence of calls: renames and moves
\* exchange the CNIDs of the right two items, and a name given again gets none
\* that is in use.  The theorem says nothing of what lies below a directory that
\* was renamed or moved, where the items keep their old path.
THEOREM CnidKept == Spec => []IdKept
PROOF
  <1>1. FSInv => IdKept
    <2> SUFFICES ASSUME FSInv, told # None, told.ok
                 PROVE  \E i \in WithId(cat, told.id) : Obj(cat, i) = told.obj
      BY DEF IdKept
    <2>1. PICK i \in 1 .. Len(cat.items) :
            cat.items[i].id = told.id /\ ObjFun(at, cat)[i] = told.obj
      BY DEF FSInv, KeptIn
    <2>2. i \in WithId(cat, told.id)
      BY <2>1, CatItems DEF FSInv, WithId
    <2>3. Obj(cat, i) = told.obj
      BY <2>1, ObjIs
    <2>4. QED
      BY <2>2, <2>3
  <1>2. QED
    BY <1>1, FSAlways, PTL

\* The helper file in .rsrc that holds the resource fork of a file lies beside
\* the file, for any host tree, any sequence of calls and any refusal by the
\* host: extfs_rename and extfs_remove try the helper file first, ignore whether
\* that worked, and return what became of the object.  The one way to part the
\* two is a call on this very file of which the host carries out one half; no
\* call on another file, on a directory or on a name used before does it.
THEOREM ForksStay == Spec => []ForkStays
PROOF
  <1>1. FSInv => ForkStays
    BY DEF FSInv, ForkInv
  <1>2. QED
    BY <1>1, FSAlways, PTL

=============================================================================
