------------------------------- MODULE ExtFS -------------------------------
(***************************************************************************)
(* The external file system (extfs.cpp, PSP2/extfs_psp.cpp): a directory   *)
(* of the host is mounted on the Mac desktop.  The Mac names files and     *)
(* directories by catalog node IDs (CNIDs) and the emulator keeps a list   *)
(* of FSItems that turns a CNID into a host path.  Items are never freed   *)
(* and never renamed: a rename or a move exchanges the CNIDs of the items  *)
(* of the old and of the new path.  A resource fork is a host file of its  *)
(* own beside the file, in the helper directory .rsrc.                     *)
(*                                                                         *)
(* All calls come from the emulated CPU, one at a time (ExtFSHFS), so an   *)
(* action is one call of the file system, lookups it makes included.  A    *)
(* path of several components is a chain of lookups; an action names its   *)
(* object by the directory's CNID and the last component.  The host tree   *)
(* is changed by the Mac only.                                             *)
(***************************************************************************)
EXTENDS Naturals, Sequences, FiniteSets

CONSTANTS
    Files, Dirs,    \* host objects that exist or may be created
    Root,           \* the host directory of the "extfs" preference
    None,
    Loose,          \* a helper file that belongs to no file (see rsrc)
    Names,          \* host names; a Mac name is one with at most 31 bytes
    Guest,          \* Guest[n] is n cut to the 31 bytes of guest_name
    Empty,          \* an empty Mac path: the directory itself
    MaxItems,       \* bound on the list of FSItems
    MaxLoose        \* bound on the helper files without a file

Objects == Files \cup Dirs
AllDirs == Dirs \cup {Root}
MacNames == {Guest[n] : n \in Names}
RootID == 2
fsUsrCNID == 16

ASSUME ConstAssumption ==
    /\ Files \cap Dirs = {} /\ Root \notin Objects
    /\ None \notin Objects \cup {Root} /\ Loose \notin Objects \cup {Root, None}
    /\ None \notin (Objects \cup {Root, None}) \X Names
    /\ Guest \in [Names -> Names] /\ \A n \in Names : Guest[Guest[n]] = Guest[n]
    /\ Empty \notin Names /\ MaxItems \in Nat \ {0} /\ MaxLoose \in Nat

VARIABLES
    at,         \* at[o]: the directory and name of a host object, or None
    rsrc,       \* rsrc[<<d, n>>]: the file whose fork d/.rsrc/n holds, Loose for
                \* a directory's and for one that a call which the host carried
                \* out in part has parted from its file, or None
    cat,        \* the FSItem list and next_cnid
    told        \* history: one CNID the Mac was given, the object it stood for,
                \* and whether a directory above has kept its path since

vars == <<at, rsrc, cat, told>>

IDs == {RootID} \cup fsUsrCNID .. fsUsrCNID + MaxItems - 2
Entry == AllDirs \X Names

-----------------------------------------------------------------------------
(* The host file system. *)

\* The objects at any depth below the directory d.
Inside(d) ==
    LET below[o \in Objects] ==
          at[o] # None /\ (at[o][1] = d \/ (at[o][1] # Root /\ below[at[o][1]]))
    IN  {o \in Objects : below[o]}

\* The object that name n has in the host directory d; a path that goes through
\* a missing directory or through a file names nothing.
InDir(d, n) ==
    IF \E o \in Objects : at[o] = <<d, n>> THEN CHOOSE o \in Objects : at[o] = <<d, n>> ELSE None

\* What the host cannot rename: what is not there, into a directory that is not
\* there, and a directory into itself. It may refuse more.
CanRename(o, d) == o \in Objects /\ d \in AllDirs /\ d # o /\ d \notin Inside(o)

\* The host cannot remove what is not there and a directory that is not empty,
\* of helper files either.
CanRemove(o) ==
    /\ o \in Objects
    /\ ~ \E x \in Objects : at[x] # None /\ at[x][1] = o
    /\ ~ \E e \in Entry : e[1] = o /\ rsrc[e] # None

\* The fork in the helper file of a path.
ForkAt(e) == IF e \in Entry THEN rsrc[e] ELSE None

\* Only so many helper files without a file are explored.
Bounded(r) == Cardinality({e \in Entry : r[e] = Loose}) <= MaxLoose

\* Mutant of HostRename: the helper file stays.
HostRenameBare(src, dst, done) ==
    LET o == InDir(src[1], src[2])
    IN  /\ UNCHANGED rsrc
        /\ \/ /\ ~done /\ UNCHANGED <<at, told>>
           \/ /\ done /\ CanRename(o, dst[1])
              /\ at' = [at EXCEPT ![o] = dst]
              /\ told' = IF told # None /\ told.obj \in Inside(o)
                           THEN [told EXCEPT !.ok = FALSE] ELSE told

\* extfs_rename from one path to another: the helper file moves first, "don't
\* complain if this fails", then the object; done is what the call returns.
HostRename(src, dst, done) ==
    LET o == InDir(src[1], src[2])
        fork == ForkAt(src)
    IN  /\ \/ fork = None /\ UNCHANGED rsrc
           \/ /\ fork # None
              /\ \E moved \in BOOLEAN :
                   /\ moved => dst[1] \in AllDirs
                   /\ rsrc' = [rsrc EXCEPT ![src] = None,
                                           ![IF moved THEN dst ELSE src] =
                                               IF moved = done THEN fork ELSE Loose]
              /\ Bounded(rsrc')
        /\ \/ /\ ~done /\ UNCHANGED <<at, told>>
           \/ /\ done /\ CanRename(o, dst[1])
              /\ at' = [at EXCEPT ![o] = dst]
              /\ told' = IF told # None /\ told.obj \in Inside(o)
                           THEN [told EXCEPT !.ok = FALSE] ELSE told

\* extfs_remove: the helper file goes first, errors ignored, then the object.
HostRemove(src, done) ==
    LET o == InDir(src[1], src[2])
        fork == ForkAt(src)
    IN  /\ \/ fork = None /\ UNCHANGED rsrc
           \/ fork # None /\ rsrc' = [rsrc EXCEPT ![src] = None]
           \/ /\ fork # None
              /\ rsrc' = [rsrc EXCEPT ![src] = IF done THEN Loose ELSE fork]
              /\ Bounded(rsrc')
        /\ \/ /\ ~done /\ UNCHANGED <<at, told>>
           \/ /\ done /\ CanRemove(o)
              /\ at' = [at EXCEPT ![o] = None]
              /\ told' = IF told # None /\ told.obj = o THEN None ELSE told

-----------------------------------------------------------------------------
(* The list of FSItems. Item 1 is the root directory. *)

\* The host object of every item: get_path_for_fsitem, then a walk of the path.
Obj(c, i) ==
    LET obj[k \in DOMAIN c.items] ==
          IF k = 1 THEN Root ELSE InDir(obj[c.items[k].parent], c.items[k].name)
    IN  obj[i]

\* The host directory and name that the path of an item other than the root
\* leads to.
Place(c, i) == <<Obj(c, c.items[i].parent), c.items[i].name>>

Lowest(S) == CHOOSE i \in S : \A j \in S : i <= j

\* find_fsitem_by_id
WithId(c, id) == {i \in DOMAIN c.items : c.items[i].id = id}
ById(c, id) == Lowest(WithId(c, id))

\* Mutant of NewItem: a second increment of next_cnid.
NewItemSkip(c, name, guest, p) ==
    [items |-> Append(c.items, [id |-> c.next, parent |-> p, pid |-> c.items[p].id,
                                name |-> name, guest |-> guest]),
     next |-> c.next + 2]

\* create_fsitem
NewItem(c, name, guest, p) ==
    [items |-> Append(c.items, [id |-> c.next, parent |-> p, pid |-> c.items[p].id,
                                name |-> name, guest |-> guest]),
     next |-> c.next + 1]

\* The first item of the set found, or the one that create_fsitem appends.
Found(c, found, name, guest, p) ==
    IF found # {} THEN [cat |-> c, item |-> Lowest(found)]
                  ELSE [cat |-> NewItem(c, name, guest, p), item |-> Len(c.items) + 1]

\* find_fsitem: the item of a host name.
find_fsitem(c, n, p) ==
    Found(c, {i \in DOMAIN c.items : c.items[i].parent = p /\ c.items[i].name = n}, n, Guest[n], p)

\* find_fsitem_guest: the item of a Mac name.
find_fsitem_guest(c, g, p) ==
    Found(c, {i \in DOMAIN c.items : c.items[i].parent = p /\ c.items[i].guest = g}, g, g, p)

\* get_item_and_path: the item of a name in the directory with CNID dirID.
GetItem(c, dirID, name) ==
    IF name = Empty THEN [cat |-> c, item |-> ById(c, dirID)]
                    ELSE find_fsitem_guest(c, name, ById(c, dirID))

\* Mutant of SwapParentIds: the parent CNIDs of the children stay.
SwapParentIdsNot(items, a, b) == items

\* swap_parent_ids
SwapParentIds(items, a, b) ==
    [k \in DOMAIN items |->
        [items[k] EXCEPT !.pid = IF @ = a THEN b ELSE IF @ = b THEN a ELSE @]]

\* Mutant of SwapIds: the new item takes the CNID of the old, which keeps it.
SwapIdsHalf(c, i, j) ==
    [c EXCEPT !.items = [SwapParentIds(@, @[i].id, @[j].id) EXCEPT ![j].id = c.items[i].id]]

\* Mutant of SwapIds: the items keep their CNIDs.
SwapIdsNot(c, i, j) == c

\* "The ID of the old file/dir has to stay the same, so we swap the IDs of the
\* FSItems": items i and j exchange their CNIDs.
SwapIds(c, i, j) ==
    LET a == c.items[i].id
        b == c.items[j].id
        s == SwapParentIds(c.items, a, b)
    IN  [c EXCEPT !.items = [k \in DOMAIN s |->
            [s[k] EXCEPT !.id = IF k = i THEN b ELSE IF k = j THEN a ELSE @]]]

-----------------------------------------------------------------------------
(* The state when the volume is mounted: the host directory holds anything. *)

\* ExtFSInit; the host tree is whatever the user has put in the directory.
Init ==
    /\ at \in [Objects -> {None} \cup Entry]
    /\ \A o, x \in Objects : at[o] # None /\ at[o] = at[x] => o = x
    /\ \A o \in Objects : at[o] # None =>
         at[o][1] \in {Root} \cup {d \in Dirs : \E n \in Names : at[d] = <<Root, n>>}
    /\ rsrc = [e \in Entry |-> None]
    /\ cat = [items |-> <<[id |-> RootID, parent |-> 0, pid |-> 1, name |-> Empty, guest |-> Empty]>>,
              next |-> fsUsrCNID]
    /\ told = None

\* The CNIDs a call may pass: those of the list. Others give dirNFErr.
DirIDs == {cat.items[i].id : i \in DOMAIN cat.items}

Keep(c) == Len(c.items) <= MaxItems /\ cat' = c

\* The Mac is given the CNID of item i of catalog c for the object o.
Tell(c, i, o) ==
    \/ UNCHANGED told
    \/ told = None /\ o \in Objects /\ told' = [id |-> c.items[i].id, obj |-> o, ok |-> TRUE]

\* fs_get_cat_info and fs_get_file_info for a name, or by CNID (name empty).
GetCatInfo(dirID, name) ==
    LET g == GetItem(cat, dirID, name)
        o == Obj(g.cat, g.item)
    IN  /\ Keep(g.cat)
        /\ Tell(g.cat, g.item, o)
        /\ UNCHANGED <<at, rsrc>>

\* The same for the nth entry of a directory.
GetIndexed(dirID, o) ==
    LET p == ById(cat, dirID)
        g == find_fsitem(cat, at[o][2], p)
    IN  /\ at[o] # None /\ Obj(cat, p) = at[o][1]
        /\ Keep(g.cat)
        /\ Tell(g.cat, g.item, o)
        /\ UNCHANGED <<at, rsrc>>

\* fs_create and fs_dir_create, unless something has the name or the host
\* refuses; only the second returns the CNID.
CreateObject(dirID, name, o) ==
    LET g == GetItem(cat, dirID, name)
        place == Place(g.cat, g.item)
    IN  /\ at[o] = None
        /\ Keep(g.cat)
        /\ \/ /\ Obj(g.cat, g.item) = None /\ place[1] \in AllDirs
              /\ at' = [at EXCEPT ![o] = place]
              /\ IF o \in Dirs THEN Tell(g.cat, g.item, o) ELSE UNCHANGED told
           \/ UNCHANGED <<at, told>>
        /\ UNCHANGED rsrc

\* fs_delete: the item stays in the list.
Delete(dirID, name) ==
    LET g == GetItem(cat, dirID, name)
    IN  /\ Keep(g.cat)
        /\ \E done \in BOOLEAN : HostRemove(Place(g.cat, g.item), done)

\* fs_rename. CNIDs are exchanged when the host has renamed the object.
Rename(dirID, name, new) ==
    LET g == GetItem(cat, dirID, name)
        h == GetItem(g.cat, dirID, new)
    IN  \/ /\ Obj(h.cat, h.item) = None
           /\ \E done \in BOOLEAN :
                /\ HostRename(Place(h.cat, g.item), Place(h.cat, h.item), done)
                /\ Keep(IF done THEN SwapIds(h.cat, g.item, h.item) ELSE h.cat)
        \/ /\ Obj(h.cat, h.item) # None
           /\ Keep(h.cat) /\ UNCHANGED <<at, rsrc, told>>

\* fs_cat_move: the object keeps its host name.
CatMove(dirID, name, newDirID) ==
    LET g == GetItem(cat, dirID, name)
        h == GetItem(g.cat, newDirID, Empty)
        n == h.cat.items[g.item].name
        d == Obj(h.cat, h.item)
        k == find_fsitem(h.cat, n, h.item)
    IN  \/ /\ InDir(d, n) = None
           /\ \E done \in BOOLEAN :
                /\ HostRename(Place(h.cat, g.item), <<d, n>>, done)
                /\ Keep(IF done THEN SwapIds(k.cat, g.item, k.item) ELSE h.cat)
        \/ /\ InDir(d, n) # None
           /\ Keep(h.cat) /\ UNCHANGED <<at, rsrc, told>>

\* fs_open of a resource fork for writing: the helper file is made when it is
\* missing, if the host lets it; a directory can have one too.  Opening a data
\* fork is a lookup.
OpenFork(dirID, name) ==
    LET g == GetItem(cat, dirID, name)
        o == Obj(g.cat, g.item)
    IN  /\ Keep(g.cat)
        /\ o \in Objects
        /\ \/ /\ rsrc[at[o]] = None
              /\ rsrc' = [rsrc EXCEPT ![at[o]] = IF o \in Files THEN o ELSE Loose]
              /\ Bounded(rsrc')
           \/ UNCHANGED rsrc
        /\ Tell(g.cat, g.item, o)
        /\ UNCHANGED at

Next ==
    \E id \in DirIDs :
        \/ GetCatInfo(id, Empty)
        \/ \E o \in Objects : GetIndexed(id, o)
        \/ \E n \in MacNames :
             \/ GetCatInfo(id, n)
             \/ Delete(id, n)
             \/ \E o \in Objects : CreateObject(id, n, o)
             \/ OpenFork(id, n)
             \/ \E m \in MacNames : Rename(id, n, m)
             \/ \E j \in DirIDs : CatMove(id, n, j)

Spec == Init /\ [][Next]_vars

-----------------------------------------------------------------------------
(* Properties. *)

TypeOK ==
    /\ at \in [Objects -> {None} \cup Entry]
    /\ rsrc \in [Entry -> {None, Loose} \cup Files]
    /\ cat.items \in Seq([id : IDs, parent : 0 .. MaxItems, pid : IDs \cup {1},
                          name : Names \cup {Empty}, guest : Names \cup {Empty}])
    /\ Len(cat.items) \in 1 .. MaxItems
    /\ cat.next = fsUsrCNID + Len(cat.items) - 1
    /\ told \in {None} \cup [id : IDs, obj : Objects, ok : BOOLEAN]

\* No two items have the same CNID and none has the next one to be given out,
\* whatever renames and moves exchanged.
UniqueIds ==
    /\ \A i, j \in DOMAIN cat.items : cat.items[i].id = cat.items[j].id => i = j
    /\ \A i \in DOMAIN cat.items : cat.items[i].id < cat.next

\* The parent CNID an item reports is the CNID of the item its path goes
\* through.
ParentAgrees ==
    \A i \in DOMAIN cat.items \ {1} :
        /\ cat.items[i].parent \in 1 .. i - 1
        /\ cat.items[i].pid = cat.items[cat.items[i].parent].id

\* A CNID the Mac was given names the same file or directory for as long as it
\* exists, over renames, moves, deletions and files made again under an old
\* name, when no directory above it has been renamed or moved.
IdKept ==
    told # None /\ told.ok => \E i \in WithId(cat, told.id) : Obj(cat, i) = told.obj

\* A resource fork lies beside the file it belongs to and nowhere else. Only a
\* call on the file itself, of which the host carries out one half and refuses
\* the other, parts the two; forks parted before do not get in the way.
ForkStays ==
    \A e \in Entry : rsrc[e] \in Files => at[rsrc[e]] = e
=============================================================================
