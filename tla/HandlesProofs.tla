--------------------------- MODULE HandlesProofs ---------------------------
(***************************************************************************)
(* Proofs about Handles, for any processes, collections, names and values, *)
(* any number of objects, and every bound: one store per path, what an     *)
(* open loads, and what an iterator gives.                                 *)
(***************************************************************************)
EXTENDS Handles, Recursion

-----------------------------------------------------------------------------
(* The inductive invariant.                                                *)

\* A call under way is about objects of its own process; one that is checkpointed is
\* open, and has given its lock up until it is locked again.
CallSound(p) ==
  /\ at[p].op \in Opener /\ at[p].parent # None => Has(p, at[p].parent)
  /\ at[p].op \in Publisher => Has(p, at[p].inner) /\ inners[at[p].inner].live
  /\ at[p].op \in {"publish", "relock"} => inners[at[p].inner].gen = 0
  /\ at[p].op = "unlink" => Has(p, at[p].parent)

CallsSound == \A p \in Process : CallSound(p)

\* There is room for the objects that are being opened.
RoomLeft == Cardinality(Openers) <= Cardinality(Free)

\* A file has an inode; an open or a create has one that was there, and finds a file if
\* it is there still; a closed object has no lock.
InodeSound(p) ==
  at[p].op \in Opener \ {"create"} =>
    /\ at[p].gen # 0 /\ at[p].gen <= files[at[p].path].gen
    /\ at[p].gen = files[at[p].path].gen => files[at[p].path].omen # None
    /\ at[p].op \in {"open", "read"} => at[p].omen # None

InodesSound ==
  /\ \A x \in Path : files[x].omen # None => files[x].gen # 0
  /\ \A p \in Process : InodeSound(p)
  /\ \A i \in Inner : inners[i] # None /\ ~inners[i].live => inners[i].gen = 0

Publishing(i) == \E p \in Process : at[p].op \in {"publish", "relock"} /\ at[p].inner = i

Live(i) == inners[i] # None /\ inners[i].live

\* An open store of a path that is not marred has that path's file locked, or has given
\* the lock up in a checkpoint; it writes to the log at the path, and holds what an open
\* may find.
OwnersHold ==
  \A i \in Inner :
    Live(i) /\ inners[i].path \notin marred =>
      LET x == inners[i].path
      IN  /\ files[x].omen \notin {None, Torn}
          /\ inners[i].gen = files[x].gen \/ Publishing(i)
          /\ Linked(i)
          /\ \A id \in Id : inners[i].data[id] \in allowed[x][id]

\* No two calls hold the lock of one inode.
HoldersApart ==
  \A p, q \in Process, x \in Path, gen \in Nat : Holds(p, x, gen) /\ Holds(q, x, gen) => p = q

\* While a call holds the lock of the file at a path that is not marred, no store is
\* open there.
HoldersAlone ==
  \A p \in Process, x \in Path \ marred : Holds(p, x, files[x].gen) =>
    \A i \in Inner : Live(i) => inners[i].path # x

\* A file that is being created, at a path that is not marred, has one creator, and
\* nothing in it or before it.
CreationsAlone ==
  \A p \in Process, x \in Path \ marred : Creating(p, x) =>
    /\ files[x].omen = Torn /\ files[x].log = Blank
    /\ allowed[x] = [id \in Id |-> {None}]
    /\ \A q \in Process : Creating(q, x) => q = p

Apart == HoldersApart /\ HoldersAlone /\ CreationsAlone

Unlinking(x) == \E p \in Process : at[p].op = "unlink" /\ at[p].path = x

\* A path that is not marred has no file while it is removed, and nothing of its past
\* once it has no file.
RemovalsComplete ==
  \A x \in Path \ marred :
    /\ Unlinking(x) => files[x].omen = None
    /\ files[x].omen = None => /\ allowed[x] = [id \in Id |-> {None}]
                               /\ files[x].log = Blank \/ Unlinking(x)

\* AcknowledgedSurvive, of one path.
Acknowledged(x) ==
  Exists(x) /\ ~(\E p \in Process : Creating(p, x)) =>
    /\ files[x].omen # Torn
    /\ \A id \in Id : Loaded(files[x].omen, files[x].log)[id] \in allowed[x][id]

\* What an iterator owes, it has given or has still to look up, and is there.
CursorsSound ==
  \A p \in Process : cursor[p] # None =>
    /\ cursor[p].steady \subseteq cursor[p].todo \cup cursor[p].given
    /\ inners[cursor[p].inner].live => cursor[p].steady \subseteq Present(cursor[p].inner)

IInv == /\ TypeOK
        /\ CallsSound
        /\ RoomLeft
        /\ InodesSound
        /\ OneOwner
        /\ OwnersHold
        /\ Apart
        /\ RemovalsComplete
        /\ AcknowledgedSurvive
        /\ CursorsSound

-----------------------------------------------------------------------------
(* Lemmas.                                                                 *)

\* The processes are few, and so are the objects.
LEMMA FiniteParts ==
  /\ IsFiniteSet(Process)
  /\ IsFiniteSet(Inner)
<1>1. IsFiniteSet({"python", "node", "ffi"})
  <2>1. IsFiniteSet({"python"}) /\ IsFiniteSet({"node"}) /\ IsFiniteSet({"ffi"})
    BY FS_Singleton
  <2>2. {"python", "node", "ffi"} = ({"python"} \cup {"node"}) \cup {"ffi"}
    OBVIOUS
  <2> QED
    <3>1. IsFiniteSet({"python"} \cup {"node"})
      BY <2>1, FS_Union
    <3> QED
      BY <2>1, <2>2, <3>1, FS_Union
<1>2. IsFiniteSet(Process)
  BY <1>1, FS_Subset, ProcessAssumption
<1>3. IsFiniteSet(Inner)
  BY FS_Interval, InnersAssumption DEF Inner
<1> QED
  BY <1>2, <1>3
LEMMA PartsCounted ==
  /\ IsFiniteSet(Openers) /\ Cardinality(Openers) \in Nat
  /\ IsFiniteSet(Free) /\ Cardinality(Free) \in Nat
<1>1. Openers \in SUBSET Process /\ Free \in SUBSET Inner
  BY DEF Openers, Free
<1> QED
  BY <1>1, FiniteParts, FS_Subset, FS_CardinalityType

\* While an object is being opened there is a place for it, which Opened takes.
LEMMA PlaceFree ==
  ASSUME RoomLeft, NEW p \in Openers
  PROVE  Min(Free) \in Inner /\ inners[Min(Free)] = None
<1>1. Cardinality(Openers) # 0
  BY PartsCounted, FS_EmptySet
<1>2. Free # {}
  BY <1>1, PartsCounted, FS_EmptySet DEF RoomLeft
<1>3. Free \in SUBSET Nat
  BY InnersAssumption DEF Free, Inner
<1>4. Min(Free) \in Free
  BY <1>2, <1>3, LeastNatural DEF Min
<1> QED
  BY <1>4 DEF Free

\* What a call under way holds.
LEMMA CallTypes ==
  ASSUME TypeOK, NEW p \in Process
  PROVE  /\ at[p].op \in Opener =>
              /\ at[p].path \in Path /\ at[p].gen \in Nat
              /\ at[p].omen \in Contents \cup {None, Torn}
              /\ at[p].parent \in Inner \cup {None}
         /\ at[p].op \in Publisher =>
              at[p].inner \in Inner /\ at[p].closing \in BOOLEAN
         /\ at[p].op = "unlink" => at[p].parent \in Inner /\ at[p].path \in Name
         /\ at[p].op = "idle" <=> at[p] = Idle
<1>1. at[p] \in Call
  BY DEF TypeOK
<1> QED
  BY <1>1 DEF Call, Idle, Opener, Publisher
LEMMA ObjectTypes ==
  ASSUME TypeOK, NEW i \in Inner, inners[i] # None
  PROVE  /\ inners[i] \in Object
         /\ inners[i].proc \in Process /\ inners[i].path \in Path
         /\ inners[i].live \in BOOLEAN /\ inners[i].gen \in Nat /\ inners[i].era \in Nat
         /\ inners[i].data \in Contents
         /\ \A c \in Name : inners[i].cache[c] \in Inner \cup {None}
<1>1. inners[i] \in Object
  BY DEF TypeOK
<1> QED
  BY <1>1 DEF Object
LEMMA CursorTypes ==
  ASSUME TypeOK, NEW p \in Process, cursor[p] # None
  PROVE  /\ cursor[p] \in Cursor
         /\ cursor[p].inner \in Inner
         /\ Has(p, cursor[p].inner)
<1>1. cursor[p] \in Cursor
  BY DEF TypeOK
<1> QED
  BY <1>1 DEF TypeOK, Cursor, Has

\* Fewer openers, or more room, leave enough room.
LEMMA RoomKept ==
  ASSUME RoomLeft, Openers' \subseteq Openers, Free \subseteq Free'
  PROVE  RoomLeft'
<1>1. Openers' \in SUBSET Process /\ Free' \in SUBSET Inner
  BY DEF Openers, Free
<1>2. /\ IsFiniteSet(Openers') /\ Cardinality(Openers') \in Nat
      /\ IsFiniteSet(Free') /\ Cardinality(Free') \in Nat
  BY <1>1, FiniteParts, FS_Subset, FS_CardinalityType
<1>3. Cardinality(Openers') <= Cardinality(Openers)
  BY PartsCounted, FS_Subset
<1>4. Cardinality(Free) <= Cardinality(Free')
  BY <1>2, FS_Subset
<1> QED
  BY <1>2, <1>3, <1>4, PartsCounted DEF RoomLeft

\* The call of process p ends, or becomes another of the same object.
LEMMA OthersUnchanged ==
  ASSUME TypeOK, NEW p \in Process, NEW call \in Call, at' = [at EXCEPT ![p] = call]
  PROVE  /\ at' \in [Process -> Call] /\ at'[p] = call
         /\ \A q \in Process \ {p} : at'[q] = at[q]
         /\ call = Idle => /\ Openers' = Openers \ {p}
                          /\ \A y \in Path : Unlinking(y)' => Unlinking(y)
<1>1. at \in [Process -> Call]
  BY DEF TypeOK
<1>2. at' \in [Process -> Call] /\ at'[p] = call /\ \A q \in Process \ {p} : at'[q] = at[q]
  BY <1>1
<1> QED
  BY <1>2 DEF Openers, Opener, Unlinking, Idle

\* Object i is as it was, but for its cache.
Same(i) == /\ inners'[i] = None <=> inners[i] = None
           /\ inners[i] # None =>
                /\ inners'[i].proc = inners[i].proc /\ inners'[i].path = inners[i].path
                /\ inners'[i].live = inners[i].live /\ inners'[i].data = inners[i].data
                /\ inners'[i].gen = inners[i].gen /\ inners'[i].era = inners[i].era
-----------------------------------------------------------------------------
(* What a step keeps of the invariant: the calls of other processes, the   *)
(* locks they hold, and the paths it does not touch.                       *)

LEMMA CallKept ==
  ASSUME IInv, NEW p \in Process, at'[p] = at[p],
         \A j \in Inner : Has(p, j) => /\ Has(p, j)'
                                      /\ inners'[j].live = inners[j].live
                                      /\ inners'[j].gen = inners[j].gen
  PROVE  CallSound(p)'
<1>1. CallSound(p)
  BY DEF IInv, CallsSound
<1>2. /\ at[p].op \in Opener => at[p].parent \in Inner \cup {None}
      /\ at[p].op \in Publisher => at[p].inner \in Inner
      /\ at[p].op = "unlink" => at[p].parent \in Inner
  BY CallTypes DEF IInv
<1>3. at[p].op \in {"publish", "relock"} => at[p].op \in Publisher
  BY DEF Publisher
<1>4. CASE at[p].op \in Opener
  BY <1>1, <1>2, <1>4 DEF CallSound, Opener, Publisher
<1>5. CASE at[p].op \in Publisher
  BY <1>1, <1>2, <1>5 DEF CallSound, Opener, Publisher
<1>6. CASE at[p].op = "unlink"
  BY <1>1, <1>2, <1>6 DEF CallSound, Opener, Publisher
<1> QED
  BY <1>3, <1>4, <1>5, <1>6 DEF CallSound

\* Inodes are numbered upwards, and the file at a path goes only with its number.
LEMMA InodeKept ==
  ASSUME IInv, NEW p \in Process, at'[p] = at[p],
         \A y \in Path : /\ files'[y].gen \in Nat /\ files[y].gen <= files'[y].gen
                         /\ files'[y].gen = files[y].gen /\ files[y].omen # None =>
                              files'[y].omen # None
  PROVE  InodeSound(p)'
<1> SUFFICES ASSUME at[p].op \in Opener \ {"create"}
             PROVE  InodeSound(p)'
  BY DEF InodeSound
<1>1. InodeSound(p)
  BY DEF IInv, InodesSound
<1> PICK x \in Path : x = at[p].path
  BY CallTypes DEF IInv
<1> PICK g \in Nat : g = at[p].gen
  BY CallTypes DEF IInv
<1>2. files[x].gen \in Nat
  BY DEF IInv, TypeOK, File
<1> QED
  BY <1>1, <1>2 DEF InodeSound

\* A call that ended is sound.
LEMMA IdleSound ==
  ASSUME NEW p \in Process, at'[p] = Idle
  PROVE  CallSound(p)' /\ InodeSound(p)'
BY DEF CallSound, InodeSound, Idle, Opener, Publisher

\* Who holds a lock or creates a file did so before, and is alone if it is still the
\* file at the path: no store was opened there, and it was not written.
LEMMA ApartKept ==
  ASSUME IInv, marred \subseteq marred',
         \A q \in Process : at'[q].op \in {"read", "lock", "fill"} => at'[q] = at[q],
         \A y \in Path \ marred' :
           \/ /\ files'[y].gen \in Nat /\ files[y].gen < files'[y].gen
           \/ /\ files'[y].gen = files[y].gen
              /\ (\E q \in Process : Holds(q, y, files[y].gen)') =>
                   \A j \in Inner : Live(j)' /\ inners'[j].path = y => Live(j) /\ inners[j].path = y
              /\ (\E q \in Process : Creating(q, y)') =>
                   /\ files'[y].omen = files[y].omen /\ files'[y].log = files[y].log
                   /\ allowed'[y] = allowed[y]
  PROVE  Apart'
<1>1. \A q \in Process, y \in Path, g \in Nat : Holds(q, y, g)' => Holds(q, y, g)
  BY DEF Holds
<1>2. ASSUME NEW q \in Process, NEW y \in Path, at[q].op \in {"read", "lock", "fill"},
             at[q].path = y
      PROVE  at[q].gen \in Nat /\ at[q].gen <= files[y].gen /\ files[y].gen \in Nat
  <2>1. at[q].op \in Opener /\ at[q].op # "create" /\ files[y] \in File
    BY <1>2 DEF Opener, IInv, TypeOK
  <2>2. at[q].gen \in Nat
    BY <2>1, CallTypes DEF IInv
  <2> QED
    BY <1>2, <2>1, <2>2 DEF InodesSound, InodeSound, IInv, File
<1>3. HoldersApart'
  BY <1>1 DEF HoldersApart, Apart, IInv
<1>4. HoldersAlone'
  <2> SUFFICES ASSUME NEW q \in Process, NEW y \in Path \ marred', Holds(q, y, files[y].gen)',
                      NEW j \in Inner, Live(j)'
               PROVE  inners'[j].path # y
    BY DEF HoldersAlone
  <2>1. at'[q].op \in {"read", "fill"} /\ at'[q].path = y /\ at'[q].gen = files'[y].gen
    BY DEF Holds
  <2>2. at'[q] = at[q]
    BY <2>1
  <2>3. at[q].gen \in Nat /\ at[q].gen <= files[y].gen /\ files[y].gen \in Nat
    BY <1>2, <2>1, <2>2
  <2>4. files'[y].gen = files[y].gen
    BY <2>1, <2>2, <2>3
  <2>5. Holds(q, y, files[y].gen)
    BY <2>1, <2>2, <2>4 DEF Holds
  <2>6. \A i \in Inner : Live(i) => inners[i].path # y
    BY <2>5 DEF HoldersAlone, Apart, IInv
  <2> QED
    BY <2>3, <2>4, <2>6
<1>5. CreationsAlone'
  <2> SUFFICES ASSUME NEW q \in Process, NEW y \in Path \ marred', Creating(q, y)'
               PROVE  /\ files'[y].omen = Torn /\ files'[y].log = Blank
                      /\ allowed'[y] = [id \in Id |-> {None}]
                      /\ \A r \in Process : Creating(r, y)' => r = q
    BY DEF CreationsAlone, Blank
  <2>1. ASSUME NEW r \in Process, Creating(r, y)'
        PROVE  files'[y].gen = files[y].gen /\ Creating(r, y)
    <3>1. at'[r].op \in {"lock", "fill"} /\ at'[r].path = y /\ at'[r].gen = files'[y].gen
      BY <2>1 DEF Creating
    <3>2. at'[r] = at[r]
      BY <3>1
    <3>3. at[r].gen \in Nat /\ at[r].gen <= files[y].gen /\ files[y].gen \in Nat
      BY <1>2, <3>1, <3>2
    <3>4. files'[y].gen = files[y].gen
      BY <3>1, <3>2, <3>3
    <3> QED
      BY <3>1, <3>2, <3>4 DEF Creating
  <2>2. /\ Creating(q, y) /\ files[y].gen \in Nat /\ files'[y].gen = files[y].gen
    BY <2>1 DEF IInv, TypeOK, File
  <2>3. /\ files[y].omen = Torn /\ files[y].log = Blank
        /\ allowed[y] = [id \in Id |-> {None}]
        /\ \A r \in Process : Creating(r, y) => r = q
    BY <2>2 DEF CreationsAlone, Apart, IInv
  <2> QED
    BY <2>1, <2>2, <2>3
<1> QED
  BY <1>3, <1>4, <1>5 DEF Apart

\* A path of which file, log and creators stay as they are loads what it did.
LEMMA AcknowledgedKept ==
  ASSUME IInv, NEW y \in Path \ marred, allowed'[y] = allowed[y],
         files'[y].omen = files[y].omen, files'[y].log = files[y].log,
         \A q \in Process : Creating(q, y) => Creating(q, y)'
  PROVE  Acknowledged(y)'
<1>1. Exists(y) /\ ~(\E q \in Process : Creating(q, y)) =>
        /\ files[y].omen # Torn
        /\ \A id \in Id : Loaded(files[y].omen, files[y].log)[id] \in allowed[y][id]
  BY DEF AcknowledgedSurvive, IInv
<1> QED
  BY <1>1 DEF Acknowledged, Exists, Loaded

\* No file is created at a path that has one which was written.
LEMMA WrittenNotCreated ==
  ASSUME IInv, NEW y \in Path \ marred, files[y].omen # Torn
  PROVE  \A q \in Process : ~Creating(q, y)
BY DEF IInv, Apart, CreationsAlone

-----------------------------------------------------------------------------
(* Every action keeps the invariant.                                       *)
LEMMA OpeningInv ==
  ASSUME IInv, NEW p \in Process, NEW x \in Path, NEW r \in Inner \cup {None},
         r # None => Has(p, r), Opening(p, x, r)
  PROVE  IInv'
<1> DEFINE new == [op |-> IF files[x].omen = None THEN "create" ELSE "open", path |-> x,
                   gen |-> files[x].gen, omen |-> files[x].omen, parent |-> r]
<1>1. /\ at[p] = Idle /\ Cardinality(Free) > Cardinality(Openers)
      /\ at' = [at EXCEPT ![p] = new]
      /\ UNCHANGED <<files, inners, cursor, marred, allowed>>
  BY DEF Opening
<1>2. TypeOK /\ files[x] \in File
  BY DEF IInv, TypeOK
<1>3. new \in Call /\ new.op \in {"open", "create"}
  BY <1>2 DEF Call, File, Opener
<1>4. \A q \in Process : at'[q] = IF q = p THEN new ELSE at[q]
  BY <1>1, <1>2 DEF TypeOK
<1> HIDE DEF new
<1>5. TypeOK'
  BY <1>1, <1>2, <1>3 DEF TypeOK
<1>6. CallsSound'
  <2>1. CallSound(p)'
    BY <1>1, <1>3, <1>4 DEF CallSound, Has, Opener, Publisher, new
  <2>2. ASSUME NEW q \in Process, q # p
        PROVE  CallSound(q)'
    BY <1>1, <1>4, <2>2, CallKept DEF Has
  <2> QED
    BY <2>1, <2>2 DEF CallsSound
<1>7. RoomLeft'
  <2>1. Openers' = Openers \cup {p} /\ Free' = Free
    BY <1>1, <1>3, <1>4 DEF Openers, Opener, Free
  <2>2. Cardinality(Openers \cup {p}) =
          IF p \in Openers THEN Cardinality(Openers) ELSE Cardinality(Openers) + 1
    BY PartsCounted, FS_AddElement, Zenon
  <2> QED
    BY <1>1, <2>1, <2>2, PartsCounted DEF RoomLeft
<1>8. InodesSound'
  <2>1. new.op = "open" => files[x].omen # None
    BY DEF new
  <2>2. /\ new.path = x /\ new.gen = files[x].gen /\ files[x].gen \in Nat
        /\ new.omen = files[x].omen
    BY <1>2 DEF new, File
  <2>3. InodeSound(p)'
    BY <1>1, <1>3, <1>4, <2>1, <2>2 DEF InodeSound, InodesSound, IInv
  <2>4. ASSUME NEW q \in Process, q # p
        PROVE  InodeSound(q)'
    <3>1. \A y \in Path : files'[y] = files[y] /\ files[y].gen \in Nat
      BY <1>1, <1>2 DEF TypeOK, File
    <3> QED
      BY <1>4, <2>4, <3>1, InodeKept
  <2> QED
    BY <1>1, <2>3, <2>4 DEF InodesSound, IInv
<1>9. \A i \in Inner : Publishing(i)' <=> Publishing(i)
  BY <1>1, <1>3, <1>4 DEF Publishing, Idle
<1>10. \A y \in Path : Unlinking(y)' <=> Unlinking(y)
  BY <1>1, <1>3, <1>4 DEF Unlinking, Idle
<1>11. OneOwner'
  BY <1>1 DEF OneOwner, IInv
<1>12. OwnersHold'
  BY <1>1, <1>9 DEF OwnersHold, IInv, Live, Linked
<1>13. RemovalsComplete'
  BY <1>1, <1>10 DEF RemovalsComplete, IInv
<1>14. Apart' /\ AcknowledgedSurvive'
  <2>1. \A q \in Process : \/ at'[q] = at[q]
                           \/ q = p /\ at'[q].op \in {"open", "create"} /\ at[q].op = "idle"
    BY <1>1, <1>3, <1>4 DEF Idle
  <2>2. Apart'
    BY <1>1, <2>1, ApartKept DEF Live
  <2>3. ASSUME NEW y \in Path \ marred
        PROVE  Acknowledged(y)'
    <3>1. \A q \in Process : Creating(q, y) => Creating(q, y)'
      BY <1>1, <2>1 DEF Creating
    <3> QED
      BY <1>1, <3>1, AcknowledgedKept
  <2> QED
    BY <1>1, <2>2, <2>3 DEF AcknowledgedSurvive, Acknowledged
<1>15. CursorsSound'
  BY <1>1 DEF CursorsSound, IInv, Present
<1> QED
  BY <1>5, <1>6, <1>7, <1>8, <1>11, <1>12, <1>13, <1>14, <1>15 DEF IInv

\* A write of the names ids through an open store.
LEMMA WriteInv ==
  ASSUME IInv, NEW p \in Process, NEW i \in Inner, Usable(p, i),
         NEW ids \in SUBSET Id, NEW new \in Contents, NEW logged \in BOOLEAN,
         \A id \in Id \ ids : new[id] = inners[i].data[id],
         Write(p, i, ids, new, logged)
  PROVE  IInv'
<1> DEFINE x == inners[i].path
<1>1. /\ inners' = [inners EXCEPT ![i].data = new]
      /\ files' = IF logged THEN Recorded(i, ids, new) ELSE files
      /\ UNCHANGED <<at, marred>>
  BY DEF Write
<1>2. allowed' = [allowed EXCEPT ![x] = [id \in Id |->
                    IF id \in ids THEN {new[id]} \cup IF logged THEN {} ELSE allowed[x][id]
                    ELSE @[id]]]
  BY DEF Write
<1>3. cursor' = [q \in Process |->
                   IF cursor[q] # None /\ cursor[q].inner = i
                   THEN [cursor[q] EXCEPT !.steady = {id \in @ : new[id] # None}]
                   ELSE cursor[q]]
  BY DEF Write
<1>4. TypeOK /\ inners[i] # None /\ inners[i].proc = p /\ inners[i].live
  BY DEF IInv, Usable, Has
<1>5. inners[i] \in Object /\ x \in Path
  BY <1>4, ObjectTypes
<1>6. inners'[i] = [inners[i] EXCEPT !.data = new] /\ inners'[i] \in Object
  BY <1>1, <1>4, <1>5 DEF TypeOK, Object
<1>7. \A j \in Inner : j # i => inners'[j] = inners[j]
  BY <1>1, <1>4 DEF TypeOK
<1>8. \A j \in Inner : /\ inners'[j] = None <=> inners[j] = None
                       /\ inners'[j].proc = inners[j].proc /\ inners'[j].path = inners[j].path
                       /\ inners'[j].live = inners[j].live /\ inners'[j].gen = inners[j].gen
                       /\ inners'[j].era = inners[j].era /\ inners'[j].cache = inners[j].cache
  BY <1>4, <1>5, <1>6, <1>7, NoneAssumption DEF Object
<1>9. files' \in [Path -> File] /\ \A y \in Path :
         /\ files'[y].omen = files[y].omen /\ files'[y].gen = files[y].gen
         /\ files'[y].era = files[y].era
         /\ y # x \/ ~logged => files'[y].log = files[y].log
  <2>1. CASE ~logged
    BY <1>1, <1>4, <2>1 DEF TypeOK
  <2>2. CASE logged /\ ~Linked(i)
    <3>1. files' = files
      BY <1>1, <1>4, <1>5, <2>2 DEF Recorded, TypeOK, File
    <3> QED
      BY <1>4, <3>1 DEF TypeOK
  <2>3. CASE logged /\ Linked(i)
    <3> DEFINE log == [id \in Id |-> IF id \notin ids THEN files[x].log[id]
                                     ELSE IF new[id] = None THEN Gone ELSE new[id]]
    <3>1. files[x] \in File /\ files[x].log \in Overlay
      BY <1>4, <1>5 DEF TypeOK, File
    <3>2. log \in Overlay
      BY <3>1 DEF Overlay, Contents
    <3>3. files' = [files EXCEPT ![x].log = log]
      BY <1>1, <2>3 DEF Recorded
    <3> HIDE DEF log, x
    <3>4. [files[x] EXCEPT !.log = log] \in File
          /\ [files[x] EXCEPT !.log = log].omen = files[x].omen
          /\ [files[x] EXCEPT !.log = log].gen = files[x].gen
          /\ [files[x] EXCEPT !.log = log].era = files[x].era
      BY <3>1, <3>2 DEF File
    <3>5. files \in [Path -> File]
      BY <1>4 DEF TypeOK
    <3>6. \A y \in Path : files'[y] = IF y = x THEN [files[x] EXCEPT !.log = log] ELSE files[y]
      BY <3>3, <3>5
    <3>7. files' \in [Path -> File]
      BY <1>5, <3>3, <3>4, <3>5
    <3> QED
      BY <2>3, <3>4, <3>6, <3>7
  <2> QED
    BY <2>1, <2>2, <2>3
<1>10. TypeOK'
  <2>1. inners' \in [Inner -> Object \cup {None}]
    BY <1>1, <1>4, <1>6, <1>7 DEF TypeOK
  <2>2. cursor' \in [Process -> Cursor \cup {None}]
        /\ \A q \in Process : /\ cursor'[q] = None <=> cursor[q] = None
                             /\ cursor'[q].inner = cursor[q].inner
    <3>1. \A q \in Process : cursor[q] # None => cursor[q] \in Cursor
      BY <1>4 DEF TypeOK
    <3> QED
      BY <1>3, <3>1, NoneAssumption DEF Cursor
  <2>3. allowed' \in [Path -> [Id -> SUBSET (Val \cup {None})]]
    <3>1. [id \in Id |-> IF id \in ids THEN {new[id]} \cup IF logged THEN {} ELSE allowed[x][id]
                         ELSE allowed[x][id]] \in [Id -> SUBSET (Val \cup {None})]
      BY <1>4, <1>5 DEF TypeOK, Contents
    <3> HIDE DEF x
    <3> QED
      BY <1>2, <1>4, <1>5, <3>1 DEF TypeOK
  <2>4. at' \in [Process -> Call] /\ marred' \subseteq Path
    BY <1>1, <1>4 DEF TypeOK
  <2>5. \A j \in Inner, c \in Name : inners[j] # None => inners[j].cache[c] \in Inner \cup {None}
    BY <1>4, ObjectTypes
  <2>6. \A j \in Inner, c \in Name :
          inners'[j] # None /\ inners'[j].cache[c] # None =>
            LET o == inners'[inners'[j].cache[c]]
            IN  o # None /\ o.proc = inners'[j].proc /\ o.path = c
    BY <1>4, <1>8, <2>5 DEF TypeOK
  <2>7. \A q \in Process : cursor[q] # None => cursor[q].inner \in Inner
    BY <1>4, CursorTypes
  <2>8. \A q \in Process : cursor'[q] # None =>
          inners'[cursor'[q].inner] # None /\ inners'[cursor'[q].inner].proc = q
    BY <1>4, <1>8, <2>2, <2>7 DEF TypeOK
  <2> QED
    BY <1>9, <2>1, <2>2, <2>3, <2>4, <2>6, <2>8 DEF TypeOK
<1>11. \A q \in Process, j \in Inner : Has(q, j)' <=> Has(q, j)
  BY <1>8 DEF Has
<1>12. CallsSound'
  BY <1>1, <1>8, <1>11, CallKept DEF CallsSound
<1>13. RoomLeft'
  <2>1. Openers' \subseteq Openers /\ Free \subseteq Free'
    BY <1>1, <1>8 DEF Openers, Free
  <2> QED
    BY <2>1, RoomKept DEF IInv
<1>14. InodesSound'
  <2>1. \A y \in Path : files[y].gen \in Nat
    BY <1>4 DEF TypeOK, File
  <2>2. \A q \in Process : InodeSound(q)'
    BY <1>1, <1>9, <2>1, InodeKept
  <2> QED
    BY <1>8, <1>9, <2>2 DEF InodesSound, IInv
<1>15. OneOwner'
  BY <1>1, <1>8 DEF OneOwner, IInv
<1>16. \A y \in Path \ {x} : allowed'[y] = allowed[y]
  BY <1>2, <1>4, <1>5 DEF TypeOK
<1>17. \A id \in Id : allowed'[x][id] =
         IF id \in ids THEN {new[id]} \cup IF logged THEN {} ELSE allowed[x][id]
         ELSE allowed[x][id]
  BY <1>2, <1>4, <1>5 DEF TypeOK
<1> HIDE DEF x
<1>18. OwnersHold'
  <2> SUFFICES ASSUME NEW j \in Inner, Live(j)', inners'[j].path \notin marred'
               PROVE  /\ files'[inners'[j].path].omen \notin {None, Torn}
                      /\ inners'[j].gen = files'[inners'[j].path].gen \/ Publishing(j)'
                      /\ Linked(j)'
                      /\ \A id \in Id : inners'[j].data[id] \in allowed'[inners'[j].path][id]
    BY DEF OwnersHold
  <2>1. Live(j) /\ inners[j].path \in Path /\ inners[j].path \notin marred
    BY <1>1, <1>4, <1>8, ObjectTypes DEF Live
  <2>2. /\ files[inners[j].path].omen \notin {None, Torn}
        /\ inners[j].gen = files[inners[j].path].gen \/ Publishing(j)
        /\ Linked(j)
        /\ \A id \in Id : inners[j].data[id] \in allowed[inners[j].path][id]
    BY <2>1 DEF OwnersHold, IInv
  <2>3. /\ files'[inners'[j].path].omen \notin {None, Torn}
        /\ inners'[j].gen = files'[inners'[j].path].gen \/ Publishing(j)'
        /\ Linked(j)'
    BY <1>1, <1>8, <1>9, <2>1, <2>2 DEF Publishing, Linked
  <2>4. \A id \in Id : inners'[j].data[id] \in allowed'[inners'[j].path][id]
    <3>1. CASE j = i
      <4>1. inners'[i].data = new
        BY <1>5, <1>6 DEF Object
      <4>2. \A id \in Id : new[id] \in allowed'[x][id]
        <5> SUFFICES ASSUME NEW id \in Id PROVE new[id] \in allowed'[x][id]
          OBVIOUS
        <5>1. CASE id \in ids
          BY <1>17, <5>1
        <5>2. CASE id \notin ids
          BY <1>17, <2>2, <3>1, <5>2 DEF x
        <5> QED
          BY <5>1, <5>2
      <4> QED
        BY <1>8, <3>1, <4>1, <4>2 DEF x
    <3>2. CASE j # i
      <4>1. inners[j].path # x
        BY <1>4, <2>1, <3>2 DEF OneOwner, IInv, Live, x
      <4> QED
        BY <1>7, <1>16, <2>1, <2>2, <3>2, <4>1
    <3> QED
      BY <3>1, <3>2
  <2> QED
    BY <2>3, <2>4
<1>19. x \notin marred => /\ files[x].omen \notin {None, Torn} /\ Linked(i)
                          /\ \A id \in Id : inners[i].data[id] \in allowed[x][id]
  BY <1>4 DEF OwnersHold, IInv, Live, x
<1>20. RemovalsComplete'
  <2> SUFFICES ASSUME NEW y \in Path \ marred
               PROVE  /\ Unlinking(y)' => files'[y].omen = None
                      /\ files'[y].omen = None =>
                           /\ allowed'[y] = [id \in Id |-> {None}]
                           /\ files'[y].log = Blank \/ Unlinking(y)'
    BY <1>1 DEF RemovalsComplete
  <2>1. Unlinking(y)' <=> Unlinking(y)
    BY <1>1 DEF Unlinking
  <2>3. files'[y].omen = None => y # x
    BY <1>9, <1>19
  <2>4. Unlinking(y)' => files'[y].omen = None
    BY <1>9, <2>1 DEF RemovalsComplete, IInv
  <2>5. files'[y].omen = None => /\ allowed'[y] = [id \in Id |-> {None}]
                                 /\ files'[y].log = Blank \/ Unlinking(y)'
    <3> SUFFICES ASSUME files'[y].omen = None
                 PROVE  /\ allowed'[y] = [id \in Id |-> {None}]
                        /\ files'[y].log = Blank \/ Unlinking(y)'
      OBVIOUS
    <3>1. files'[y].log = files[y].log /\ allowed'[y] = allowed[y] /\ files[y].omen = None
      BY <1>9, <1>16, <2>3
    <3> QED
      BY <2>1, <3>1 DEF RemovalsComplete, IInv
  <2> QED
    BY <2>4, <2>5
<1>21. AcknowledgedSurvive'
  <2> SUFFICES ASSUME NEW y \in Path \ marred, files'[y].omen # None,
                      ~(\E q \in Process : Creating(q, y)')
               PROVE  /\ files'[y].omen # Torn
                      /\ \A id \in Id :
                           Loaded(files'[y].omen, files'[y].log)[id] \in allowed'[y][id]
    BY <1>1 DEF AcknowledgedSurvive, Exists, Loaded
  <2>1. /\ files[y].omen # Torn
        /\ \A id \in Id : Loaded(files[y].omen, files[y].log)[id] \in allowed[y][id]
    <3>1. \A q \in Process : Creating(q, y) => Creating(q, y)'
      BY <1>1, <1>9 DEF Creating
    <3> QED
      BY <1>9, <3>1 DEF AcknowledgedSurvive, IInv, Exists
  <2>2. CASE y # x
    BY <1>9, <1>16, <2>1, <2>2 DEF Loaded
  <2>3. CASE y = x /\ ~logged
    BY <1>9, <1>17, <2>1, <2>3 DEF Loaded
  <2>4. CASE y = x /\ logged
    <3> DEFINE log == [id \in Id |-> IF id \notin ids THEN files[x].log[id]
                                     ELSE IF new[id] = None THEN Gone ELSE new[id]]
    <3>1. files'[x].log = log
      <4>1. files' = [files EXCEPT ![x].log = log]
        BY <1>1, <1>19, <2>4 DEF Recorded, x
      <4>2. files \in [Path -> File] /\ files[x] \in File
        BY <1>4, <1>5 DEF TypeOK, x
      <4> HIDE DEF log
      <4>3. files'[x] = [files[x] EXCEPT !.log = log]
        BY <1>5, <4>1, <4>2 DEF x
      <4> QED
        BY <4>2, <4>3 DEF File
    <3>2. ASSUME NEW id \in Id
          PROVE  Loaded(files'[y].omen, files'[y].log)[id] \in allowed'[y][id]
      <4>1. CASE id \in ids
        <5>1. Loaded(files'[y].omen, files'[y].log)[id] = new[id]
          BY <2>4, <3>1, <4>1, ValueAssumption DEF Loaded, Contents
        <5> QED
          BY <1>17, <2>4, <4>1, <5>1
      <4>2. CASE id \notin ids
        <5>1. files'[y].log[id] = files[y].log[id] /\ files'[y].omen = files[y].omen
          BY <1>9, <2>4, <3>1, <4>2
        <5>2. Loaded(files'[y].omen, files'[y].log)[id] = Loaded(files[y].omen, files[y].log)[id]
          BY <5>1 DEF Loaded
        <5> QED
          BY <1>17, <2>1, <2>4, <4>2, <5>2
      <4> QED
        BY <4>1, <4>2
    <3> QED
      BY <1>9, <2>1, <3>2
  <2> QED
    BY <2>2, <2>3, <2>4
<1>22. CursorsSound'
  <2> SUFFICES ASSUME NEW q \in Process, cursor'[q] # None
               PROVE  /\ cursor'[q].steady \subseteq cursor'[q].todo \cup cursor'[q].given
                      /\ inners'[cursor'[q].inner].live =>
                           cursor'[q].steady \subseteq
                             {id \in Id : inners'[cursor'[q].inner].data[id] # None}
    BY DEF CursorsSound, Present
  <2>1. cursor[q] # None
    BY <1>3
  <2>2. cursor[q] \in Cursor /\ cursor[q].inner \in Inner
    BY <1>4, <2>1, CursorTypes
  <2>3. /\ cursor[q].steady \subseteq cursor[q].todo \cup cursor[q].given
        /\ inners[cursor[q].inner].live =>
             cursor[q].steady \subseteq {id \in Id : inners[cursor[q].inner].data[id] # None}
    BY <2>1 DEF CursorsSound, IInv, Present
  <2>4. CASE cursor[q].inner = i
    <3>1. cursor'[q] = [cursor[q] EXCEPT !.steady = {id \in cursor[q].steady : new[id] # None}]
      BY <1>3, <2>1, <2>4
    <3>2. /\ cursor'[q].steady = {id \in cursor[q].steady : new[id] # None}
          /\ cursor'[q].todo = cursor[q].todo /\ cursor'[q].given = cursor[q].given
          /\ cursor'[q].inner = i
      BY <2>2, <2>4, <3>1 DEF Cursor
    <3>3. inners'[i].data = new
      BY <1>5, <1>6 DEF Object
    <3>4. cursor[q].steady \subseteq Id
      BY <2>2 DEF Cursor
    <3> QED
      BY <1>4, <2>3, <2>4, <3>2, <3>3, <3>4
  <2>5. CASE cursor[q].inner # i
    <3>1. cursor'[q] = cursor[q]
      BY <1>3, <2>5
    <3> QED
      BY <1>7, <2>2, <2>3, <2>5, <3>1
  <2> QED
    BY <2>4, <2>5
<1>23. Apart'
  <2>1. \A y \in Path \ marred : (\E q \in Process : Creating(q, y)') => y # x
    <3>1. \A y \in Path, q \in Process : Creating(q, y)' => Creating(q, y)
      BY <1>1, <1>9 DEF Creating
    <3>2. x \notin marred => \A q \in Process : ~Creating(q, x)
      BY <1>5, <1>19, WrittenNotCreated DEF x
    <3> QED
      BY <3>1, <3>2
  <2>2. \A j \in Inner : Live(j)' => Live(j) /\ inners'[j].path = inners[j].path
    BY <1>8 DEF Live
  <2>3. \A y \in Path \ marred : (\E q \in Process : Creating(q, y)') =>
           /\ files'[y].omen = files[y].omen /\ files'[y].log = files[y].log
           /\ allowed'[y] = allowed[y]
    BY <1>9, <1>16, <2>1
  <2> QED
    BY <1>1, <1>9, <2>2, <2>3, ApartKept
<1> QED
  BY <1>10, <1>12, <1>13, <1>14, <1>15, <1>18, <1>20, <1>21, <1>22, <1>23 DEF IInv

\* What is so once the object is made, in a place n that was free.
Placed(object) ==
  /\ inners' \in [Inner -> Object \cup {None}]
  /\ \A j \in Inner, c \in Name :
       inners'[j] # None /\ inners'[j].cache[c] # None =>
         LET o == inners'[inners'[j].cache[c]]
         IN  o # None /\ o.proc = inners'[j].proc /\ o.path = c
  /\ \A q \in Process : cursor'[q] # None =>
       inners'[cursor'[q].inner] # None /\ inners'[cursor'[q].inner].proc = q
  /\ CallsSound' /\ RoomLeft' /\ CursorsSound'
  /\ \E n \in Inner :
       /\ inners[n] = None /\ inners'[n] = object
       /\ \A j \in Inner \ {n} : Same(j)

\* The new object is in a free place; every other object is what it was, but that the
\* parent's cache refers to it.
LEMMA PlacedInv ==
  ASSUME IInv, NEW p \in Process, at[p].op \in Opener,
         NEW object \in Object, object.proc = p, object.path = at[p].path,
         object.cache = NoCache,
         at' = [at EXCEPT ![p] = Idle], cursor' = cursor,
         inners' = Opened(object, at[p].parent, at[p].path)
  PROVE  Placed(object)
<1> DEFINE n == Min(Free)
           a == at[p]
<1>1. TypeOK /\ p \in Openers /\ RoomLeft
  BY DEF IInv, Openers
<1>2. n \in Inner /\ inners[n] = None
  BY <1>1, PlaceFree
<1>3. a.parent \in Inner \cup {None} /\ (a.parent # None => Has(p, a.parent))
  BY <1>1, CallTypes DEF CallsSound, CallSound, IInv
<1>4. object # None
  BY NoneAssumption
<1> HIDE DEF n
<1>5. /\ inners'[n] = object
      /\ \A j \in Inner \ {n} : inners'[j] =
           IF j = a.parent THEN [inners[j] EXCEPT !.cache[a.path] = n] ELSE inners[j]
  BY <1>2 DEF Opened, n
<1>6. \A j \in Inner \ {n} : inners[j] # None =>
        [inners[j] EXCEPT !.cache[a.path] = n] \in Object
  <2> SUFFICES ASSUME NEW j \in Inner \ {n}, inners[j] # None
               PROVE  [inners[j] EXCEPT !.cache[a.path] = n] \in Object
    OBVIOUS
  <2>1. inners[j] \in Object
    BY <1>1, ObjectTypes
  <2>2. [inners[j].cache EXCEPT ![a.path] = n] \in [Name -> Inner \cup {None}]
    BY <1>2, <2>1 DEF Object
  <2> QED
    BY <2>1, <2>2 DEF Object
<1> DEFINE Cache(j) == inners[j] # None =>
                         \A c \in Name : \/ inners'[j].cache[c] = inners[j].cache[c]
                                         \/ inners'[j].cache[c] = n /\ c = a.path /\ j = a.parent
<1> HIDE DEF Cache
<1>7. \A j \in Inner \ {n} : inners'[j] \in Object \cup {None} /\ Same(j) /\ Cache(j)
  <2> TAKE j \in Inner \ {n}
  <2>1. CASE j = a.parent
    <3>1. inners[j] # None
      BY <1>3, <2>1, NoneAssumption, InnersAssumption DEF Has, Inner
    <3>2. inners[j] \in Object
      BY <1>1, <3>1, ObjectTypes
    <3>3. inners'[j] = [inners[j] EXCEPT !.cache[a.path] = n]
      BY <1>5, <2>1
    <3>4. inners'[j] \in Object /\ inners'[j] # None
      BY <1>6, <3>1, <3>3, NoneAssumption
    <3>5. Same(j)
      BY <3>1, <3>2, <3>3, <3>4 DEF Same, Object
    <3>6. inners'[j].cache = [inners[j].cache EXCEPT ![a.path] = n]
          /\ inners[j].cache \in [Name -> Inner \cup {None}]
      BY <3>2, <3>3 DEF Object
    <3>7. Cache(j)
      BY <2>1, <3>6 DEF Cache
    <3> QED
      BY <3>4, <3>5, <3>7
  <2>2. CASE j # a.parent
    <3>1. inners'[j] = inners[j]
      BY <1>5, <2>2
    <3> QED
      BY <1>1, <3>1 DEF TypeOK, Same, Cache
  <2> QED
    BY <2>1, <2>2
<1>8. inners' \in [Inner -> Object \cup {None}]
  BY <1>2, <1>5, <1>7 DEF Opened
<1>9. \A j \in Inner : inners[j] # None => inners'[j] # None /\ inners'[j].proc = inners[j].proc
  BY <1>2, <1>7 DEF Same
<1>10. \A j \in Inner, c \in Name :
         inners'[j] # None /\ inners'[j].cache[c] # None =>
           LET o == inners'[inners'[j].cache[c]]
           IN  o # None /\ o.proc = inners'[j].proc /\ o.path = c
  <2> SUFFICES ASSUME NEW j \in Inner, NEW c \in Name,
                      inners'[j] # None, inners'[j].cache[c] # None
               PROVE  LET o == inners'[inners'[j].cache[c]]
                      IN  o # None /\ o.proc = inners'[j].proc /\ o.path = c
    OBVIOUS
  <2>1. j # n
    BY <1>5 DEF NoCache
  <2>2. inners[j] # None /\ inners'[j].proc = inners[j].proc
    BY <1>7, <2>1 DEF Same
  <2>3. CASE inners'[j].cache[c] = n /\ c = a.path /\ j = a.parent
    <3>1. inners[j].proc = p
      BY <1>3, <2>3, NoneAssumption, InnersAssumption DEF Has, Inner
    <3> QED
      BY <1>4, <1>5, <2>2, <2>3, <3>1
  <2>4. CASE inners'[j].cache[c] = inners[j].cache[c]
    <3>1. inners[j].cache[c] \in Inner
      BY <1>1, <2>2, <2>4, ObjectTypes
    <3>2. LET o == inners[inners[j].cache[c]]
          IN  o # None /\ o.proc = inners[j].proc /\ o.path = c
      BY <1>1, <2>2, <2>4 DEF TypeOK
    <3>3. inners[j].cache[c] # n
      BY <1>2, <3>2
    <3> QED
      BY <1>7, <2>2, <2>4, <3>1, <3>2, <3>3 DEF Same
  <2> QED
    BY <1>7, <2>1, <2>2, <2>3, <2>4 DEF Cache
<1>11. \A q \in Process : cursor[q] # None =>
         /\ cursor[q].inner \in Inner \ {n} /\ inners[cursor[q].inner] # None
         /\ inners[cursor[q].inner].proc = q
  BY <1>1, <1>2, CursorTypes DEF Has
<1>12. CallsSound'
  <2>1. CallSound(p)'
    <3>1. at'[p] = Idle
      BY <1>1 DEF TypeOK
    <3> QED
      BY <3>1, IdleSound
  <2>2. ASSUME NEW q \in Process, q # p
        PROVE  CallSound(q)'
    <3>1. at'[q] = at[q]
      BY <1>1, <2>2 DEF TypeOK
    <3>2. \A j \in Inner : Has(q, j) => /\ Has(q, j)'
                                       /\ inners'[j].live = inners[j].live
                                       /\ inners'[j].gen = inners[j].gen
      BY <1>2, <1>7 DEF Has, Same
    <3> QED
      BY <3>1, <3>2, CallKept
  <2> QED
    BY <2>1, <2>2 DEF CallsSound
<1>13. RoomLeft'
  <2>1. Openers' = Openers \ {p}
    BY <1>1, OthersUnchanged DEF Call
  <2>2. Free' = Free \ {n}
    BY <1>2, <1>4, <1>5, <1>7 DEF Free, Same
  <2>3. n \in Free
    BY <1>2 DEF Free
  <2>4. Cardinality(Openers') = Cardinality(Openers) - 1
    BY <1>1, <2>1, PartsCounted, FS_RemoveElement
  <2>5. Cardinality(Free') = Cardinality(Free) - 1
    BY <2>2, <2>3, PartsCounted, FS_RemoveElement
  <2> QED
    BY <1>1, <2>4, <2>5, PartsCounted DEF RoomLeft
<1>14. CursorsSound'
  BY <1>7, <1>11 DEF CursorsSound, IInv, Present, Same
<1>15. \A q \in Process : cursor'[q] # None =>
         inners'[cursor'[q].inner] # None /\ inners'[cursor'[q].inner].proc = q
  BY <1>9, <1>11
<1>16. \E m \in Inner : /\ inners[m] = None /\ inners'[m] = object
                        /\ \A j \in Inner \ {m} : Same(j)
  BY <1>2, <1>5, <1>7
<1> QED
  BY <1>8, <1>10, <1>12, <1>13, <1>14, <1>15, <1>16 DEF Placed

\* An open or a create ends, or goes on with the lock it has got, or waits for none:
\* what is at the paths, and in the objects, stays.
LEMMA LockStep ==
  ASSUME IInv, NEW p \in Process, at[p].op \in Opener, NEW op \in {"read", "fill"},
         \/ Ends(p)
         \/ GoesOn(p, op) /\ at[p].op = (IF op = "read" THEN "open" ELSE "lock"),
         marred' \in {marred, marred \cup {at[p].path}},
         UNCHANGED <<files, inners, cursor, allowed>>
  PROVE  /\ TypeOK' /\ CallsSound' /\ RoomLeft' /\ InodesSound' /\ OneOwner' /\ OwnersHold'
         /\ RemovalsComplete' /\ CursorsSound'
         /\ marred \subseteq marred'
         /\ \A q \in Process \ {p} : at'[q] = at[q]
         /\ \/ at'[p] = Idle
            \/ /\ GoesOn(p, op) /\ at'[p].op = op
               /\ at'[p].path = at[p].path /\ at'[p].gen = at[p].gen
<1>1. TypeOK /\ Idle \in Call /\ files \in [Path -> File]
  BY DEF IInv, Call, TypeOK
<1>2. /\ at[p].path \in Path /\ at[p].gen \in Nat
      /\ marred \subseteq marred' /\ marred' \subseteq Path
  BY <1>1, CallTypes DEF TypeOK
<1> DEFINE next == [at[p] EXCEPT !.op = op]
<1>3. GoesOn(p, op) => /\ next \in Call /\ next.op = op /\ next.path = at[p].path
                       /\ next.gen = at[p].gen /\ next.omen = at[p].omen
                       /\ next.parent = at[p].parent
  <2>1. at[p] \in [op : Opener, path : Path, gen : Nat,
                   omen : Contents \cup {None, Torn}, parent : Inner \cup {None}]
    <3>1. at[p] \in Call
      BY <1>1 DEF TypeOK
    <3> QED
      BY <3>1 DEF Call, Idle, Opener, Publisher
  <2>2. op \in Opener
    BY DEF Opener
  <2> QED
    BY <2>1, <2>2 DEF Call
<1>4. at' = [at EXCEPT ![p] = Idle] \/ (GoesOn(p, op) /\ at' = [at EXCEPT ![p] = next])
  BY DEF Ends, GoesOn
<1> HIDE DEF next
<1>5. /\ at' \in [Process -> Call]
      /\ \A q \in Process \ {p} : at'[q] = at[q]
      /\ \/ at'[p] = Idle
         \/ GoesOn(p, op) /\ at'[p] = next
  <2>1. at \in [Process -> Call]
    BY <1>1 DEF TypeOK
  <2> QED
    BY <1>1, <1>3, <1>4, <2>1
<1>6. TypeOK'
  <2>1. UNCHANGED <<files, inners, cursor, allowed>>
    OBVIOUS
  <2> QED
    BY <1>1, <1>2, <1>5, <2>1 DEF TypeOK
<1>7. CallsSound'
  <2>1. CallSound(p)'
    <3>1. CASE at'[p] = Idle
      BY <3>1, IdleSound
    <3>2. CASE GoesOn(p, op) /\ at'[p] = next
      <4>1. at[p].parent # None => Has(p, at[p].parent)
        BY DEF CallsSound, CallSound, IInv
      <4> QED
        BY <1>3, <3>2, <4>1 DEF CallSound, Opener, Publisher, Has
    <3> QED
      BY <1>5, <3>1, <3>2
  <2>2. ASSUME NEW q \in Process, q # p
        PROVE  CallSound(q)'
    BY <1>5, <2>2, CallKept DEF Has
  <2> QED
    BY <2>1, <2>2 DEF CallsSound
<1>8. RoomLeft'
  <2>1. Openers' \subseteq Openers /\ Free' = Free
    BY <1>5 DEF Openers, Free
  <2> QED
    BY <2>1, RoomKept DEF IInv
<1>9. InodesSound'
  <2>1. InodeSound(p)'
    <3>1. CASE at'[p] = Idle
      BY <3>1, IdleSound
    <3>2. CASE GoesOn(p, op) /\ at'[p] = next
      <4>1. at[p].op \in Opener \ {"create"} /\ InodeSound(p)
            /\ (op = "read" => at[p].op \in {"open", "read"})
        <5>1. (op = "read" /\ at[p].op = "open") \/ (op = "fill" /\ at[p].op = "lock")
              \/ at' = [at EXCEPT ![p] = Idle]
          BY DEF Ends
        <5>2. next # Idle
          BY <1>3, <3>2 DEF Idle
        <5>3. at' = [at EXCEPT ![p] = Idle] => at'[p] = Idle
          BY <1>1 DEF TypeOK
        <5>4. InodeSound(p)
          BY DEF IInv, InodesSound
        <5> QED
          BY <3>2, <5>1, <5>2, <5>3, <5>4
      <4> QED
        BY <1>3, <3>2, <4>1 DEF InodeSound
    <3> QED
      BY <1>5, <3>1, <3>2
  <2>2. ASSUME NEW q \in Process, q # p
        PROVE  InodeSound(q)'
    <3>1. \A y \in Path : files'[y] = files[y] /\ files[y].gen \in Nat
      BY <1>1 DEF File
    <3> QED
      BY <1>5, <2>2, <3>1, InodeKept
  <2> QED
    BY <2>1, <2>2 DEF InodesSound, IInv
<1>10. OneOwner'
  BY <1>2 DEF OneOwner, IInv
<1>11. /\ \A j \in Inner : Publishing(j) <=> Publishing(j)'
       /\ \A y \in Path : Unlinking(y) <=> Unlinking(y)'
  <2>1. \A q \in Process : \/ at'[q] = at[q]
                           \/ /\ at[q].op \notin {"publish", "relock", "unlink"}
                              /\ at'[q].op \notin {"publish", "relock", "unlink"}
    BY <1>3, <1>5 DEF Idle, Opener
  <2> QED
    BY <2>1 DEF Publishing, Unlinking
<1>12. OwnersHold'
  BY <1>2, <1>11 DEF OwnersHold, IInv, Live, Linked
<1>13. RemovalsComplete'
  BY <1>2, <1>11 DEF RemovalsComplete, IInv
<1>14. CursorsSound'
  BY DEF CursorsSound, IInv, Present
<1> QED
  BY <1>2, <1>3, <1>5, <1>6, <1>7, <1>8, <1>9, <1>10, <1>12, <1>13, <1>14

LEMMA LockOpenedInv ==
  ASSUME IInv, NEW p \in Process, LockOpened(p)
  PROVE  IInv'
<1>1. /\ at[p].op = "open"
      /\ UNCHANGED <<files, inners, cursor, allowed>>
      /\ \/ Ends(p) /\ marred' = marred
         \/ /\ GoesOn(p, "read") /\ ~Locked(at[p].path, at[p].gen)
            /\ marred' = IF Unsettled(at[p].path) THEN marred \cup {at[p].path} ELSE marred
  BY DEF LockOpened
<1> PICK x \in Path : x = at[p].path
  BY <1>1, CallTypes DEF IInv, Opener
<1> PICK op \in {"read", "fill"} : op = "read"
  OBVIOUS
<1>2. at[p].op \in Opener /\ (Ends(p) \/ (GoesOn(p, op) /\ at[p].op = "open"))
      /\ marred' \in {marred, marred \cup {at[p].path}}
  BY <1>1 DEF Opener
<1>3. /\ TypeOK' /\ CallsSound' /\ RoomLeft' /\ InodesSound' /\ OneOwner' /\ OwnersHold'
      /\ RemovalsComplete' /\ CursorsSound'
      /\ marred \subseteq marred'
      /\ \A q \in Process \ {p} : at'[q] = at[q]
      /\ \/ at'[p] = Idle
         \/ /\ GoesOn(p, op) /\ at'[p].op = op
            /\ at'[p].path = at[p].path /\ at'[p].gen = at[p].gen
  BY <1>1, <1>2, LockStep
<1>4. at'[p] = Idle
      \/ /\ at'[p].op = "read" /\ at'[p].path = x /\ at'[p].gen = at[p].gen
         /\ ~Locked(x, at[p].gen)
         /\ x \notin marred' => ~Unsettled(x) /\ x \notin marred
  <2>1. CASE Ends(p)
    BY <2>1 DEF Ends, IInv, TypeOK
  <2>2. CASE ~Ends(p)
    BY <1>1, <1>3, <2>2 DEF Ends
  <2> QED
    BY <2>1, <2>2
<1>5. at[p].gen \in Nat /\ at[p].gen # 0 /\ InodeSound(p)
  BY <1>1, CallTypes DEF IInv, InodesSound, InodeSound, Opener
<1>6. HoldersApart'
  <2> SUFFICES ASSUME NEW q \in Process, NEW r \in Process, NEW y \in Path, NEW g \in Nat,
                      Holds(q, y, g)', Holds(r, y, g)', q # r
               PROVE  FALSE
    BY DEF HoldersApart
  <2>1. CASE q # p /\ r # p
    <3>1. Holds(q, y, g) /\ Holds(r, y, g)
      BY <1>3, <2>1 DEF Holds
    <3> QED
      BY <3>1 DEF HoldersApart, Apart, IInv
  <2>2. CASE q = p
    <3>1. y = x /\ g = at[p].gen /\ Holds(r, y, g) /\ ~Locked(x, at[p].gen)
      BY <1>3, <1>4, <2>2 DEF Holds, Idle
    <3> QED
      BY <3>1 DEF Locked
  <2>3. CASE r = p
    <3>1. y = x /\ g = at[p].gen /\ Holds(q, y, g) /\ ~Locked(x, at[p].gen)
      BY <1>3, <1>4, <2>3 DEF Holds, Idle
    <3> QED
      BY <3>1 DEF Locked
  <2> QED
    BY <2>1, <2>2, <2>3
<1>7. HoldersAlone'
  <2> SUFFICES ASSUME NEW q \in Process, NEW y \in Path \ marred', Holds(q, y, files[y].gen)',
                      NEW j \in Inner, Live(j), inners[j].path = y
               PROVE  FALSE
    BY <1>1 DEF HoldersAlone, Live
  <2>1. CASE q # p
    <3>1. Holds(q, y, files[y].gen) /\ y \in Path \ marred
      BY <1>1, <1>3, <2>1 DEF Holds
    <3> QED
      BY <3>1 DEF HoldersAlone, Apart, IInv
  <2>2. CASE q = p
    <3>1. /\ y = x /\ at[p].gen = files[x].gen /\ ~Locked(x, at[p].gen)
          /\ ~Unsettled(x) /\ x \notin marred
      BY <1>1, <1>4, <2>2 DEF Holds, Idle
    <3>2. inners[j].gen = files[x].gen \/ Publishing(j)
      BY <3>1 DEF OwnersHold, IInv
    <3>3. ~Publishing(j)
      BY <3>1 DEF Publishing, Unsettled
    <3> QED
      BY <1>5, <3>1, <3>2, <3>3 DEF Locked, Live
  <2> QED
    BY <2>1, <2>2
<1>8. \A q \in Process, y \in Path : Creating(q, y)' <=> Creating(q, y)
  <2>1. \A q \in Process : at'[q] = at[q] \/ (/\ at[q].op \notin {"lock", "fill"}
                                              /\ at'[q].op \notin {"lock", "fill"})
    BY <1>1, <1>3, <1>4 DEF Idle
  <2> QED
    BY <1>1, <2>1 DEF Creating
<1>9. CreationsAlone'
  <2> SUFFICES ASSUME NEW q \in Process, NEW y \in Path \ marred', Creating(q, y)'
               PROVE  /\ files[y].omen = Torn /\ files[y].log = Blank
                      /\ allowed[y] = [id \in Id |-> {None}]
                      /\ \A r \in Process : Creating(r, y)' => r = q
    BY <1>1 DEF CreationsAlone, Blank
  <2> QED
    BY <1>3, <1>8 DEF CreationsAlone, Apart, IInv
<1>10. AcknowledgedSurvive'
  <2>1. ASSUME NEW y \in Path \ marred'
        PROVE  Acknowledged(y)'
    BY <1>1, <1>3, <1>8, AcknowledgedKept
  <2> QED
    BY <2>1 DEF AcknowledgedSurvive, Acknowledged
<1> QED
  BY <1>3, <1>6, <1>7, <1>9, <1>10 DEF IInv, Apart

\* The file is opened, and cut to nothing; nobody else can know it if it was not there.
LEMMA CreateFileInv ==
  ASSUME IInv, NEW p \in Process, CreateFile(p)
  PROVE  IInv'
<1>0. TypeOK /\ files \in [Path -> File] /\ at[p].op = "create" /\ at[p].op \in Opener
  BY DEF IInv, TypeOK, CreateFile, Opener
<1> PICK x \in Path : x = at[p].path
  BY <1>0, CallTypes
<1> PICK f \in File : f = files[x]
  BY <1>0
<1> PICK gen \in Nat : gen = IF f.omen = None THEN f.gen + 1 ELSE f.gen
  BY DEF File
<1> DEFINE next == [at[p] EXCEPT !.op = "lock", !.gen = gen]
           new  == [f EXCEPT !.omen = Torn, !.gen = gen]
<1>1. /\ files' = [files EXCEPT ![x] = new]
      /\ at' = [at EXCEPT ![p] = next]
      /\ marred' = IF f.omen = None /\ ~Unsettled(x) THEN marred ELSE marred \cup {x}
      /\ UNCHANGED <<inners, cursor, allowed>>
  BY DEF CreateFile
<1>2. /\ f.gen \in Nat /\ f.gen <= gen /\ gen # 0
      /\ f.omen = None => f.gen < gen
  BY DEF InodesSound, IInv, File
<1>3. Torn # None /\ Torn \notin Contents
  BY TornAssumption
<1>4. /\ next \in Call /\ next.op = "lock" /\ next.path = x /\ next.gen = gen
      /\ next.parent = at[p].parent
  <2>1. at[p] \in [op : Opener, path : Path, gen : Nat,
                   omen : Contents \cup {None, Torn}, parent : Inner \cup {None}]
    <3>1. at[p] \in Call
      BY <1>0 DEF TypeOK
    <3> QED
      BY <1>0, <3>1 DEF Call, Idle, Opener, Publisher
  <2>2. "lock" \in Opener
    BY DEF Opener
  <2> QED
    BY <2>1, <2>2 DEF Call
<1>5. new \in File /\ new.omen = Torn /\ new.gen = gen /\ new.era = f.era /\ new.log = f.log
  BY DEF File
<1> HIDE DEF next, new
<1>6. /\ at' \in [Process -> Call] /\ at'[p] = next
      /\ \A q \in Process \ {p} : at'[q] = at[q]
  BY <1>0, <1>1, <1>4, OthersUnchanged
<1>7. /\ files' \in [Path -> File] /\ files'[x] = new
      /\ \A y \in Path \ {x} : files'[y] = files[y]
  BY <1>0, <1>1, <1>5
<1>8. /\ marred' \subseteq Path /\ marred \subseteq marred'
      /\ x \notin marred' => f.omen = None /\ x \notin marred /\ ~Unlinking(x)
  BY <1>0, <1>1 DEF TypeOK, Unlinking, Unsettled
<1>9. x \notin marred' => /\ allowed[x] = [id \in Id |-> {None}]
                         /\ f.log = Blank
                         /\ \A j \in Inner : Live(j) => inners[j].path # x
  <2> SUFFICES ASSUME x \notin marred'
               PROVE  /\ allowed[x] = [id \in Id |-> {None}]
                      /\ f.log = Blank
                      /\ \A j \in Inner : Live(j) => inners[j].path # x
    OBVIOUS
  <2>1. f.omen = None /\ x \in Path \ marred /\ ~Unlinking(x)
    BY <1>8
  <2>2. allowed[x] = [id \in Id |-> {None}] /\ f.log = Blank
    BY <2>1 DEF RemovalsComplete, IInv
  <2>3. \A j \in Inner : Live(j) => inners[j].path # x
    BY <2>1 DEF OwnersHold, IInv
  <2> QED
    BY <2>2, <2>3
<1>10. TypeOK'
  <2>1. UNCHANGED <<inners, cursor, allowed>>
    BY <1>1
  <2> QED
    BY <1>0, <1>6, <1>7, <1>8, <2>1 DEF TypeOK
<1>11. CallsSound'
  <2>1. CallSound(p)'
    <3>1. at[p].parent # None => Has(p, at[p].parent)
      BY <1>0 DEF CallsSound, CallSound, IInv
    <3> QED
      BY <1>1, <1>4, <1>6, <3>1 DEF CallSound, Opener, Publisher, Has
  <2>2. ASSUME NEW q \in Process, q # p
        PROVE  CallSound(q)'
    BY <1>1, <1>6, <2>2, CallKept DEF Has
  <2> QED
    BY <2>1, <2>2 DEF CallsSound
<1>12. RoomLeft'
  <2>1. Openers' \subseteq Openers /\ Free' = Free
    BY <1>0, <1>1, <1>6 DEF Openers, Free
  <2> QED
    BY <2>1, RoomKept DEF IInv
<1>13. InodesSound'
  <2>1. InodeSound(p)'
    BY <1>2, <1>3, <1>4, <1>5, <1>6, <1>7 DEF InodeSound
  <2>2. \A y \in Path : /\ files'[y].gen \in Nat /\ files[y].gen <= files'[y].gen
                        /\ files'[y].gen = files[y].gen /\ files[y].omen # None =>
                             files'[y].omen # None
    <3> TAKE y \in Path
    <3>1. CASE y = x
      BY <1>2, <1>3, <1>5, <1>7, <3>1
    <3>2. CASE y # x
      BY <1>0, <1>7, <3>2 DEF File
    <3> QED
      BY <3>1, <3>2
  <2>3. ASSUME NEW q \in Process, q # p
        PROVE  InodeSound(q)'
    BY <1>6, <2>2, <2>3, InodeKept
  <2>4. \A y \in Path : files'[y].omen # None => files'[y].gen # 0
    BY <1>2, <1>5, <1>7 DEF InodesSound, IInv
  <2> QED
    BY <1>1, <2>1, <2>3, <2>4 DEF InodesSound, IInv
<1>14. OneOwner'
  BY <1>1, <1>8 DEF OneOwner, IInv
<1>15. /\ \A j \in Inner : Publishing(j) <=> Publishing(j)'
       /\ \A y \in Path : Unlinking(y) <=> Unlinking(y)'
  BY <1>0, <1>1, <1>4, <1>6 DEF Publishing, Unlinking
<1>16. OwnersHold'
  <2> SUFFICES ASSUME NEW j \in Inner, Live(j), inners[j].path \notin marred'
               PROVE  /\ files'[inners[j].path].omen \notin {None, Torn}
                      /\ inners[j].gen = files'[inners[j].path].gen \/ Publishing(j)'
                      /\ inners[j].era = files'[inners[j].path].era
                      /\ \A id \in Id : inners[j].data[id] \in allowed[inners[j].path][id]
    BY <1>1 DEF OwnersHold, Linked, Live
  <2>1. inners[j].path \in Path \ {x} /\ inners[j].path \notin marred
    BY <1>0, <1>8, <1>9, ObjectTypes DEF Live
  <2> QED
    BY <1>7, <1>15, <2>1 DEF OwnersHold, IInv, Linked
<1>17. HoldersApart'
  <2>1. \A q \in Process, y \in Path, g \in Nat : Holds(q, y, g)' => Holds(q, y, g)
    BY <1>4, <1>6 DEF Holds
  <2> QED
    BY <2>1 DEF HoldersApart, Apart, IInv
<1>18. HoldersAlone'
  <2> SUFFICES ASSUME NEW q \in Process, NEW y \in Path \ marred', Holds(q, y, files[y].gen)',
                      NEW j \in Inner, Live(j), inners[j].path = y
               PROVE  FALSE
    BY <1>1 DEF HoldersAlone, Live
  <2>1. y # x
    BY <1>9
  <2>2. Holds(q, y, files[y].gen) /\ y \in Path \ marred
    BY <1>4, <1>6, <1>7, <1>8, <2>1 DEF Holds
  <2> QED
    BY <2>2 DEF HoldersAlone, Apart, IInv
<1>19. CreationsAlone'
  <2> SUFFICES ASSUME NEW q \in Process, NEW y \in Path \ marred', Creating(q, y)'
               PROVE  /\ files'[y].omen = Torn /\ files'[y].log = Blank
                      /\ allowed[y] = [id \in Id |-> {None}]
                      /\ \A r \in Process : Creating(r, y)' => r = q
    BY <1>1 DEF CreationsAlone, Blank
  <2>1. CASE y = x
    <3>1. ASSUME NEW r \in Process, Creating(r, y)', r # p
          PROVE  FALSE
      <4>1. at[r].op \in {"lock", "fill"} /\ at[r].path = x /\ at[r].gen = gen
        BY <1>5, <1>6, <1>7, <2>1, <3>1 DEF Creating
      <4>2. at[r].gen <= f.gen
        BY <4>1 DEF InodesSound, InodeSound, IInv, Opener
      <4> QED
        BY <1>2, <1>8, <2>1, <4>1, <4>2
    <3> QED
      BY <1>5, <1>7, <1>9, <2>1, <3>1
  <2>2. CASE y # x
    <3>1. \A r \in Process : Creating(r, y)' => Creating(r, y)
      BY <1>4, <1>6, <1>7, <2>2 DEF Creating
    <3>2. files'[y] = files[y] /\ y \in Path \ marred
      BY <1>7, <1>8, <2>2
    <3> QED
      BY <3>1, <3>2 DEF CreationsAlone, Apart, IInv
  <2> QED
    BY <2>1, <2>2
<1>20. RemovalsComplete'
  <2> SUFFICES ASSUME NEW y \in Path \ marred'
               PROVE  /\ Unlinking(y)' => files'[y].omen = None
                      /\ files'[y].omen = None =>
                           /\ allowed[y] = [id \in Id |-> {None}]
                           /\ files'[y].log = Blank \/ Unlinking(y)'
    BY <1>1 DEF RemovalsComplete
  <2>1. CASE y = x
    BY <1>3, <1>5, <1>7, <1>8, <1>15, <2>1
  <2>2. CASE y # x
    <3>1. files'[y] = files[y] /\ y \notin marred /\ (Unlinking(y) <=> Unlinking(y)')
      BY <1>7, <1>8, <1>15, <2>2
    <3> QED
      BY <3>1 DEF RemovalsComplete, IInv
  <2> QED
    BY <2>1, <2>2
<1>21. AcknowledgedSurvive'
  <2>1. ASSUME NEW y \in Path \ marred'
        PROVE  Acknowledged(y)'
    <3>1. CASE y = x
      <4>1. Creating(p, y)'
        BY <1>4, <1>5, <1>6, <1>7, <3>1 DEF Creating
      <4> QED
        BY <4>1 DEF Acknowledged
    <3>2. CASE y # x
      <4>1. \A q \in Process : Creating(q, y) => Creating(q, y)'
        BY <1>0, <1>6, <1>7, <3>2 DEF Creating
      <4>2. y \in Path \ marred /\ files'[y] = files[y] /\ allowed'[y] = allowed[y]
        BY <1>1, <1>7, <1>8, <3>2
      <4> QED
        BY <4>1, <4>2, AcknowledgedKept
    <3> QED
      BY <3>1, <3>2
  <2> QED
    BY <2>1 DEF AcknowledgedSurvive, Acknowledged
<1>22. CursorsSound'
  BY <1>1 DEF CursorsSound, IInv, Present
<1> QED
  BY <1>10, <1>11, <1>12, <1>13, <1>14, <1>16, <1>17, <1>18, <1>19, <1>20, <1>21, <1>22
  DEF IInv, Apart

\* The lock of the file that is created: nobody has it open but one who came in between.
LEMMA LockCreatedInv ==
  ASSUME IInv, NEW p \in Process, LockCreated(p)
  PROVE  IInv'
<1>1. /\ at[p].op = "lock"
      /\ UNCHANGED <<files, inners, cursor, allowed>>
      /\ \/ Ends(p) /\ marred' = marred \cup {at[p].path}
         \/ GoesOn(p, "fill") /\ ~Locked(at[p].path, at[p].gen) /\ marred' = marred
  BY DEF LockCreated
<1> PICK x \in Path : x = at[p].path
  BY <1>1, CallTypes DEF IInv, Opener
<1> PICK op \in {"read", "fill"} : op = "fill"
  OBVIOUS
<1>2. at[p].op \in Opener /\ (Ends(p) \/ (GoesOn(p, op) /\ at[p].op = "lock"))
      /\ marred' \in {marred, marred \cup {at[p].path}}
  BY <1>1 DEF Opener
<1>3. /\ TypeOK' /\ CallsSound' /\ RoomLeft' /\ InodesSound' /\ OneOwner' /\ OwnersHold'
      /\ RemovalsComplete' /\ CursorsSound'
      /\ marred \subseteq marred'
      /\ \A q \in Process \ {p} : at'[q] = at[q]
      /\ \/ at'[p] = Idle
         \/ /\ GoesOn(p, op) /\ at'[p].op = op
            /\ at'[p].path = at[p].path /\ at'[p].gen = at[p].gen
  BY <1>1, <1>2, LockStep
<1>4. \/ at'[p] = Idle /\ x \in marred'
      \/ /\ at'[p].op = "fill" /\ at'[p].path = x /\ at'[p].gen = at[p].gen
         /\ ~Locked(x, at[p].gen)
  <2>1. CASE Ends(p) /\ marred' = marred \cup {at[p].path}
    BY <2>1 DEF Ends, IInv, TypeOK
  <2>2. CASE GoesOn(p, "fill") /\ ~Locked(at[p].path, at[p].gen)
    <3>1. at'[p] # Idle
      BY <2>2 DEF GoesOn, Idle, IInv, TypeOK
    <3> QED
      BY <1>3, <2>2, <3>1
  <2> QED
    BY <1>1, <2>1, <2>2
<1>5. at[p].gen \in Nat /\ at[p].gen # 0
  BY <1>1, CallTypes DEF IInv, InodesSound, InodeSound, Opener
<1>6. HoldersApart'
  <2> SUFFICES ASSUME NEW q \in Process, NEW r \in Process, NEW y \in Path, NEW g \in Nat,
                      Holds(q, y, g)', Holds(r, y, g)', q # r
               PROVE  FALSE
    BY DEF HoldersApart
  <2>1. CASE q # p /\ r # p
    <3>1. Holds(q, y, g) /\ Holds(r, y, g)
      BY <1>3, <2>1 DEF Holds
    <3> QED
      BY <3>1 DEF HoldersApart, Apart, IInv
  <2>2. CASE q = p
    <3>1. y = x /\ g = at[p].gen /\ Holds(r, y, g) /\ ~Locked(x, at[p].gen)
      BY <1>3, <1>4, <2>2 DEF Holds, Idle
    <3> QED
      BY <3>1 DEF Locked
  <2>3. CASE r = p
    <3>1. y = x /\ g = at[p].gen /\ Holds(q, y, g) /\ ~Locked(x, at[p].gen)
      BY <1>3, <1>4, <2>3 DEF Holds, Idle
    <3> QED
      BY <3>1 DEF Locked
  <2> QED
    BY <2>1, <2>2, <2>3
<1>7. HoldersAlone'
  <2> SUFFICES ASSUME NEW q \in Process, NEW y \in Path \ marred', Holds(q, y, files[y].gen)',
                      NEW j \in Inner, Live(j), inners[j].path = y
               PROVE  FALSE
    BY <1>1 DEF HoldersAlone, Live
  <2>1. CASE q # p
    <3>1. Holds(q, y, files[y].gen) /\ y \in Path \ marred
      BY <1>1, <1>3, <2>1 DEF Holds
    <3> QED
      BY <3>1 DEF HoldersAlone, Apart, IInv
  <2>2. CASE q = p
    <3>1. y = x /\ at[p].gen = files[x].gen /\ x \in Path \ marred
      BY <1>1, <1>3, <1>4, <2>2 DEF Holds, Idle
    <3>2. Creating(p, x)
      BY <1>1, <3>1 DEF Creating
    <3>3. files[x].omen = Torn
      BY <3>1, <3>2 DEF CreationsAlone, Apart, IInv
    <3> QED
      BY <3>1, <3>3 DEF OwnersHold, IInv
  <2> QED
    BY <2>1, <2>2
<1>8. \A q \in Process, y \in Path : Creating(q, y)' => Creating(q, y)
  <2>1. \A q \in Process :
          \/ at'[q] = at[q]
          \/ at'[q].op \notin {"lock", "fill"}
          \/ at[q].op = "lock" /\ at'[q].path = at[q].path /\ at'[q].gen = at[q].gen
    <3> TAKE q \in Process
    <3>1. CASE q # p
      BY <1>3, <3>1
    <3>2. CASE q = p
      <4>1. at'[p] = Idle => at'[p].op = "idle"
        BY DEF Idle
      <4>2. at'[p].op = "idle" \/ (at'[p].path = at[p].path /\ at'[p].gen = at[p].gen)
        BY <1>3, <4>1
      <4> QED
        BY <1>1, <3>2, <4>2
    <3> QED
      BY <3>1, <3>2
  <2> QED
    BY <1>1, <2>1 DEF Creating
<1>9. CreationsAlone'
  <2> SUFFICES ASSUME NEW q \in Process, NEW y \in Path \ marred', Creating(q, y)'
               PROVE  /\ files[y].omen = Torn /\ files[y].log = Blank
                      /\ allowed[y] = [id \in Id |-> {None}]
                      /\ \A r \in Process : Creating(r, y)' => r = q
    BY <1>1 DEF CreationsAlone, Blank
  <2> QED
    BY <1>3, <1>8 DEF CreationsAlone, Apart, IInv
<1>10. AcknowledgedSurvive'
  <2>1. ASSUME NEW y \in Path \ marred'
        PROVE  Acknowledged(y)'
    <3>1. \A q \in Process : Creating(q, y) => Creating(q, y)'
      <4> SUFFICES ASSUME NEW q \in Process, Creating(q, y) PROVE Creating(q, y)'
        OBVIOUS
      <4>1. CASE q # p
        BY <1>1, <1>3, <4>1 DEF Creating
      <4>2. CASE q = p
        BY <1>1, <1>3, <1>4, <4>2 DEF Creating
      <4> QED
        BY <4>1, <4>2
    <3> QED
      BY <1>1, <1>3, <3>1, AcknowledgedKept
  <2> QED
    BY <2>1 DEF AcknowledgedSurvive, Acknowledged
<1> QED
  BY <1>3, <1>6, <1>7, <1>9, <1>10 DEF IInv, Apart

\* An object is made of a file, and the call that made it ends.  If the path is not
\* marred, it is the file at the path, nobody else is about to open it, and the object
\* holds what an open may find.
LEMMA MadeInv ==
  ASSUME IInv, NEW p \in Process, at[p].op \in {"read", "fill"}, Ends(p),
         NEW object \in Object, object.proc = p, object.path = at[p].path, object.live,
         object.cache = NoCache, inners' = Opened(object, at[p].parent, at[p].path),
         object.gen = at[p].gen, object.era = files[at[p].path].era,
         marred' \in {marred, marred \cup {at[p].path}},
         files' \in [Path -> File],
         \A y \in Path : files'[y].gen = files[y].gen /\ files'[y].log = files[y].log
                         /\ files'[y].era = files[y].era,
         \A y \in Path : files'[y].omen = files[y].omen
                         \/ /\ y = at[p].path /\ files'[y].omen = Blank
                            /\ Creating(p, y) /\ object.data = Blank,
         at[p].path \notin marred' =>
           /\ at[p].gen = files[at[p].path].gen
           /\ files'[at[p].path].omen \notin {None, Torn}
           /\ \A id \in Id : object.data[id] \in allowed[at[p].path][id],
         UNCHANGED <<cursor, allowed>>
  PROVE  IInv'
<1>1. TypeOK /\ Idle \in Call /\ at[p].op \in Opener /\ at[p].op \in Opener \ {"create"}
  BY DEF IInv, Call, Opener
<1> PICK x \in Path : x = at[p].path
  BY <1>1, CallTypes
<1> PICK f \in File : f = files[x]
  BY <1>1 DEF TypeOK
<1>2. at' = [at EXCEPT ![p] = Idle]
  BY DEF Ends
<1>3. /\ at' \in [Process -> Call] /\ at'[p] = Idle
      /\ \A q \in Process \ {p} : at'[q] = at[q]
      /\ \A y \in Path : Unlinking(y)' => Unlinking(y)
  BY <1>1, <1>2, OthersUnchanged
<1>4. marred' \subseteq Path /\ marred \subseteq marred'
  BY <1>1 DEF TypeOK
<1>5. Placed(object)
  <2>1. cursor' = cursor
    OBVIOUS
  <2> QED
    BY <1>1, <1>2, <2>1, PlacedInv
<1>6. TypeOK'
  <2>1. cursor' \in [Process -> Cursor \cup {None}]
        /\ allowed' \in [Path -> [Id -> SUBSET (Val \cup {None})]]
    <3>1. UNCHANGED <<cursor, allowed>>
      OBVIOUS
    <3> QED
      BY <1>1, <3>1 DEF TypeOK
  <2>2. files' \in [Path -> File]
    OBVIOUS
  <2> QED
    BY <1>3, <1>4, <1>5, <2>1, <2>2 DEF Placed, TypeOK
<1> PICK n \in Inner : /\ inners[n] = None /\ inners'[n] = object
                       /\ \A j \in Inner \ {n} : Same(j)
  BY <1>5 DEF Placed
<1>7. object # None
  BY NoneAssumption
<1>8. Blank # None /\ Blank # Torn /\ Torn # None
  <2>1. Blank \in Contents
    BY DEF Blank, Contents
  <2> QED
    BY <2>1, NoneAssumption, TornAssumption
<1>9. x \notin marred' => /\ x \in Path \ marred /\ Holds(p, x, files[x].gen)
                         /\ \A j \in Inner : Live(j) => inners[j].path # x
  <2> SUFFICES ASSUME x \notin marred'
               PROVE  /\ x \in Path \ marred /\ Holds(p, x, files[x].gen)
                      /\ \A j \in Inner : Live(j) => inners[j].path # x
    OBVIOUS
  <2>1. x \in Path \ marred /\ Holds(p, x, files[x].gen)
    BY <1>4 DEF Holds
  <2> QED
    BY <2>1 DEF HoldersAlone, Apart, IInv
<1>10. /\ \A j \in Inner : Publishing(j) => Publishing(j)'
       /\ \A y \in Path : Unlinking(y) <=> Unlinking(y)'
  BY <1>3 DEF Publishing, Unlinking, Idle
<1>11. InodesSound'
  <2>1. \A y \in Path : files'[y].omen # None => files'[y].gen # 0
    <3> SUFFICES ASSUME NEW y \in Path, files'[y].omen # None
                 PROVE  files[y].gen # 0
      OBVIOUS
    <3>1. CASE files'[y].omen = files[y].omen
      BY <3>1 DEF InodesSound, IInv
    <3>2. CASE Creating(p, y)
      BY <1>1, <3>2 DEF Creating, InodesSound, InodeSound, IInv
    <3> QED
      BY <3>1, <3>2
  <2>2. \A y \in Path : /\ files'[y].gen \in Nat /\ files[y].gen <= files'[y].gen
                        /\ files'[y].gen = files[y].gen /\ files[y].omen # None =>
                             files'[y].omen # None
    BY <1>8 DEF File
  <2>3. \A q \in Process : InodeSound(q)'
    <3> TAKE q \in Process
    <3>1. CASE q # p
      BY <1>3, <2>2, <3>1, InodeKept
    <3>2. CASE q = p
      BY <1>3, <3>2, IdleSound
    <3> QED
      BY <3>1, <3>2
  <2>4. \A j \in Inner : inners'[j] # None /\ ~inners'[j].live => inners'[j].gen = 0
    BY DEF InodesSound, IInv, Same
  <2> QED
    BY <2>1, <2>3, <2>4 DEF InodesSound
<1>12. OneOwner'
  <2> SUFFICES ASSUME NEW i \in Inner, NEW j \in Inner, i # j,
                      inners'[i] # None, inners'[i].live,
                      inners'[j] # None, inners'[j].live,
                      inners'[i].path = inners'[j].path, inners'[i].path \notin marred'
               PROVE  FALSE
    BY DEF OneOwner
  <2>1. CASE i = n
    BY <1>9, <2>1 DEF Same, Live
  <2>2. CASE j = n
    BY <1>9, <2>2 DEF Same, Live
  <2>3. CASE i # n /\ j # n
    BY <1>4, <2>3 DEF Same, OneOwner, IInv
  <2> QED
    BY <2>1, <2>2, <2>3
<1>13. OwnersHold'
  <2> SUFFICES ASSUME NEW j \in Inner, Live(j)', inners'[j].path \notin marred'
               PROVE  /\ files'[inners'[j].path].omen \notin {None, Torn}
                      /\ \/ inners'[j].gen = files'[inners'[j].path].gen
                         \/ Publishing(j)'
                      /\ inners'[j].era = files'[inners'[j].path].era
                      /\ \A id \in Id : inners'[j].data[id] \in allowed[inners'[j].path][id]
    BY DEF OwnersHold, Linked
  <2>1. CASE j = n
    BY <2>1
  <2>2. CASE j # n
    <3>1. Live(j) /\ inners[j].path \notin marred /\ Same(j)
      BY <1>4, <2>2 DEF Same, Live
    <3>2. /\ files[inners[j].path].omen \notin {None, Torn}
          /\ inners[j].gen = files[inners[j].path].gen \/ Publishing(j)
          /\ inners[j].era = files[inners[j].path].era
          /\ \A id \in Id : inners[j].data[id] \in allowed[inners[j].path][id]
      BY <3>1 DEF OwnersHold, IInv, Linked
    <3>3. inners[j].path \in Path
      BY <1>1, <3>1, ObjectTypes DEF Live
    <3>4. /\ inners'[j].path = inners[j].path /\ inners'[j].gen = inners[j].gen
          /\ inners'[j].era = inners[j].era /\ inners'[j].data = inners[j].data
      BY <3>1 DEF Same, Live
    <3> QED
      BY <1>8, <1>10, <3>2, <3>3, <3>4
  <2> QED
    BY <2>1, <2>2
<1>14. \A q \in Process, y \in Path \ marred' : Creating(q, y)' =>
         Creating(q, y) /\ files'[y].omen = files[y].omen
  <2> SUFFICES ASSUME NEW q \in Process, NEW y \in Path \ marred', Creating(q, y)'
               PROVE  Creating(q, y) /\ files'[y].omen = files[y].omen
    OBVIOUS
  <2>1. q # p
    BY <1>3 DEF Creating, Idle
  <2>2. Creating(q, y)
    BY <1>3, <2>1 DEF Creating
  <2>3. ~Creating(p, y)
    BY <1>4, <2>1, <2>2 DEF CreationsAlone, Apart, IInv
  <2> QED
    BY <2>2, <2>3
<1>15. Apart'
  <2>1. \A q \in Process : at'[q].op \in {"read", "lock", "fill"} => at'[q] = at[q]
    BY <1>3 DEF Idle
  <2>2. ASSUME NEW y \in Path \ marred', NEW q \in Process, Holds(q, y, files[y].gen)',
               NEW j \in Inner, Live(j)', inners'[j].path = y
        PROVE  Live(j) /\ inners[j].path = y
    <3>1. q # p
      BY <1>3, <2>2 DEF Holds, Idle
    <3>2. Holds(q, y, files[y].gen)
      BY <1>3, <2>2, <3>1 DEF Holds
    <3>3. CASE j = n
      <4>1. y = x /\ Holds(p, x, files[x].gen) /\ files[x].gen \in Nat
        BY <1>9, <2>2, <3>3 DEF File
      <4>2. q = p
        BY <3>2, <4>1 DEF HoldersApart, Apart, IInv
      <4> QED
        BY <3>1, <4>2
    <3>4. CASE j # n
      BY <2>2, <3>4 DEF Same, Live
    <3> QED
      BY <3>3, <3>4
  <2>3. \A y \in Path \ marred' :
          /\ (\E q \in Process : Holds(q, y, files[y].gen)') =>
               \A j \in Inner : Live(j)' /\ inners'[j].path = y => Live(j) /\ inners[j].path = y
          /\ (\E q \in Process : Creating(q, y)') =>
               /\ files'[y].omen = files[y].omen /\ files'[y].log = files[y].log
               /\ allowed'[y] = allowed[y]
    BY <1>14, <2>2
  <2> QED
    BY <1>4, <2>1, <2>3, ApartKept
<1>16. RemovalsComplete'
  <2> SUFFICES ASSUME NEW y \in Path \ marred'
               PROVE  /\ Unlinking(y)' => files'[y].omen = None
                      /\ files'[y].omen = None =>
                           /\ allowed[y] = [id \in Id |-> {None}]
                           /\ files'[y].log = Blank \/ Unlinking(y)'
    BY DEF RemovalsComplete
  <2>1. y \in Path \ marred /\ files'[y].log = files[y].log /\ (Unlinking(y) <=> Unlinking(y)')
    BY <1>4, <1>10
  <2>2. CASE files'[y].omen = files[y].omen
    BY <2>1, <2>2 DEF RemovalsComplete, IInv
  <2>3. CASE files'[y].omen = Blank /\ Creating(p, y)
    <3>1. files[y].omen # None
      BY <1>8, <2>1, <2>3 DEF CreationsAlone, Apart, IInv
    <3> QED
      BY <1>8, <2>1, <2>3, <3>1 DEF RemovalsComplete, IInv
  <2> QED
    BY <2>2, <2>3
<1>17. AcknowledgedSurvive'
  <2>1. ASSUME NEW y \in Path \ marred'
        PROVE  Acknowledged(y)'
    <3>1. y \in Path \ marred /\ files'[y].log = files[y].log /\ allowed'[y] = allowed[y]
      BY <1>4
    <3>2. CASE files'[y].omen = Blank /\ Creating(p, y)
      <4>1. files[y].log = Blank /\ allowed[y] = [id \in Id |-> {None}]
        BY <3>1, <3>2 DEF CreationsAlone, Apart, IInv
      <4>2. \A id \in Id : Loaded(Blank, Blank)[id] = None
        BY DEF Loaded, Blank
      <4>3. \A id \in Id : Loaded(files'[y].omen, files'[y].log)[id] \in allowed'[y][id]
        BY <3>1, <3>2, <4>1, <4>2
      <4> QED
        BY <1>8, <3>2, <4>3 DEF Acknowledged, Loaded
    <3>3. CASE files'[y].omen = files[y].omen /\ ~Creating(p, y)
      <4>1. \A q \in Process : Creating(q, y) => Creating(q, y)'
        <5> SUFFICES ASSUME NEW q \in Process, Creating(q, y) PROVE Creating(q, y)'
          OBVIOUS
        <5>1. q # p
          BY <3>3
        <5> QED
          BY <1>3, <5>1 DEF Creating
      <4> QED
        BY <3>1, <3>3, <4>1, AcknowledgedKept
    <3>4. ~(files'[y].omen = files[y].omen /\ Creating(p, y))
      <4> SUFFICES ASSUME files'[y].omen = files[y].omen, Creating(p, y)
                   PROVE  FALSE
        OBVIOUS
      <4>1. files[y].omen = Torn /\ y = x
        BY <3>1 DEF CreationsAlone, Apart, IInv, Creating
      <4> QED
        BY <4>1
    <3> QED
      BY <3>2, <3>3, <3>4
  <2> QED
    BY <2>1 DEF AcknowledgedSurvive, Acknowledged
<1> QED
  BY <1>5, <1>6, <1>11, <1>12, <1>13, <1>15, <1>16, <1>17 DEF Placed, IInv

\* An open reads the file it locked, or finds no footer.
LEMMA ReadOpenedInv ==
  ASSUME IInv, NEW p \in Process, ReadOpened(p)
  PROVE  IInv'
<1>1. /\ at[p].op = "read" /\ Ends(p)
      /\ UNCHANGED <<files, cursor, allowed>>
  BY DEF ReadOpened
<1>2. TypeOK /\ at[p].op \in Opener /\ at[p].op \in Opener \ {"create"}
  BY <1>1 DEF IInv, Opener
<1> PICK x \in Path : x = at[p].path
  BY <1>2, CallTypes
<1> PICK f \in File : f = files[x]
  BY <1>2 DEF TypeOK
<1>3. PICK seen \in Contained(at[p]) :
        \/ seen = Torn /\ UNCHANGED <<inners, marred>>
        \/ /\ seen # Torn
           /\ inners' = Opened(Made(p, x, at[p].gen, f.era, Loaded(seen, f.log)),
                               at[p].parent, x)
           /\ marred' = IF at[p].gen = f.gen THEN marred ELSE marred \cup {x}
  BY DEF ReadOpened
<1>4. CASE seen = Torn /\ UNCHANGED <<inners, marred>>
  <2> PICK op \in {"read", "fill"} : TRUE
    OBVIOUS
  <2>1. UNCHANGED <<files, inners, cursor, allowed>> /\ marred' \in {marred, marred \cup {at[p].path}}
    BY <1>1, <1>4
  <2>2. /\ TypeOK' /\ CallsSound' /\ RoomLeft' /\ InodesSound' /\ OneOwner' /\ OwnersHold'
        /\ RemovalsComplete' /\ CursorsSound'
        /\ \A q \in Process \ {p} : at'[q] = at[q]
    BY <1>1, <1>2, <2>1, LockStep
  <2>3. at'[p] = Idle
    BY <1>1, <1>2 DEF Ends, TypeOK
  <2>4. Apart'
    <3>1. \A q \in Process : at'[q].op \in {"read", "lock", "fill"} => at'[q] = at[q]
      BY <2>2, <2>3 DEF Idle
    <3>2. \A j \in Inner : Live(j)' /\ inners'[j].path = inners[j].path => Live(j)
      BY <1>4 DEF Live
    <3> QED
      BY <1>4, <2>1, <3>1, <3>2, ApartKept
  <2>5. AcknowledgedSurvive'
    <3>1. ASSUME NEW y \in Path \ marred'
          PROVE  Acknowledged(y)'
      <4>1. \A q \in Process : Creating(q, y) => Creating(q, y)'
        BY <1>1, <2>2, <2>3 DEF Creating
      <4> QED
        BY <1>4, <2>1, <4>1, AcknowledgedKept
    <3> QED
      BY <3>1 DEF AcknowledgedSurvive, Acknowledged
  <2> QED
    BY <2>2, <2>4, <2>5 DEF IInv
<1>5. CASE seen # Torn /\ inners' = Opened(Made(p, x, at[p].gen, f.era, Loaded(seen, f.log)),
                                           at[p].parent, x)
           /\ marred' = IF at[p].gen = f.gen THEN marred ELSE marred \cup {x}
  <2>1. InodeSound(p) /\ at[p].gen \in Nat /\ at[p].omen \in Contents \cup {None, Torn}
        /\ at[p].parent \in Inner \cup {None}
    BY <1>2, CallTypes DEF IInv, InodesSound
  <2>2. /\ at[p].omen # None
        /\ at[p].gen = f.gen => f.omen # None /\ seen = f.omen
    BY <1>1, <2>1, <1>2 DEF InodeSound, Contained, Opener
  <2>3. seen \in Contents
    <3>1. Blank \in Contents
      BY DEF Blank, Contents
    <3> QED
      BY <1>5, <2>1, <2>2, <3>1 DEF Contained, File
  <2>4. Loaded(seen, f.log) \in Contents
    BY <2>3 DEF Loaded, Contents, Overlay, File
  <2> DEFINE new == Made(p, x, at[p].gen, f.era, Loaded(seen, f.log))
  <2>5. /\ new \in Object /\ new.proc = p /\ new.path = x /\ new.cache = NoCache /\ new.live
        /\ new.gen = at[p].gen /\ new.era = f.era /\ new.data = Loaded(seen, f.log)
    BY <2>1, <2>4 DEF Made, Object, File, NoCache
  <2>6. inners' = Opened(new, at[p].parent, x)
    BY <1>5
  <2> HIDE DEF new
  <2>7. x \notin marred' =>
          /\ at[p].gen = files[x].gen
          /\ files'[x].omen \notin {None, Torn}
          /\ \A id \in Id : new.data[id] \in allowed[x][id]
    <3> SUFFICES ASSUME x \notin marred'
                 PROVE  /\ at[p].gen = f.gen
                        /\ f.omen \notin {None, Torn}
                        /\ \A id \in Id : new.data[id] \in allowed[x][id]
      BY <1>1
    <3>1. at[p].gen = f.gen /\ x \in Path \ marred /\ f.omen \notin {None, Torn} /\ seen = f.omen
      BY <1>5, <2>2
    <3>2. \A q \in Process : ~Creating(q, x)
      BY <3>1, WrittenNotCreated
    <3>3. \A id \in Id : Loaded(f.omen, f.log)[id] \in allowed[x][id]
      BY <3>1, <3>2 DEF AcknowledgedSurvive, IInv, Exists
    <3> QED
      BY <2>5, <3>1, <3>3
  <2>8. marred' \in {marred, marred \cup {x}} /\ files' \in [Path -> File]
    BY <1>1, <1>2, <1>5 DEF TypeOK
  <2> QED
    BY <1>1, <2>5, <2>6, <2>7, <2>8, MadeInv
<1> QED
  BY <1>3, <1>4, <1>5

\* The header, an empty manifest and the footer.
LEMMA FillCreatedInv ==
  ASSUME IInv, NEW p \in Process, FillCreated(p)
  PROVE  IInv'
<1>1. at[p].op = "fill" /\ Ends(p) /\ UNCHANGED <<cursor, allowed>>
  BY DEF FillCreated
<1>2. TypeOK /\ files \in [Path -> File] /\ at[p].op \in Opener /\ at[p].op \in Opener \ {"create"}
  BY <1>1 DEF IInv, TypeOK, Opener
<1> PICK x \in Path : x = at[p].path
  BY <1>2, CallTypes
<1> PICK f \in File : f = files[x]
  BY <1>2
<1> DEFINE new == Made(p, x, at[p].gen, f.era, Blank)
<1>3. /\ files' = IF at[p].gen # f.gen THEN files ELSE [files EXCEPT ![x].omen = Blank]
      /\ inners' = Opened(new, at[p].parent, x)
      /\ marred' = IF at[p].gen # f.gen THEN marred \cup {x} ELSE marred
  BY DEF FillCreated
<1>4. Blank \in Contents /\ Blank # None /\ Blank # Torn
  <2>1. Blank \in Contents
    BY DEF Blank, Contents
  <2> QED
    BY <2>1, NoneAssumption, TornAssumption
<1>5. /\ new \in Object /\ new.proc = p /\ new.path = x /\ new.cache = NoCache /\ new.live
      /\ new.gen = at[p].gen /\ new.era = f.era /\ new.data = Blank
  <2>1. at[p].gen \in Nat
    BY <1>2, CallTypes
  <2> QED
    BY <1>4, <2>1 DEF Made, Object, File, NoCache
<1> HIDE DEF new
<1>6. /\ [f EXCEPT !.omen = Blank] \in File
      /\ [f EXCEPT !.omen = Blank].omen = Blank
      /\ [f EXCEPT !.omen = Blank].gen = f.gen /\ [f EXCEPT !.omen = Blank].log = f.log
      /\ [f EXCEPT !.omen = Blank].era = f.era
  BY <1>4 DEF File
<1>7. \/ files' = files /\ at[p].gen # f.gen /\ marred' = marred \cup {x}
      \/ /\ files' = [files EXCEPT ![x] = [f EXCEPT !.omen = Blank]]
         /\ at[p].gen = f.gen /\ marred' = marred
  BY <1>3
<1>8. /\ files' \in [Path -> File]
      /\ \A y \in Path : files'[y].gen = files[y].gen /\ files'[y].log = files[y].log
                         /\ files'[y].era = files[y].era
      /\ \A y \in Path : files'[y].omen = files[y].omen
                         \/ /\ y = x /\ files'[y].omen = Blank
                            /\ at[p].gen = f.gen /\ marred' = marred
  BY <1>2, <1>6, <1>7
<1>9. at[p].gen = f.gen => Creating(p, x)
  BY <1>1 DEF Creating
<1>10. x \notin marred' =>
         /\ at[p].gen = files[x].gen
         /\ files'[x].omen \notin {None, Torn}
         /\ \A id \in Id : new.data[id] \in allowed[x][id]
  <2> SUFFICES ASSUME x \notin marred'
               PROVE  /\ at[p].gen = f.gen
                      /\ files'[x].omen \notin {None, Torn}
                      /\ \A id \in Id : new.data[id] \in allowed[x][id]
    OBVIOUS
  <2>1. at[p].gen = f.gen /\ x \in Path \ marred /\ files'[x].omen = Blank
    BY <1>2, <1>6, <1>7
  <2>2. allowed[x] = [id \in Id |-> {None}]
    BY <1>9, <2>1 DEF CreationsAlone, Apart, IInv
  <2> QED
    BY <1>4, <1>5, <2>1, <2>2 DEF Blank
<1>11. marred' \in {marred, marred \cup {x}}
  BY <1>7
<1> QED
  BY <1>1, <1>3, <1>5, <1>8, <1>9, <1>10, <1>11, MadeInv

\* A checkpoint begins: the store gives its lock up.
LEMMA BeginFlushInv ==
  ASSUME IInv, NEW p \in Process, NEW i \in Inner, Usable(p, i), NEW closing \in BOOLEAN,
         BeginFlush(p, i, closing)
  PROVE  IInv'
<1> DEFINE call == [op |-> "publish", inner |-> i, closing |-> closing]
<1>1. /\ at' = [at EXCEPT ![p] = call]
      /\ inners' = [inners EXCEPT ![i].gen = 0]
      /\ UNCHANGED <<files, cursor, marred, allowed>>
  BY DEF BeginFlush
<1>2. TypeOK /\ at[p] = Idle /\ inners[i] # None /\ inners[i].proc = p /\ inners[i].live
  BY DEF IInv, Usable, Has
<1>3. inners[i] \in Object
  BY <1>2, ObjectTypes
<1>4. call \in Call
  BY DEF Call, Publisher
<1>5. /\ at' \in [Process -> Call] /\ at'[p] = call
      /\ \A q \in Process \ {p} : at'[q] = at[q]
  BY <1>1, <1>2, <1>4, OthersUnchanged
<1>6. inners'[i] = [inners[i] EXCEPT !.gen = 0] /\ inners'[i] \in Object
  BY <1>1, <1>2, <1>3 DEF TypeOK, Object
<1>7. \A j \in Inner : j # i => inners'[j] = inners[j]
  BY <1>1, <1>2 DEF TypeOK
<1>8. \A j \in Inner : /\ inners'[j] = None <=> inners[j] = None
                       /\ inners'[j].proc = inners[j].proc /\ inners'[j].path = inners[j].path
                       /\ inners'[j].live = inners[j].live /\ inners'[j].data = inners[j].data
                       /\ inners'[j].era = inners[j].era /\ inners'[j].cache = inners[j].cache
                       /\ inners'[j].gen = IF j = i THEN 0 ELSE inners[j].gen
  BY <1>2, <1>3, <1>6, <1>7, NoneAssumption DEF Object
<1>9. TypeOK'
  <2>1. inners' \in [Inner -> Object \cup {None}]
    BY <1>1, <1>2, <1>6, <1>7 DEF TypeOK
  <2>2. \A j \in Inner, c \in Name : inners[j] # None => inners[j].cache[c] \in Inner \cup {None}
    BY <1>2, ObjectTypes
  <2>3. \A j \in Inner, c \in Name :
          inners'[j] # None /\ inners'[j].cache[c] # None =>
            LET o == inners'[inners'[j].cache[c]]
            IN  o # None /\ o.proc = inners'[j].proc /\ o.path = c
    BY <1>2, <1>8, <2>2 DEF TypeOK
  <2>4. \A q \in Process : cursor[q] # None =>
          /\ cursor[q].inner \in Inner
          /\ inners[cursor[q].inner] # None /\ inners[cursor[q].inner].proc = q
    BY <1>2, CursorTypes DEF Has
  <2> QED
    BY <1>1, <1>2, <1>5, <1>8, <2>1, <2>3, <2>4 DEF TypeOK
<1>10. CallsSound'
  <2>1. CallSound(p)'
    BY <1>2, <1>5, <1>8 DEF CallSound, Opener, Publisher, Has
  <2>2. ASSUME NEW q \in Process, q # p
        PROVE  CallSound(q)'
    BY <1>2, <1>5, <1>8, <2>2, CallKept DEF Has
  <2> QED
    BY <2>1, <2>2 DEF CallsSound
<1>11. RoomLeft'
  <2>1. Openers' \subseteq Openers /\ Free \subseteq Free'
    BY <1>5, <1>8 DEF Openers, Opener, Free
  <2> QED
    BY <2>1, RoomKept DEF IInv
<1>12. InodesSound'
  <2>1. InodeSound(p)'
    BY <1>5 DEF InodeSound, Opener
  <2>2. ASSUME NEW q \in Process, q # p
        PROVE  InodeSound(q)'
    <3>1. \A y \in Path : files'[y] = files[y] /\ files[y].gen \in Nat
      BY <1>1, <1>2 DEF TypeOK, File
    <3> QED
      BY <1>5, <2>2, <3>1, InodeKept
  <2> QED
    BY <1>1, <1>8, <2>1, <2>2 DEF InodesSound, IInv
<1>13. OneOwner'
  BY <1>1, <1>8 DEF OneOwner, IInv
<1>14. /\ \A j \in Inner : Publishing(j) => Publishing(j)'
       /\ Publishing(i)'
       /\ \A y \in Path : Unlinking(y)' <=> Unlinking(y)
  BY <1>2, <1>5 DEF Publishing, Unlinking, Idle
<1>15. OwnersHold'
  BY <1>1, <1>8, <1>14 DEF OwnersHold, IInv, Live, Linked
<1>16. RemovalsComplete'
  BY <1>1, <1>14 DEF RemovalsComplete, IInv
<1>17. Apart' /\ AcknowledgedSurvive'
  <2>1. \A q \in Process : at'[q] = at[q] \/ (/\ at'[q].op \notin {"read", "lock", "fill"}
                                              /\ at[q].op \notin {"read", "lock", "fill"})
    BY <1>2, <1>5 DEF Idle
  <2>2. \A j \in Inner : Live(j)' => Live(j) /\ inners'[j].path = inners[j].path
    BY <1>8 DEF Live
  <2>3. Apart'
    BY <1>1, <2>1, <2>2, ApartKept
  <2>4. ASSUME NEW y \in Path \ marred
        PROVE  Acknowledged(y)'
    <3>1. \A q \in Process : Creating(q, y) => Creating(q, y)'
      BY <1>1, <2>1 DEF Creating
    <3> QED
      BY <1>1, <3>1, AcknowledgedKept
  <2> QED
    BY <1>1, <2>3, <2>4 DEF AcknowledgedSurvive, Acknowledged
<1>18. CursorsSound'
  <2>1. \A q \in Process : cursor[q] # None => cursor[q].inner \in Inner
    BY <1>2, CursorTypes
  <2> QED
    BY <1>1, <1>8, <2>1 DEF CursorsSound, IInv, Present
<1> QED
  BY <1>9, <1>10, <1>11, <1>12, <1>13, <1>15, <1>16, <1>17, <1>18 DEF IInv

\* A call under way is about objects that are there, and of one process only.
LEMMA CallObject ==
  ASSUME IInv, NEW p \in Process, at[p].op \in Publisher
  PROVE  /\ at[p].inner \in Inner /\ at[p].closing \in BOOLEAN
         /\ Live(at[p].inner) /\ inners[at[p].inner].proc = p
         /\ at[p].op \in {"publish", "relock"} => inners[at[p].inner].gen = 0
         /\ inners[at[p].inner] \in Object
         /\ inners[at[p].inner].path \in Path
<1>1. at[p].inner \in Inner /\ at[p].closing \in BOOLEAN
  BY CallTypes DEF IInv
<1>2. /\ Has(p, at[p].inner) /\ inners[at[p].inner].live
      /\ at[p].op \in {"publish", "relock"} => inners[at[p].inner].gen = 0
  BY DEF CallsSound, CallSound, IInv
<1> QED
  BY <1>1, <1>2, ObjectTypes DEF IInv, Has, Live

\* The new manifest is at the path, and covers the log.
LEMMA PublishInv ==
  ASSUME IInv, NEW p \in Process, Publish(p)
  PROVE  IInv'
<1>0. at[p].op = "publish" /\ at[p].op \in Publisher
  BY DEF Publish, Publisher
<1> PICK i \in Inner : i = at[p].inner
  BY <1>0, CallObject
<1> PICK x \in Path : x = inners[i].path
  BY <1>0, CallObject
<1> PICK f \in File : f = files[x]
  BY DEF IInv, TypeOK
<1>1. /\ at[p].op = "publish"
      /\ files' = [files EXCEPT ![x] = Published(i, @)]
      /\ allowed' = [allowed EXCEPT ![x] = [id \in Id |-> {inners[i].data[id]}]]
      /\ at' = [at EXCEPT ![p].op = "relock"]
      /\ UNCHANGED <<inners, cursor, marred>>
  BY DEF Publish
<1>2. /\ i \in Inner /\ Live(i) /\ inners[i].proc = p /\ x \in Path
      /\ inners[i].path = x /\ inners[i].data \in Contents
  BY <1>0, CallObject DEF Object
<1>3. TypeOK /\ f \in File /\ files \in [Path -> File]
  BY DEF IInv, TypeOK
<1>4. /\ at' \in [Process -> Call] /\ at'[p].op = "relock" /\ at'[p].inner = i
      /\ \A q \in Process \ {p} : at'[q] = at[q]
  <2>1. at[p] \in [op : Publisher, inner : Inner, closing : BOOLEAN]
    <3>1. at[p] \in Call
      BY <1>3 DEF TypeOK
    <3> QED
      BY <1>1, <3>1 DEF Call, Idle, Opener, Publisher
  <2>2. /\ [at[p] EXCEPT !.op = "relock"] \in Call
        /\ [at[p] EXCEPT !.op = "relock"].op = "relock"
        /\ [at[p] EXCEPT !.op = "relock"].inner = i
    BY <2>1 DEF Call, Publisher
  <2>3. at' = [at EXCEPT ![p] = [at[p] EXCEPT !.op = "relock"]]
    BY <1>1
  <2> QED
    BY <1>3, <2>2, <2>3, OthersUnchanged
<1>5. /\ files' \in [Path -> File]
      /\ \A y \in Path \ {x} : files'[y] = files[y]
      /\ files'[x].omen = inners[i].data /\ files'[x].gen = f.gen + 1
      /\ files'[x].era = f.era /\ (Linked(i) => files'[x].log = Blank)
  <2>1. Blank \in Overlay
    BY DEF Blank, Overlay
  <2>2. /\ Published(i, f) \in File
        /\ Published(i, f).omen = inners[i].data /\ Published(i, f).gen = f.gen + 1
        /\ Published(i, f).era = f.era /\ (Linked(i) => Published(i, f).log = Blank)
    <3> DEFINE log == IF Linked(i) THEN Blank ELSE f.log
    <3>1. log \in Overlay /\ (Linked(i) => log = Blank)
      BY <2>1 DEF File
    <3>2. Published(i, f) = [f EXCEPT !.omen = inners[i].data, !.gen = f.gen + 1, !.log = log]
      BY DEF Published
    <3> HIDE DEF log
    <3>3. f.gen + 1 \in Nat
      BY DEF File
    <3>4. /\ Published(i, f) \in File
          /\ Published(i, f).omen = inners[i].data /\ Published(i, f).gen = f.gen + 1
          /\ Published(i, f).era = f.era /\ Published(i, f).log = log
      BY <1>2, <3>1, <3>2, <3>3 DEF File
    <3> QED
      BY <3>1, <3>4
  <2>3. files' = [files EXCEPT ![x] = Published(i, f)]
    BY <1>1
  <2> QED
    BY <1>2, <1>3, <2>2, <2>3
<1>6. /\ allowed' \in [Path -> [Id -> SUBSET (Val \cup {None})]]
      /\ \A y \in Path \ {x} : allowed'[y] = allowed[y]
      /\ \A id \in Id : allowed'[x][id] = {inners[i].data[id]}
  <2>1. [id \in Id |-> {inners[i].data[id]}] \in [Id -> SUBSET (Val \cup {None})]
    BY <1>2 DEF Contents
  <2> QED
    BY <1>1, <1>2, <1>3, <2>1 DEF TypeOK
<1>7. files'[x].omen # None /\ files'[x].omen # Torn
  BY <1>2, <1>5, NoneAssumption, TornAssumption
<1>8. TypeOK'
  <2>1. UNCHANGED <<inners, cursor, marred>>
    BY <1>1
  <2> QED
    BY <1>3, <1>4, <1>5, <1>6, <2>1 DEF TypeOK
<1>9. CallsSound'
  <2>1. CallSound(p)'
    <3>1. CallSound(p)
      BY DEF CallsSound, IInv
    <3> QED
      BY <1>0, <1>1, <1>4, <3>1 DEF CallSound, Opener, Publisher, Has
  <2>2. ASSUME NEW q \in Process, q # p
        PROVE  CallSound(q)'
    BY <1>1, <1>4, <2>2, CallKept DEF Has
  <2> QED
    BY <2>1, <2>2 DEF CallsSound
<1>10. RoomLeft'
  <2>1. Openers' \subseteq Openers /\ Free' = Free
    BY <1>1, <1>4 DEF Openers, Opener, Free
  <2> QED
    BY <2>1, RoomKept DEF IInv
<1>11. InodesSound'
  <2>1. \A y \in Path : files'[y].omen # None => files'[y].gen # 0
    BY <1>3, <1>5 DEF InodesSound, IInv, File
  <2>2. \A y \in Path : /\ files'[y].gen \in Nat /\ files[y].gen <= files'[y].gen
                        /\ files'[y].gen = files[y].gen /\ files[y].omen # None =>
                             files'[y].omen # None
    <3> TAKE y \in Path
    <3>1. CASE y = x
      BY <1>5, <1>7, <3>1 DEF File
    <3>2. CASE y # x
      BY <1>3, <1>5, <3>2 DEF File
    <3> QED
      BY <3>1, <3>2
  <2>3. InodeSound(p)'
    BY <1>4 DEF InodeSound, Opener
  <2>4. ASSUME NEW q \in Process, q # p
        PROVE  InodeSound(q)'
    BY <1>4, <2>2, <2>4, InodeKept
  <2> QED
    BY <1>1, <2>1, <2>3, <2>4 DEF InodesSound, IInv
<1>12. OneOwner'
  BY <1>1 DEF OneOwner, IInv
<1>13. /\ \A j \in Inner : Publishing(j) => Publishing(j)'
       /\ Publishing(i)'
       /\ \A y \in Path : Unlinking(y)' <=> Unlinking(y)
  BY <1>1, <1>4 DEF Publishing, Unlinking
<1>14. OwnersHold'
  <2> SUFFICES ASSUME NEW j \in Inner, Live(j), inners[j].path \notin marred
               PROVE  /\ files'[inners[j].path].omen \notin {None, Torn}
                      /\ inners[j].gen = files'[inners[j].path].gen \/ Publishing(j)'
                      /\ inners[j].era = files'[inners[j].path].era
                      /\ \A id \in Id : inners[j].data[id] \in allowed'[inners[j].path][id]
    BY <1>1 DEF OwnersHold, Linked, Live
  <2>1. /\ files[inners[j].path].omen \notin {None, Torn}
        /\ inners[j].gen = files[inners[j].path].gen \/ Publishing(j)
        /\ inners[j].era = files[inners[j].path].era
        /\ \A id \in Id : inners[j].data[id] \in allowed[inners[j].path][id]
    BY DEF OwnersHold, IInv, Linked
  <2>2. CASE j = i
    BY <1>5, <1>6, <1>7, <1>13, <2>1, <2>2
  <2>3. CASE j # i
    <3>1. inners[j].path \in Path \ {x}
      BY <1>2, <1>3, <2>3, ObjectTypes DEF OneOwner, IInv, Live
    <3> QED
      BY <1>5, <1>6, <1>13, <2>1, <3>1
  <2> QED
    BY <2>2, <2>3
<1>15. RemovalsComplete'
  <2> SUFFICES ASSUME NEW y \in Path \ marred
               PROVE  /\ Unlinking(y)' => files'[y].omen = None
                      /\ files'[y].omen = None =>
                           /\ allowed'[y] = [id \in Id |-> {None}]
                           /\ files'[y].log = Blank \/ Unlinking(y)'
    BY <1>1 DEF RemovalsComplete
  <2>1. CASE y = x
    <3>1. files[x].omen # None
      BY <1>2, <2>1 DEF OwnersHold, IInv
    <3>2. ~Unlinking(x)'
      BY <1>2, <1>13, <2>1, <3>1 DEF RemovalsComplete, IInv
    <3> QED
      BY <1>7, <2>1, <3>2
  <2>2. CASE y # x
    <3>1. files'[y] = files[y] /\ allowed'[y] = allowed[y] /\ (Unlinking(y)' <=> Unlinking(y))
      BY <1>5, <1>6, <1>13, <2>2
    <3> QED
      BY <3>1 DEF RemovalsComplete, IInv
  <2> QED
    BY <2>1, <2>2
<1>16. AcknowledgedSurvive'
  <2> SUFFICES ASSUME NEW y \in Path \ marred, files'[y].omen # None,
                      ~(\E q \in Process : Creating(q, y)')
               PROVE  /\ files'[y].omen # Torn
                      /\ \A id \in Id :
                           Loaded(files'[y].omen, files'[y].log)[id] \in allowed'[y][id]
    BY <1>1 DEF AcknowledgedSurvive, Exists, Loaded
  <2>1. CASE y = x
    <3>1. Linked(i)
      BY <1>2, <2>1 DEF OwnersHold, IInv
    <3>2. \A id \in Id : Loaded(files'[x].omen, files'[x].log)[id] = inners[i].data[id]
      <4>1. files'[x].log = Blank /\ files'[x].omen = inners[i].data
        BY <1>5, <3>1
      <4>2. \A id \in Id : Loaded(inners[i].data, Blank)[id] = inners[i].data[id]
        BY ValueAssumption DEF Loaded, Blank
      <4> QED
        BY <4>1, <4>2
    <3> QED
      BY <1>6, <1>7, <2>1, <3>2
  <2>2. CASE y # x
    <3>1. files'[y] = files[y] /\ allowed'[y] = allowed[y]
      BY <1>5, <1>6, <2>2
    <3>2. \A q \in Process : Creating(q, y) => Creating(q, y)'
      BY <1>0, <1>4, <3>1 DEF Creating
    <3> QED
      BY <3>1, <3>2 DEF AcknowledgedSurvive, IInv, Exists
  <2> QED
    BY <2>1, <2>2
<1>17. CursorsSound'
  BY <1>1 DEF CursorsSound, IInv, Present
<1>18. Apart'
  <2>1. \A q \in Process : at'[q].op \in {"read", "lock", "fill"} => at'[q] = at[q]
    BY <1>4
  <2>2. \A j \in Inner : Live(j)' => Live(j) /\ inners'[j].path = inners[j].path
    BY <1>1 DEF Live
  <2>3. f.gen < files'[x].gen /\ files'[x].gen \in Nat
    BY <1>5 DEF File
  <2> QED
    BY <1>1, <1>5, <1>6, <2>1, <2>2, <2>3, ApartKept
<1> QED
  BY <1>8, <1>9, <1>10, <1>11, <1>12, <1>14, <1>15, <1>16, <1>17, <1>18 DEF IInv

\* A checkpoint takes its store on, with the lock of the file at the path or closed, or
\* ends; without the lock it goes on only where the path is marred.
LEMMA LockedAgainInv ==
  ASSUME IInv, NEW p \in Process, at[p].op \in {"relock", "truncate"},
         NEW i \in Inner, i = at[p].inner,
         NEW o \in Object, inners' = [inners EXCEPT ![i] = o],
         o.proc = inners[i].proc, o.path = inners[i].path, o.era = inners[i].era,
         o.cache = inners[i].cache, o.live => o.data = inners[i].data,
         ~o.live => o.gen = 0,
         o.live /\ o.path \notin marred => o.gen = files[o.path].gen,
         NEW call \in Call, at' = [at EXCEPT ![p] = call],
         call = Idle \/ (call.op = "truncate" /\ call.inner = i /\ o.live),
         UNCHANGED <<files, cursor, marred, allowed>>
  PROVE  IInv'
<1>1. TypeOK /\ at[p].op \in Publisher /\ files \in [Path -> File]
  BY DEF IInv, TypeOK, Publisher
<1> PICK x \in Path : x = inners[i].path
  BY <1>1, CallObject
<1>2. /\ inners[i] # None /\ inners[i].live /\ inners[i].proc = p /\ inners[i] \in Object
      /\ o # None
  BY <1>1, CallObject, NoneAssumption DEF Live
<1>3. /\ at' \in [Process -> Call] /\ at'[p] = call
      /\ \A q \in Process \ {p} : at'[q] = at[q]
  BY <1>1, OthersUnchanged
<1>4. inners'[i] = o /\ \A j \in Inner \ {i} : inners'[j] = inners[j]
  BY <1>1 DEF TypeOK
<1>5. \A j \in Inner : /\ inners'[j] = None <=> inners[j] = None
                       /\ inners'[j].proc = inners[j].proc /\ inners'[j].path = inners[j].path
                       /\ inners'[j].era = inners[j].era /\ inners'[j].cache = inners[j].cache
                       /\ inners'[j].live => /\ inners[j].live
                                            /\ inners'[j].data = inners[j].data
  BY <1>2, <1>4
<1>6. UNCHANGED <<files, cursor, marred, allowed>>
  OBVIOUS
<1>7. TypeOK'
  <2>1. inners' \in [Inner -> Object \cup {None}]
    BY <1>1, <1>4 DEF TypeOK
  <2>2. \A j \in Inner, c \in Name : inners[j] # None => inners[j].cache[c] \in Inner \cup {None}
    BY <1>1, ObjectTypes
  <2>3. \A j \in Inner, c \in Name :
          inners'[j] # None /\ inners'[j].cache[c] # None =>
            LET u == inners'[inners'[j].cache[c]]
            IN  u # None /\ u.proc = inners'[j].proc /\ u.path = c
    BY <1>1, <1>5, <2>2 DEF TypeOK
  <2>4. \A q \in Process : cursor[q] # None =>
          /\ cursor[q].inner \in Inner
          /\ inners[cursor[q].inner] # None /\ inners[cursor[q].inner].proc = q
    BY <1>1, CursorTypes DEF Has
  <2>5. \A q \in Process : cursor'[q] # None =>
          inners'[cursor'[q].inner] # None /\ inners'[cursor'[q].inner].proc = q
    BY <1>5, <1>6, <2>4
  <2> QED
    BY <1>1, <1>3, <1>6, <2>1, <2>3, <2>5 DEF TypeOK
<1>8. CallsSound'
  <2>1. CallSound(p)'
    <3>1. CASE call = Idle
      BY <1>3, <3>1, IdleSound
    <3>2. CASE call.op = "truncate" /\ call.inner = i /\ o.live
      BY <1>2, <1>3, <1>4, <3>2 DEF CallSound, Opener, Publisher, Has
    <3> QED
      BY <3>1, <3>2
  <2>2. ASSUME NEW q \in Process, q # p
        PROVE  CallSound(q)'
    <3>1. \A j \in Inner : Has(q, j) => inners'[j] = inners[j]
      BY <1>2, <1>4, <2>2 DEF Has
    <3> QED
      BY <1>3, <2>2, <3>1, CallKept DEF Has
  <2> QED
    BY <2>1, <2>2 DEF CallsSound
<1>9. \A q \in Process : at'[q] = at[q]
        \/ (/\ at'[q].op \notin Opener \cup {"publish", "relock", "unlink"}
            /\ at[q].op \notin Opener \cup {"unlink"} /\ q = p)
  BY <1>3 DEF Idle, Opener
<1>10. RoomLeft'
  <2>1. Openers' \subseteq Openers /\ Free \subseteq Free'
    BY <1>5, <1>9 DEF Openers, Free
  <2> QED
    BY <2>1, RoomKept DEF IInv
<1>11. InodesSound'
  <2>1. ASSUME NEW q \in Process
        PROVE  InodeSound(q)'
    <3>1. CASE at'[q] = at[q]
      <4>1. \A y \in Path : files'[y] = files[y] /\ files[y].gen \in Nat
        BY <1>1, <1>6 DEF File
      <4> QED
        BY <3>1, <4>1, InodeKept
    <3>2. CASE at'[q].op \notin Opener
      BY <3>2 DEF InodeSound
    <3> QED
      BY <1>9, <3>1, <3>2
  <2> QED
    BY <1>4, <1>6, <2>1 DEF InodesSound, IInv
<1>12. OneOwner'
  BY <1>5, <1>6 DEF OneOwner, IInv
<1>13. \A j \in Inner \ {i} : Publishing(j) => Publishing(j)'
  BY <1>9 DEF Publishing
<1>14. \A y \in Path : Unlinking(y)' <=> Unlinking(y)
  BY <1>9 DEF Unlinking
<1>15. OwnersHold'
  <2> SUFFICES ASSUME NEW j \in Inner, Live(j)', inners'[j].path \notin marred
               PROVE  /\ files[inners'[j].path].omen \notin {None, Torn}
                      /\ inners'[j].gen = files[inners'[j].path].gen \/ Publishing(j)'
                      /\ inners'[j].era = files[inners'[j].path].era
                      /\ \A id \in Id : inners'[j].data[id] \in allowed[inners'[j].path][id]
    BY <1>6 DEF OwnersHold, Linked
  <2>1. /\ Live(j) /\ inners[j].path = inners'[j].path /\ inners[j].era = inners'[j].era
        /\ inners[j].data = inners'[j].data
    BY <1>5 DEF Live
  <2>2. /\ files[inners[j].path].omen \notin {None, Torn}
        /\ inners[j].gen = files[inners[j].path].gen \/ Publishing(j)
        /\ inners[j].era = files[inners[j].path].era
        /\ \A id \in Id : inners[j].data[id] \in allowed[inners[j].path][id]
    BY <2>1 DEF OwnersHold, IInv, Linked
  <2>3. CASE j = i
    <3>1. o.live /\ inners'[j] = o /\ o.path \notin marred
      BY <1>4, <2>3 DEF Live
    <3>2. inners'[j].gen = files[inners'[j].path].gen
      BY <3>1
    <3> QED
      BY <2>1, <2>2, <3>2
  <2>4. CASE j # i
    BY <1>4, <1>13, <2>1, <2>2, <2>4
  <2> QED
    BY <2>3, <2>4
<1>16. RemovalsComplete'
  BY <1>6, <1>14 DEF RemovalsComplete, IInv
<1>17. Apart' /\ AcknowledgedSurvive'
  <2>1. /\ \A q \in Process : at'[q].op \in {"read", "lock", "fill"} => at'[q] = at[q]
        /\ \A q \in Process : at[q].op \in {"lock", "fill"} => at'[q] = at[q]
    BY <1>9 DEF Opener
  <2>2. \A j \in Inner : Live(j)' => Live(j) /\ inners'[j].path = inners[j].path
    BY <1>5 DEF Live
  <2>3. Apart'
    BY <1>6, <2>1, <2>2, ApartKept
  <2>4. ASSUME NEW y \in Path \ marred
        PROVE  Acknowledged(y)'
    <3>1. \A q \in Process : Creating(q, y) => Creating(q, y)'
      BY <1>6, <2>1 DEF Creating
    <3> QED
      BY <1>6, <3>1, AcknowledgedKept
  <2> QED
    BY <1>6, <2>3, <2>4 DEF AcknowledgedSurvive, Acknowledged
<1>18. CursorsSound'
  <2>1. \A q \in Process : cursor[q] # None => cursor[q].inner \in Inner
    BY <1>1, CursorTypes
  <2> QED
    BY <1>5, <1>6, <2>1 DEF CursorsSound, IInv, Present
<1> QED
  BY <1>7, <1>8, <1>10, <1>11, <1>12, <1>15, <1>16, <1>17, <1>18 DEF IInv

\* What closing leaves of an object.
LEMMA EndedObject ==
  ASSUME TypeOK, NEW p \in Process, NEW o \in Object, at[p].closing \in BOOLEAN
  PROVE  /\ Ended(p, o) \in Object
         /\ Ended(p, o).proc = o.proc /\ Ended(p, o).path = o.path
         /\ Ended(p, o).era = o.era /\ Ended(p, o).cache = o.cache
         /\ Ended(p, o) = o \/ (~Ended(p, o).live /\ Ended(p, o).gen = 0)
<1>1. Blank \in Contents
  BY DEF Blank, Contents
<1> DEFINE new == [o EXCEPT !.live = FALSE, !.gen = 0, !.data = Blank]
<1>2. /\ new \in Object /\ new.proc = o.proc /\ new.path = o.path /\ new.era = o.era
      /\ new.cache = o.cache /\ new.live = FALSE /\ new.gen = 0
  BY <1>1 DEF Object
<1>3. Ended(p, o) = new \/ Ended(p, o) = o
  BY DEF Ended
<1> HIDE DEF new
<1> QED
  BY <1>2, <1>3

\* The new file is locked; where it cannot be, the path is marred.
LEMMA RelockInv ==
  ASSUME IInv, NEW p \in Process, Relock(p)
  PROVE  IInv'
<1>0. at[p].op = "relock" /\ at[p].op \in Publisher
  BY DEF Relock, Publisher
<1> PICK i \in Inner : i = at[p].inner
  BY <1>0, CallObject
<1> PICK x \in Path : x = inners[i].path
  BY <1>0, CallObject
<1> PICK o \in Object : o = inners[i]
  BY <1>0, CallObject
<1>1. \/ /\ Relocked(i) = None
         /\ at' = [at EXCEPT ![p] = Idle] /\ inners' = [inners EXCEPT ![i] = Ended(p, @)]
      \/ /\ Relocked(i) # None
         /\ at' = [at EXCEPT ![p].op = "truncate"]
         /\ inners' = [inners EXCEPT ![i].gen = Relocked(i)]
  BY DEF Relock, Ends, GoesOn
<1>2. UNCHANGED <<files, cursor, marred, allowed>>
  BY DEF Relock
<1>3. /\ TypeOK /\ Idle \in Call /\ files[x] \in File
      /\ o.live /\ o.proc = p /\ o.path = x /\ o.gen = 0 /\ Live(i)
      /\ at[p].closing \in BOOLEAN
  <2>1. at[p].closing \in BOOLEAN
    BY <1>0, CallObject
  <2>2. o.live /\ o.proc = p /\ o.path = x /\ o.gen = 0 /\ Live(i)
    BY <1>0, CallObject DEF Live
  <2>3. TypeOK /\ Idle \in Call /\ files[x] \in File
    BY DEF IInv, Call, TypeOK
  <2> QED
    BY <2>1, <2>2, <2>3
<1>4. x \notin marred => Relocked(i) # None
  <2> SUFFICES ASSUME x \notin marred
               PROVE  Relocked(i) # None
    OBVIOUS
  <2>1. files[x].omen \notin {None, Torn}
    BY <1>3 DEF OwnersHold, IInv
  <2>2. ASSUME NEW k \in Inner, inners[k] # None, inners[k].path = x,
               inners[k].gen = files[x].gen, files[x].gen # 0
        PROVE  FALSE
    <3>1. inners[k].live
      BY <1>3, <2>2, ObjectTypes DEF InodesSound, IInv
    <3>2. k # i
      BY <1>3, <2>2
    <3> QED
      BY <1>3, <2>2, <3>1, <3>2 DEF OneOwner, IInv, Live
  <2>3. ASSUME NEW q \in Process, Holds(q, x, files[x].gen)
        PROVE  FALSE
    BY <1>3, <2>3 DEF HoldersAlone, Apart, IInv
  <2>4. ~Locked(x, files[x].gen)
    BY <2>2, <2>3 DEF Locked
  <2>5. Relocked(i) = files[x].gen
    BY <2>1, <2>4 DEF Relocked, Exists
  <2> QED
    BY <1>3, <2>5, NoneAssumption DEF File
<1>5. CASE Relocked(i) = None
  <2>1. at' = [at EXCEPT ![p] = Idle] /\ inners' = [inners EXCEPT ![i] = Ended(p, o)]
    BY <1>1, <1>5
  <2>2. /\ Ended(p, o) \in Object
        /\ Ended(p, o).proc = o.proc /\ Ended(p, o).path = o.path
        /\ Ended(p, o).era = o.era /\ Ended(p, o).cache = o.cache
        /\ Ended(p, o) = o \/ (~Ended(p, o).live /\ Ended(p, o).gen = 0)
    BY <1>3, EndedObject
  <2> PICK new \in Object : new = Ended(p, o)
    BY <2>2
  <2>3. /\ new.proc = inners[i].proc /\ new.path = inners[i].path /\ new.era = inners[i].era
        /\ new.cache = inners[i].cache /\ (new.live => new.data = inners[i].data)
        /\ (~new.live => new.gen = 0)
        /\ (new.live /\ new.path \notin marred => new.gen = files[new.path].gen)
    BY <1>3, <1>4, <1>5, <2>2
  <2>4. inners' = [inners EXCEPT ![i] = new]
    BY <2>1
  <2>5. at[p].op \in {"relock", "truncate"}
    BY <1>0
  <2> PICK next \in Call : next = Idle
    BY <1>3
  <2>6. at' = [at EXCEPT ![p] = next]
    BY <2>1
  <2> QED
    BY <1>2, <2>3, <2>4, <2>5, <2>6, LockedAgainInv
<1>6. CASE Relocked(i) # None
  <2> PICK g \in Nat : g = Relocked(i) /\ g = files[x].gen
    BY <1>3, <1>6 DEF Relocked, File
  <2> DEFINE new  == [o EXCEPT !.gen = g]
             next == [at[p] EXCEPT !.op = "truncate"]
  <2>1. /\ new \in Object /\ new.proc = o.proc /\ new.path = o.path /\ new.era = o.era
        /\ new.data = o.data /\ new.cache = o.cache /\ new.live = o.live /\ new.gen = g
    BY DEF Object
  <2>2. next \in Call /\ next.op = "truncate" /\ next.inner = i
    <3>1. at[p] \in [op : Publisher, inner : Inner, closing : BOOLEAN]
      <4>1. at[p] \in Call
        BY <1>3 DEF TypeOK
      <4> QED
        BY <1>0, <4>1 DEF Call, Idle, Opener, Publisher
    <3> QED
      BY <3>1 DEF Call, Publisher
  <2>3. inners' = [inners EXCEPT ![i] = new] /\ at' = [at EXCEPT ![p] = next]
    BY <1>1, <1>6
  <2> HIDE DEF new, next
  <2>4. /\ new.proc = inners[i].proc /\ new.path = inners[i].path /\ new.era = inners[i].era
        /\ new.cache = inners[i].cache /\ (new.live => new.data = inners[i].data)
        /\ (~new.live => new.gen = 0)
        /\ (new.live /\ new.path \notin marred => new.gen = files[new.path].gen)
    BY <1>3, <2>1
  <2>5. at[p].op \in {"relock", "truncate"} /\ new.live
    BY <1>0, <1>3, <2>1
  <2> QED
    BY <1>2, <2>1, <2>2, <2>3, <2>4, <2>5, LockedAgainInv
<1> QED
  BY <1>5, <1>6

\* The log is emptied, and the store closed.
LEMMA TruncateInv ==
  ASSUME IInv, NEW p \in Process, Truncate(p)
  PROVE  IInv'
<1>0. at[p].op = "truncate" /\ at[p].op \in Publisher
  BY DEF Truncate, Publisher
<1> PICK i \in Inner : i = at[p].inner
  BY <1>0, CallObject
<1> PICK o \in Object : o = inners[i]
  BY <1>0, CallObject
<1>1. /\ at' = [at EXCEPT ![p] = Idle] /\ inners' = [inners EXCEPT ![i] = Ended(p, o)]
      /\ UNCHANGED <<files, cursor, marred, allowed>>
  BY DEF Truncate, Ends
<1>2. UNCHANGED <<files, cursor, marred, allowed>>
  BY <1>1
<1>3. TypeOK /\ Idle \in Call /\ o.live /\ o.proc = p /\ Live(i) /\ at[p].closing \in BOOLEAN
  <2>1. at[p].closing \in BOOLEAN
    BY <1>0, CallObject
  <2>2. o.live /\ o.proc = p /\ Live(i)
    BY <1>0, CallObject DEF Live
  <2>3. TypeOK /\ Idle \in Call
    BY DEF IInv, Call
  <2> QED
    BY <2>1, <2>2, <2>3
<1>4. /\ Ended(p, o) \in Object
      /\ Ended(p, o).proc = o.proc /\ Ended(p, o).path = o.path
      /\ Ended(p, o).era = o.era /\ Ended(p, o).cache = o.cache
      /\ Ended(p, o) = o \/ (~Ended(p, o).live /\ Ended(p, o).gen = 0)
  BY <1>3, EndedObject
<1>5. o.path \notin marred => o.gen = files[o.path].gen
  <2>1. ~Publishing(i)
    <3> SUFFICES ASSUME NEW q \in Process, at[q].op \in {"publish", "relock"}, at[q].inner = i
                 PROVE  FALSE
      BY DEF Publishing
    <3>1. inners[i].proc = q
      BY CallObject DEF Publisher
    <3> QED
      BY <1>0, <1>3, <3>1
  <2> QED
    BY <1>3, <2>1 DEF OwnersHold, IInv
<1> PICK new \in Object : new = Ended(p, o)
  BY <1>4
<1>6. /\ new.proc = inners[i].proc /\ new.path = inners[i].path /\ new.era = inners[i].era
      /\ new.cache = inners[i].cache /\ (new.live => new.data = inners[i].data)
      /\ (~new.live => new.gen = 0)
      /\ (new.live /\ new.path \notin marred => new.gen = files[new.path].gen)
  BY <1>3, <1>4, <1>5
<1>7. inners' = [inners EXCEPT ![i] = new]
  BY <1>1
<1>8. at[p].op \in {"relock", "truncate"}
  BY <1>0
<1> PICK next \in Call : next = Idle
  BY <1>3
<1>9. at' = [at EXCEPT ![p] = next]
  BY <1>1
<1> QED
  BY <1>2, <1>6, <1>7, <1>8, <1>9, LockedAgainInv

\* Iterators touch nothing but themselves.
LEMMA CursorFrame ==
  ASSUME IInv, UNCHANGED <<files, inners, at, marred, allowed>>,
         cursor' \in [Process -> Cursor \cup {None}],
         \A q \in Process : cursor'[q] # None => Has(q, cursor'[q].inner),
         CursorsSound'
  PROVE  IInv'
<1>1. TypeOK'
  BY DEF TypeOK, IInv, Has
<1>2. CallsSound' /\ RoomLeft' /\ InodesSound' /\ OneOwner'
  BY DEF IInv, CallsSound, CallSound, Has, RoomLeft, Openers, Free, InodesSound, InodeSound,
     OneOwner
<1>3. OwnersHold'
  BY DEF IInv, OwnersHold, Live, Linked, Publishing
<1>4. RemovalsComplete'
  BY DEF IInv, RemovalsComplete, Unlinking
<1>5. AcknowledgedSurvive'
  BY DEF IInv, AcknowledgedSurvive, Exists, Loaded, Creating
<1>6. Apart'
  <2>1. UNCHANGED <<files, inners, at, marred, allowed>>
    OBVIOUS
  <2>2. \A j \in Inner : Live(j)' => Live(j) /\ inners'[j].path = inners[j].path
    BY <2>1 DEF Live
  <2> QED
    BY <2>1, <2>2, ApartKept
<1> QED
  BY <1>1, <1>2, <1>3, <1>4, <1>5, <1>6 DEF IInv
LEMMA PythonIterateInv ==
  ASSUME IInv, NEW p \in Process, NEW i \in Inner, Usable(p, i), PythonIterate(p, i)
  PROVE  IInv'
<1> DEFINE c == [inner |-> i, todo |-> Present(i), given |-> {}, steady |-> Present(i)]
<1>1. cursor' = [cursor EXCEPT ![p] = c] /\ UNCHANGED <<files, inners, at, marred, allowed>>
  BY DEF PythonIterate
<1>2. c \in Cursor
  BY DEF Cursor, Present
<1>3. cursor \in [Process -> Cursor \cup {None}]
  BY DEF IInv, TypeOK
<1>4. \A q \in Process : cursor'[q] = IF q = p THEN c ELSE cursor[q]
  BY <1>1, <1>3
<1>5. cursor' \in [Process -> Cursor \cup {None}]
  BY <1>1, <1>2, <1>3
<1>6. \A q \in Process : cursor'[q] # None => Has(q, cursor'[q].inner)
  BY <1>4, CursorTypes DEF IInv, Usable
<1>7. CursorsSound'
  BY <1>1, <1>4 DEF CursorsSound, IInv, Present
<1> QED
  BY <1>1, <1>5, <1>6, <1>7, CursorFrame
LEMMA PythonNextInv ==
  ASSUME IInv, NEW p \in Process, PythonNext(p)
  PROVE  IInv'
<1>1. /\ cursor[p] # None /\ Usable(p, cursor[p].inner)
      /\ UNCHANGED <<files, inners, at, marred, allowed>>
  BY DEF PythonNext
<1>2. PICK id \in cursor[p].todo : cursor' = [cursor EXCEPT ![p] = Advanced(cursor[p], id)]
  BY DEF PythonNext
<1>3. cursor \in [Process -> Cursor \cup {None}] /\ cursor[p] \in Cursor
  BY <1>1, CursorTypes DEF IInv, TypeOK
<1> DEFINE c == Advanced(cursor[p], id)
<1>4. /\ c \in Cursor /\ c.inner = cursor[p].inner /\ c.steady = cursor[p].steady
      /\ c.todo = cursor[p].todo \ {id}
      /\ c.given = IF id \in Present(cursor[p].inner) THEN cursor[p].given \cup {id}
                   ELSE cursor[p].given
  BY <1>2, <1>3 DEF Advanced, Cursor
<1> HIDE DEF c
<1>5. \A q \in Process : cursor'[q] = IF q = p THEN c ELSE cursor[q]
  BY <1>2, <1>3 DEF c
<1>6. cursor' \in [Process -> Cursor \cup {None}]
  BY <1>2, <1>3, <1>4 DEF c
<1>7. \A q \in Process : cursor'[q] # None => Has(q, cursor'[q].inner)
  BY <1>1, <1>4, <1>5, CursorTypes DEF IInv, Usable
<1>8. CursorsSound'
  <2> SUFFICES ASSUME NEW q \in Process, cursor'[q] # None
               PROVE  /\ cursor'[q].steady \subseteq cursor'[q].todo \cup cursor'[q].given
                      /\ inners[cursor'[q].inner].live =>
                           cursor'[q].steady \subseteq Present(cursor'[q].inner)
    BY <1>1 DEF CursorsSound, Present
  <2>1. CASE q = p
    <3>1. /\ cursor[p].steady \subseteq cursor[p].todo \cup cursor[p].given
          /\ cursor[p].steady \subseteq Present(cursor[p].inner)
      BY <1>1 DEF CursorsSound, IInv, Usable
    <3> QED
      BY <1>4, <1>5, <2>1, <3>1
  <2>2. CASE q # p
    BY <1>5, <2>2 DEF CursorsSound, IInv
  <2> QED
    BY <2>1, <2>2
<1> QED
  BY <1>1, <1>6, <1>7, <1>8, CursorFrame

\* x.omen goes: a path with an open store is marred.
LEMMA DeleteCollectionInv ==
  ASSUME IInv, NEW p \in Process, NEW r \in Inner, NEW x \in Name, DeleteCollection(p, r, x)
  PROVE  IInv'
<1> DEFINE call == [op |-> "unlink", parent |-> r, path |-> x]
<1>1. /\ at[p] = Idle /\ Has(p, r)
      /\ files' = [files EXCEPT ![x].omen = None, ![x].gen = @ + 1]
      /\ allowed' = [allowed EXCEPT ![x] = [id \in Id |-> {None}]]
      /\ marred' = IF \E i \in Inner : inners[i] # None /\ inners[i].path = x /\ inners[i].live
                   THEN marred \cup {x} ELSE marred
      /\ at' = [at EXCEPT ![p] = call]
      /\ UNCHANGED <<inners, cursor>>
  BY DEF DeleteCollection
<1>2. TypeOK /\ x \in Path /\ call \in Call /\ files \in [Path -> File]
  BY DEF IInv, Call, TypeOK, Path
<1> PICK f \in File : f = files[x]
  BY <1>2
<1>3. /\ at' \in [Process -> Call] /\ at'[p] = call
      /\ \A q \in Process \ {p} : at'[q] = at[q]
  BY <1>1, <1>2, OthersUnchanged
<1>4. /\ files' \in [Path -> File]
      /\ \A y \in Path \ {x} : files'[y] = files[y]
      /\ files'[x].omen = None /\ files'[x].gen = f.gen + 1
  <2>1. files' = [files EXCEPT ![x] = [f EXCEPT !.omen = None, !.gen = f.gen + 1]]
    BY <1>1, <1>2
  <2>2. [f EXCEPT !.omen = None, !.gen = f.gen + 1] \in File
    <3> PICK g \in Nat : g = f.gen + 1
      BY DEF File
    <3>1. [f EXCEPT !.omen = None, !.gen = g] \in File
      BY DEF File
    <3> QED
      BY <3>1
  <2>3. /\ [f EXCEPT !.omen = None, !.gen = f.gen + 1].omen = None
        /\ [f EXCEPT !.omen = None, !.gen = f.gen + 1].gen = f.gen + 1
    BY DEF File
  <2> QED
    BY <1>2, <2>1, <2>2, <2>3
<1>5. /\ allowed' \in [Path -> [Id -> SUBSET (Val \cup {None})]]
      /\ \A y \in Path \ {x} : allowed'[y] = allowed[y]
      /\ allowed'[x] = [id \in Id |-> {None}]
  BY <1>1, <1>2 DEF TypeOK
<1>6. /\ marred' \subseteq Path /\ marred \subseteq marred'
      /\ x \notin marred' => \A j \in Inner : Live(j) => inners[j].path # x
  BY <1>1, <1>2 DEF TypeOK, Live
<1>7. TypeOK'
  <2>1. UNCHANGED <<inners, cursor>>
    BY <1>1
  <2> QED
    BY <1>2, <1>3, <1>4, <1>5, <1>6, <2>1 DEF TypeOK
<1>8. CallsSound'
  <2>1. CallSound(p)'
    BY <1>1, <1>3 DEF CallSound, Opener, Publisher, Has
  <2>2. ASSUME NEW q \in Process, q # p
        PROVE  CallSound(q)'
    BY <1>1, <1>3, <2>2, CallKept DEF Has
  <2> QED
    BY <2>1, <2>2 DEF CallsSound
<1>9. RoomLeft'
  <2>1. Openers' \subseteq Openers /\ Free' = Free
    BY <1>1, <1>3 DEF Openers, Opener, Free
  <2> QED
    BY <2>1, RoomKept DEF IInv
<1>10. InodesSound'
  <2>1. \A y \in Path : files'[y].omen # None => files'[y].gen # 0
    BY <1>4 DEF InodesSound, IInv
  <2>2. \A y \in Path : /\ files'[y].gen \in Nat /\ files[y].gen <= files'[y].gen
                        /\ files'[y].gen = files[y].gen /\ files[y].omen # None =>
                             files'[y].omen # None
    <3> TAKE y \in Path
    <3>1. CASE y = x
      BY <1>4, <3>1 DEF File
    <3>2. CASE y # x
      BY <1>2, <1>4, <3>2 DEF File
    <3> QED
      BY <3>1, <3>2
  <2>3. InodeSound(p)'
    BY <1>3 DEF InodeSound, Opener
  <2>4. ASSUME NEW q \in Process, q # p
        PROVE  InodeSound(q)'
    BY <1>3, <2>2, <2>4, InodeKept
  <2> QED
    BY <1>1, <2>1, <2>3, <2>4 DEF InodesSound, IInv
<1>11. OneOwner'
  BY <1>1, <1>6 DEF OneOwner, IInv
<1>12. \A j \in Inner : Publishing(j) => Publishing(j)'
  BY <1>1, <1>3 DEF Publishing, Idle
<1>13. Unlinking(x)' /\ \A y \in Path \ {x} : Unlinking(y)' <=> Unlinking(y)
  BY <1>1, <1>3 DEF Unlinking, Idle
<1>14. OwnersHold'
  <2> SUFFICES ASSUME NEW j \in Inner, Live(j), inners[j].path \notin marred'
               PROVE  /\ files'[inners[j].path].omen \notin {None, Torn}
                      /\ inners[j].gen = files'[inners[j].path].gen \/ Publishing(j)'
                      /\ inners[j].era = files'[inners[j].path].era
                      /\ \A id \in Id : inners[j].data[id] \in allowed'[inners[j].path][id]
    BY <1>1 DEF OwnersHold, Linked, Live
  <2>1. inners[j].path \in Path \ {x} /\ inners[j].path \notin marred
    BY <1>2, <1>6, ObjectTypes DEF Live
  <2> QED
    BY <1>4, <1>5, <1>12, <2>1 DEF OwnersHold, IInv, Linked
<1>15. RemovalsComplete'
  <2> SUFFICES ASSUME NEW y \in Path \ marred'
               PROVE  /\ Unlinking(y)' => files'[y].omen = None
                      /\ files'[y].omen = None =>
                           /\ allowed'[y] = [id \in Id |-> {None}]
                           /\ files'[y].log = Blank \/ Unlinking(y)'
    BY DEF RemovalsComplete
  <2>1. CASE y = x
    BY <1>4, <1>5, <1>13, <2>1
  <2>2. CASE y # x
    <3>1. /\ files'[y] = files[y] /\ allowed'[y] = allowed[y] /\ y \notin marred
          /\ Unlinking(y)' <=> Unlinking(y)
      BY <1>4, <1>5, <1>6, <1>13, <2>2
    <3> QED
      BY <3>1 DEF RemovalsComplete, IInv
  <2> QED
    BY <2>1, <2>2
<1>16. Apart' /\ AcknowledgedSurvive'
  <2>1. \A q \in Process : at'[q] = at[q] \/ (/\ at'[q].op \notin {"read", "lock", "fill"}
                                              /\ at[q].op \notin {"read", "lock", "fill"})
    BY <1>1, <1>3 DEF Idle
  <2>2. \A j \in Inner : Live(j)' => Live(j) /\ inners'[j].path = inners[j].path
    BY <1>1 DEF Live
  <2>3. f.gen < files'[x].gen /\ files'[x].gen \in Nat
    BY <1>4 DEF File
  <2>4. Apart'
    BY <1>4, <1>5, <1>6, <2>1, <2>2, <2>3, ApartKept
  <2>5. ASSUME NEW y \in Path \ marred'
        PROVE  Acknowledged(y)'
    <3>1. CASE y = x
      BY <1>4, <3>1 DEF Acknowledged, Exists
    <3>2. CASE y # x
      <4>1. files'[y] = files[y] /\ allowed'[y] = allowed[y] /\ y \in Path \ marred
        BY <1>4, <1>5, <1>6, <3>2
      <4>2. \A q \in Process : Creating(q, y) => Creating(q, y)'
        BY <2>1, <4>1 DEF Creating
      <4> QED
        BY <4>1, <4>2, AcknowledgedKept
    <3> QED
      BY <3>1, <3>2
  <2> QED
    BY <2>4, <2>5 DEF AcknowledgedSurvive, Acknowledged
<1>17. CursorsSound'
  BY <1>1 DEF CursorsSound, IInv, Present
<1> QED
  BY <1>7, <1>8, <1>9, <1>10, <1>11, <1>14, <1>15, <1>16, <1>17 DEF IInv

\* x.wal goes, and the entry of the cache.
LEMMA FinishDeleteInv ==
  ASSUME IInv, NEW p \in Process, FinishDelete(p)
  PROVE  IInv'
<1>0. at[p].op = "unlink" /\ TypeOK /\ Idle \in Call
  BY DEF FinishDelete, IInv, Call
<1> PICK r \in Inner : r = at[p].parent
  BY <1>0, CallTypes
<1> PICK x \in Name : x = at[p].path
  BY <1>0, CallTypes
<1>1. /\ files' = [files EXCEPT ![x] = WithoutLog(@)]
      /\ inners' = [inners EXCEPT ![r].cache[x] = None]
      /\ at' = [at EXCEPT ![p] = Idle]
      /\ UNCHANGED <<cursor, marred, allowed>>
  BY DEF FinishDelete
<1>2. x \in Path /\ files \in [Path -> File] /\ inners[r] # None /\ inners[r] \in Object
  BY <1>0, ObjectTypes DEF TypeOK, Path, CallsSound, CallSound, IInv, Has
<1> PICK f \in File : f = files[x]
  BY <1>2
<1>3. /\ at' \in [Process -> Call] /\ at'[p] = Idle
      /\ \A q \in Process \ {p} : at'[q] = at[q]
  BY <1>0, <1>1, OthersUnchanged
<1>4. /\ files' \in [Path -> File]
      /\ \A y \in Path \ {x} : files'[y] = files[y]
      /\ files'[x].omen = f.omen /\ files'[x].gen = f.gen /\ files'[x].log = Blank
  <2>1. Blank \in Overlay
    BY DEF Blank, Overlay
  <2>2. /\ WithoutLog(f) \in File /\ WithoutLog(f).omen = f.omen
        /\ WithoutLog(f).gen = f.gen /\ WithoutLog(f).log = Blank
    <3> PICK e \in Nat : e = f.era + 1
      BY DEF File
    <3> DEFINE new == [f EXCEPT !.log = Blank, !.era = e]
    <3>1. new \in File
      BY <2>1 DEF File
    <3>2. new.omen = f.omen /\ new.gen = f.gen /\ new.log = Blank
      BY DEF File
    <3>3. WithoutLog(f) = new
      BY DEF WithoutLog
    <3> QED
      BY <3>1, <3>2, <3>3
  <2>3. files' = [files EXCEPT ![x] = WithoutLog(f)]
    BY <1>1
  <2> QED
    BY <1>2, <2>2, <2>3
<1>5. \A j \in Inner \ {r} : inners'[j] = inners[j]
  BY <1>0, <1>1 DEF TypeOK
<1>6. /\ inners'[r] \in Object
      /\ inners'[r].proc = inners[r].proc /\ inners'[r].path = inners[r].path
      /\ inners'[r].live = inners[r].live /\ inners'[r].data = inners[r].data
      /\ inners'[r].gen = inners[r].gen /\ inners'[r].era = inners[r].era
      /\ inners'[r].cache = [inners[r].cache EXCEPT ![x] = None]
  <2> PICK o \in Object : o = inners[r]
    BY <1>2
  <2> PICK cache \in [Name -> Inner \cup {None}] : cache = [o.cache EXCEPT ![x] = None]
    BY DEF Object
  <2>1. [o EXCEPT !.cache = cache] \in Object
    BY DEF Object
  <2>2. /\ [o EXCEPT !.cache = cache].proc = o.proc /\ [o EXCEPT !.cache = cache].path = o.path
        /\ [o EXCEPT !.cache = cache].live = o.live /\ [o EXCEPT !.cache = cache].data = o.data
        /\ [o EXCEPT !.cache = cache].gen = o.gen /\ [o EXCEPT !.cache = cache].era = o.era
        /\ [o EXCEPT !.cache = cache].cache = cache
    BY DEF Object
  <2>3. inners'[r] = [o EXCEPT !.cache = cache]
    BY <1>0, <1>1 DEF TypeOK
  <2> QED
    BY <2>1, <2>2, <2>3
<1>7. \A j \in Inner : /\ Same(j)
                       /\ inners[j] # None => \A c \in Name :
                            inners'[j].cache[c] \in {None, inners[j].cache[c]}
  <2>1. inners'[r] # None /\ inners[r].cache \in [Name -> Inner \cup {None}]
    BY <1>2, <1>6, NoneAssumption DEF Object
  <2> QED
    BY <1>2, <1>5, <1>6, <2>1 DEF Same
<1>8. TypeOK'
  <2>1. inners' \in [Inner -> Object \cup {None}]
    BY <1>0, <1>1, <1>5, <1>6 DEF TypeOK
  <2>2. \A j \in Inner, c \in Name : inners[j] # None => inners[j].cache[c] \in Inner \cup {None}
    BY <1>0, ObjectTypes
  <2>3. \A j \in Inner, c \in Name :
          inners'[j] # None /\ inners'[j].cache[c] # None =>
            LET o == inners'[inners'[j].cache[c]]
            IN  o # None /\ o.proc = inners'[j].proc /\ o.path = c
    <3> SUFFICES ASSUME NEW j \in Inner, NEW c \in Name, inners'[j] # None,
                        inners'[j].cache[c] # None
                 PROVE  LET o == inners'[inners'[j].cache[c]]
                        IN  o # None /\ o.proc = inners'[j].proc /\ o.path = c
      OBVIOUS
    <3>1. /\ inners[j] # None /\ inners'[j].proc = inners[j].proc
          /\ inners'[j].cache[c] = inners[j].cache[c]
      BY <1>7 DEF Same
    <3>2. LET o == inners[inners[j].cache[c]]
          IN  o # None /\ o.proc = inners[j].proc /\ o.path = c
      BY <1>0, <3>1 DEF TypeOK
    <3>3. inners[j].cache[c] \in Inner
      BY <2>2, <3>1
    <3> QED
      BY <1>7, <3>1, <3>2, <3>3 DEF Same
  <2>4. \A q \in Process : cursor[q] # None =>
          /\ cursor[q].inner \in Inner
          /\ inners[cursor[q].inner] # None /\ inners[cursor[q].inner].proc = q
    BY <1>0, CursorTypes DEF Has
  <2>5. UNCHANGED <<cursor, marred, allowed>>
    BY <1>1
  <2>6. \A q \in Process : cursor'[q] # None =>
          inners'[cursor'[q].inner] # None /\ inners'[cursor'[q].inner].proc = q
    BY <1>7, <2>4, <2>5 DEF Same
  <2> QED
    BY <1>0, <1>3, <1>4, <2>1, <2>3, <2>5, <2>6 DEF TypeOK
<1>9. CallsSound'
  <2>1. ASSUME NEW q \in Process, q # p
        PROVE  CallSound(q)'
    <3>1. \A j \in Inner : Has(q, j) => /\ Has(q, j)'
                                       /\ inners'[j].live = inners[j].live
                                       /\ inners'[j].gen = inners[j].gen
      BY <1>7 DEF Has, Same
    <3> QED
      BY <1>3, <2>1, <3>1, CallKept
  <2> QED
    BY <1>3, <2>1, IdleSound DEF CallsSound
<1>10. RoomLeft'
  <2>1. Openers' \subseteq Openers /\ Free \subseteq Free'
    BY <1>3, <1>7 DEF Openers, Opener, Free, Idle, Same
  <2> QED
    BY <2>1, RoomKept DEF IInv
<1>11. InodesSound'
  <2>1. \A y \in Path : files'[y].omen = files[y].omen /\ files'[y].gen = files[y].gen
    BY <1>4
  <2>2. \A y \in Path : files[y].gen \in Nat
    BY <1>2 DEF File
  <2>3. ASSUME NEW q \in Process, q # p
        PROVE  InodeSound(q)'
    BY <1>3, <2>1, <2>2, <2>3, InodeKept
  <2>4. InodeSound(p)'
    BY <1>3, IdleSound
  <2> QED
    BY <1>7, <2>1, <2>3, <2>4 DEF InodesSound, IInv, Same
<1>12. OneOwner'
  BY <1>1, <1>7 DEF OneOwner, IInv, Same
<1>13. \A j \in Inner : Publishing(j) => Publishing(j)'
  BY <1>0, <1>3 DEF Publishing
<1>14. Unlinking(x) /\ \A y \in Path \ {x} : Unlinking(y)' <=> Unlinking(y)
  BY <1>0, <1>3 DEF Unlinking, Idle
<1>15. x \notin marred => f.omen = None
  BY <1>2, <1>14 DEF RemovalsComplete, IInv
<1>16. OwnersHold'
  <2> SUFFICES ASSUME NEW j \in Inner, Live(j)', inners'[j].path \notin marred
               PROVE  /\ files'[inners'[j].path].omen \notin {None, Torn}
                      /\ inners'[j].gen = files'[inners'[j].path].gen \/ Publishing(j)'
                      /\ inners'[j].era = files'[inners'[j].path].era
                      /\ \A id \in Id : inners'[j].data[id] \in allowed[inners'[j].path][id]
    BY <1>1 DEF OwnersHold, Linked
  <2>1. /\ Live(j) /\ inners'[j].path = inners[j].path /\ inners'[j].gen = inners[j].gen
        /\ inners'[j].era = inners[j].era /\ inners'[j].data = inners[j].data
    BY <1>7 DEF Live, Same
  <2>2. /\ files[inners[j].path].omen \notin {None, Torn}
        /\ inners[j].gen = files[inners[j].path].gen \/ Publishing(j)
        /\ inners[j].era = files[inners[j].path].era
        /\ \A id \in Id : inners[j].data[id] \in allowed[inners[j].path][id]
    BY <2>1 DEF OwnersHold, IInv, Linked
  <2>3. inners[j].path \in Path \ {x}
    BY <1>0, <1>15, <2>1, <2>2, ObjectTypes DEF Live
  <2> QED
    BY <1>4, <1>13, <2>1, <2>2, <2>3
<1>17. RemovalsComplete'
  <2> SUFFICES ASSUME NEW y \in Path \ marred
               PROVE  /\ Unlinking(y)' => files'[y].omen = None
                      /\ files'[y].omen = None =>
                           /\ allowed[y] = [id \in Id |-> {None}]
                           /\ files'[y].log = Blank \/ Unlinking(y)'
    BY <1>1 DEF RemovalsComplete
  <2>1. CASE y = x
    BY <1>2, <1>4, <1>15, <2>1 DEF RemovalsComplete, IInv
  <2>2. CASE y # x
    <3>1. files'[y] = files[y] /\ (Unlinking(y)' <=> Unlinking(y))
      BY <1>4, <1>14, <2>2
    <3> QED
      BY <3>1 DEF RemovalsComplete, IInv
  <2> QED
    BY <2>1, <2>2
<1>18. Apart' /\ AcknowledgedSurvive'
  <2>1. \A q \in Process : at'[q] = at[q] \/ (/\ at'[q].op \notin {"read", "lock", "fill"}
                                              /\ at[q].op \notin {"read", "lock", "fill"})
    BY <1>0, <1>3 DEF Idle
  <2>2. \A j \in Inner : Live(j)' => Live(j) /\ inners'[j].path = inners[j].path
    BY <1>7 DEF Live, Same
  <2>3. \A q \in Process, y \in Path : Creating(q, y)' <=> Creating(q, y)
    BY <1>4, <2>1 DEF Creating
  <2>4. x \notin marred => \A q \in Process : ~Creating(q, x)
    <3>1. x \notin marred => files[x].omen # Torn
      BY <1>15, TornAssumption
    <3> QED
      BY <1>2, <3>1, WrittenNotCreated
  <2>5. Apart'
    <3>1. \A y \in Path \ marred : (\E q \in Process : Creating(q, y)') =>
             files'[y].omen = files[y].omen /\ files'[y].log = files[y].log
      BY <1>4, <2>3, <2>4
    <3> QED
      BY <1>1, <1>4, <2>1, <2>2, <3>1, ApartKept
  <2>6. ASSUME NEW y \in Path \ marred
        PROVE  Acknowledged(y)'
    <3>1. CASE y = x
      BY <1>4, <1>15, <3>1 DEF Acknowledged, Exists
    <3>2. CASE y # x
      BY <1>1, <1>4, <2>3, <3>2, AcknowledgedKept
    <3> QED
      BY <3>1, <3>2
  <2> QED
    BY <1>1, <2>5, <2>6 DEF AcknowledgedSurvive, Acknowledged
<1>19. CursorsSound'
  <2>1. \A q \in Process : cursor[q] # None => cursor[q].inner \in Inner /\ inners[cursor[q].inner] # None
    BY <1>0, CursorTypes DEF Has
  <2> QED
    BY <1>1, <1>7, <2>1 DEF CursorsSound, IInv, Present, Same
<1> QED
  BY <1>8, <1>9, <1>10, <1>11, <1>12, <1>16, <1>17, <1>18, <1>19 DEF IInv

\* Objects go: those that stay, and what is under way about them, are as they were.
LEMMA DroppedInv ==
  ASSUME IInv, NEW p \in Process, NEW D \in SUBSET Inner,
         \A i \in D : Has(p, i),
         \A i \in Inner \ D, c \in Name :
           inners[i] # None /\ inners[i].cache[c] # None => inners[i].cache[c] \notin D,
         inners' = [i \in Inner |-> IF i \in D THEN None ELSE inners[i]],
         at'[p] = Idle, at' \in [Process -> Call], \A q \in Process \ {p} : at'[q] = at[q],
         cursor' \in [Process -> Cursor \cup {None}],
         \A q \in Process : cursor'[q] # None => cursor'[q] = cursor[q] /\ cursor[q].inner \notin D,
         \A i \in Inner \ D : Publishing(i) => Publishing(i)',
         marred \subseteq marred', marred' \subseteq Path,
         \A y \in Path \ marred' : Unlinking(y)' <=> Unlinking(y),
         \A y \in Path \ marred', q \in Process : Creating(q, y) => Creating(q, y)',
         UNCHANGED <<files, allowed>>
  PROVE  IInv'
<1>1. TypeOK
  BY DEF IInv
<1>2. \A i \in Inner : inners'[i] = IF i \in D THEN None ELSE inners[i]
  OBVIOUS
<1>3. \A q \in Process : cursor'[q] # None =>
        /\ cursor'[q] = cursor[q] /\ cursor[q].inner \in Inner \ D
        /\ inners[cursor[q].inner] # None /\ inners[cursor[q].inner].proc = q
  BY <1>1, CursorTypes DEF Has
<1>4. TypeOK'
  <2>1. inners' \in [Inner -> Object \cup {None}]
    BY <1>1 DEF TypeOK
  <2>2. \A i \in Inner, c \in Name : inners[i] # None => inners[i].cache[c] \in Inner \cup {None}
    BY <1>1, ObjectTypes
  <2>3. \A i \in Inner, c \in Name :
          inners'[i] # None /\ inners'[i].cache[c] # None =>
            LET o == inners'[inners'[i].cache[c]]
            IN  o # None /\ o.proc = inners'[i].proc /\ o.path = c
    <3> SUFFICES ASSUME NEW i \in Inner, NEW c \in Name, inners'[i] # None,
                        inners'[i].cache[c] # None
                 PROVE  LET o == inners'[inners'[i].cache[c]]
                        IN  o # None /\ o.proc = inners'[i].proc /\ o.path = c
      OBVIOUS
    <3>1. i \notin D /\ inners'[i] = inners[i]
      BY <1>2
    <3>2. inners[i].cache[c] \in Inner \ D
      BY <2>2, <3>1
    <3>3. LET o == inners[inners[i].cache[c]]
          IN  o # None /\ o.proc = inners[i].proc /\ o.path = c
      BY <1>1, <3>1 DEF TypeOK
    <3> QED
      BY <1>2, <3>1, <3>2, <3>3
  <2>4. \A q \in Process : cursor'[q] # None =>
          inners'[cursor'[q].inner] # None /\ inners'[cursor'[q].inner].proc = q
    BY <1>2, <1>3
  <2> QED
    BY <1>1, <2>1, <2>3, <2>4 DEF TypeOK
<1>5. CallsSound'
  <2>1. ASSUME NEW q \in Process, q # p
        PROVE  CallSound(q)'
    <3>1. \A i \in Inner : Has(q, i) => inners'[i] = inners[i]
      BY <1>2, <2>1 DEF Has
    <3> QED
      BY <2>1, <3>1, CallKept DEF Has
  <2> QED
    BY <2>1, IdleSound DEF CallsSound
<1>6. RoomLeft'
  <2>1. Openers' \subseteq Openers /\ Free \subseteq Free'
    BY <1>2 DEF Openers, Opener, Free, Idle
  <2> QED
    BY <2>1, RoomKept DEF IInv
<1>7. InodesSound'
  <2>1. ASSUME NEW q \in Process, q # p
        PROVE  InodeSound(q)'
    <3>1. \A y \in Path : files'[y] = files[y] /\ files[y].gen \in Nat
      BY <1>1 DEF TypeOK, File
    <3> QED
      BY <2>1, <3>1, InodeKept
  <2>2. InodeSound(p)'
    BY IdleSound
  <2> QED
    BY <1>2, <2>1, <2>2 DEF InodesSound, IInv
<1>8. OneOwner'
  BY <1>2 DEF OneOwner, IInv
<1>9. OwnersHold'
  BY <1>2 DEF OwnersHold, IInv, Live, Linked
<1>10. RemovalsComplete'
  <2> SUFFICES ASSUME NEW y \in Path \ marred'
               PROVE  /\ Unlinking(y)' => files[y].omen = None
                      /\ files[y].omen = None =>
                           /\ allowed[y] = [id \in Id |-> {None}]
                           /\ files[y].log = Blank \/ Unlinking(y)'
    BY DEF RemovalsComplete
  <2> QED
    BY DEF RemovalsComplete, IInv
<1>11. Apart' /\ AcknowledgedSurvive'
  <2>1. \A q \in Process : at'[q].op \in {"read", "lock", "fill"} => at'[q] = at[q]
    BY DEF Idle
  <2>2. \A j \in Inner : Live(j)' => Live(j) /\ inners'[j].path = inners[j].path
    BY <1>2 DEF Live
  <2>3. Apart'
    BY <2>1, <2>2, ApartKept
  <2>4. ASSUME NEW y \in Path \ marred'
        PROVE  Acknowledged(y)'
    BY <2>4, AcknowledgedKept
  <2> QED
    BY <2>3, <2>4 DEF AcknowledgedSurvive, Acknowledged
<1>12. CursorsSound'
  BY <1>2, <1>3 DEF CursorsSound, IInv, Present
<1> QED
  BY <1>4, <1>5, <1>6, <1>7, <1>8, <1>9, <1>10, <1>11, <1>12 DEF IInv
LEMMA DroppingInv ==
  ASSUME IInv, NEW p \in Process, NEW i \in Inner, Dropping(p, i)
  PROVE  IInv'
<1>1. /\ at[p] = Idle /\ Has(p, i) /\ ~Referenced(p, i)
      /\ inners' = [inners EXCEPT ![i] = None]
      /\ UNCHANGED <<files, at, cursor, marred, allowed>>
  BY DEF Dropping
<1>2. TypeOK
  BY DEF IInv
<1>3. inners' = [j \in Inner |-> IF j \in {i} THEN None ELSE inners[j]]
  BY <1>1, <1>2 DEF TypeOK
<1>4. \A j \in Inner \ {i}, c \in Name :
        inners[j] # None /\ inners[j].cache[c] # None => inners[j].cache[c] \notin {i}
  BY <1>1 DEF Referenced, Cached
<1>5. \A q \in Process : cursor'[q] # None => cursor'[q] = cursor[q] /\ cursor[q].inner \notin {i}
  BY <1>1, <1>2, CursorTypes DEF Referenced, Has
<1>6. /\ \A j \in Inner \ {i} : Publishing(j) => Publishing(j)'
      /\ \A y \in Path \ marred' : Unlinking(y)' <=> Unlinking(y)
      /\ \A y \in Path \ marred', q \in Process : Creating(q, y) => Creating(q, y)'
  BY <1>1 DEF Publishing, Unlinking, Creating
<1>7. at' \in [Process -> Call] /\ cursor' \in [Process -> Cursor \cup {None}] /\ marred' \subseteq Path
  BY <1>1, <1>2 DEF TypeOK
<1>8. \A j \in {i} : Has(p, j)
  BY <1>1
<1>9. at'[p] = Idle /\ (\A q \in Process \ {p} : at'[q] = at[q]) /\ marred \subseteq marred'
  BY <1>1
<1>10. UNCHANGED <<files, allowed>>
  BY <1>1
<1> QED
  BY <1>3, <1>4, <1>5, <1>6, <1>7, <1>8, <1>9, <1>10, DroppedInv
LEMMA CrashInv ==
  ASSUME IInv, NEW p \in Process, Crash(p)
  PROVE  IInv'
<1> PICK D \in SUBSET Inner : D = {i \in Inner : Has(p, i)}
  OBVIOUS
<1>1. /\ inners' = [i \in Inner |-> IF Has(p, i) THEN None ELSE inners[i]]
      /\ at' = [at EXCEPT ![p] = Idle]
      /\ cursor' = [cursor EXCEPT ![p] = None]
      /\ marred' = marred \cup HalfDone(p)
      /\ UNCHANGED <<files, allowed>>
  BY DEF Crash
<1>2. TypeOK /\ Idle \in Call
  BY DEF IInv, Call
<1>3. /\ at' \in [Process -> Call] /\ at'[p] = Idle
      /\ \A q \in Process \ {p} : at'[q] = at[q]
  BY <1>1, <1>2, OthersUnchanged
<1>4. inners' = [i \in Inner |-> IF i \in D THEN None ELSE inners[i]]
  BY <1>1
<1>5. \A i \in Inner \ D, c \in Name :
        inners[i] # None /\ inners[i].cache[c] # None => inners[i].cache[c] \notin D
  BY <1>2 DEF TypeOK, Has
<1>6. cursor' \in [Process -> Cursor \cup {None}] /\ cursor'[p] = None
      /\ \A q \in Process \ {p} : cursor'[q] = cursor[q]
  BY <1>1, <1>2 DEF TypeOK
<1>7. \A q \in Process : cursor'[q] # None => cursor'[q] = cursor[q] /\ cursor[q].inner \notin D
  BY <1>2, <1>6, CursorTypes DEF Has
<1>8. \A i \in Inner \ D : Publishing(i) => Publishing(i)'
  <2>1. \A i \in Inner : at[p].op \in {"publish", "relock"} /\ at[p].inner = i => i \in D
    BY DEF CallsSound, CallSound, IInv, Publisher
  <2> QED
    BY <1>3, <2>1 DEF Publishing
<1>9. marred \subseteq marred' /\ marred' \subseteq Path
  BY <1>1, <1>2 DEF TypeOK, HalfDone
<1>10. \A y \in Path \ marred' : Unlinking(y)' <=> Unlinking(y)
  BY <1>1, <1>3 DEF Unlinking, HalfDone, Idle
<1>11. \A y \in Path \ marred', q \in Process : Creating(q, y) => Creating(q, y)'
  <2> SUFFICES ASSUME NEW y \in Path \ marred', NEW q \in Process, Creating(q, y)
               PROVE  Creating(q, y)'
    OBVIOUS
  <2>1. q # p
    BY <1>1 DEF HalfDone
  <2> QED
    BY <1>1, <1>3, <2>1 DEF Creating
<1>12. UNCHANGED <<files, allowed>> /\ \A i \in D : Has(p, i)
  BY <1>1
<1> QED
  BY <1>3, <1>4, <1>5, <1>6, <1>7, <1>8, <1>9, <1>10, <1>11, <1>12, DroppedInv

-----------------------------------------------------------------------------
(* Every step.                                                             *)
LEMMA OpensInv ==
  ASSUME IInv, NEW p \in Process, Opens(p)
  PROVE  IInv'
<1>1. CASE LockOpened(p) \/ ReadOpened(p)
  BY <1>1, LockOpenedInv, ReadOpenedInv
<1>2. CASE CreateFile(p) \/ LockCreated(p) \/ FillCreated(p)
  BY <1>2, CreateFileInv, LockCreatedInv, FillCreatedInv
<1>3. ASSUME NEW x \in Path, Opening(p, x, None)
      PROVE  IInv'
  BY <1>3, OpeningInv
<1>4. ASSUME NEW r \in Mine(p), NEW c \in Name, Collection(p, r, c)
      PROVE  IInv'
  <2>1. r \in Inner /\ Has(p, r) /\ c \in Path /\ Opening(p, c, r)
    BY <1>4 DEF Mine, Usable, Collection, Path
  <2> QED
    BY <2>1, OpeningInv
<1> QED
  BY <1>1, <1>2, <1>3, <1>4 DEF Opens, PythonOpen, PythonCreate, NodeOpen, NodeCreate, FfiOpen,
     PythonCollection, NodeCollection

\* What a call may write: names it is given, over what the store holds.
LEMMA PutTypes ==
  ASSUME TypeOK, NEW i \in Inner, inners[i] # None, NEW ids \in SUBSET Id, NEW b \in [ids -> Val]
  PROVE  /\ Put(i, b) \in Contents
         /\ \A id \in Id \ ids : Put(i, b)[id] = inners[i].data[id]
<1>1. inners[i].data \in Contents
  BY ObjectTypes
<1> QED
  BY <1>1 DEF Put, Contents
LEMMA WritesInv ==
  ASSUME IInv, NEW p \in Process, Writes(p)
  PROVE  IInv'
<1> PICK i \in Mine(p) :
      \/ PythonSet(p, i) \/ PythonSetItems(p, i) \/ NodeSet(p, i)
      \/ FfiSet(p, i) \/ FfiSetWithText(p, i)
      \/ PythonSetSparse(p, i) \/ PythonSetHybridSparse(p, i)
      \/ NodeSetSparse(p, i) \/ NodeSetHybridSparse(p, i)
      \/ PythonUpdate(p, i) \/ NodeUpdate(p, i) \/ FfiUpdate(p, i)
      \/ PythonDelete(p, i) \/ NodeDelete(p, i) \/ FfiDelete(p, i)
      \/ PythonDeleteByFilter(p, i) \/ NodeDeleteByFilter(p, i) \/ FfiDeleteByFilter(p, i)
      \/ \E j \in Mine(p) : PythonMerge(p, i, j) \/ NodeMerge(p, i, j)
  BY DEF Writes
<1>1. TypeOK /\ i \in Inner /\ Usable(p, i) /\ inners[i] # None
  BY DEF Mine, Usable, Has, IInv
<1>2. inners[i].data \in Contents
  BY <1>1, ObjectTypes
<1>3. ASSUME NEW b \in Batch, NEW logged \in BOOLEAN,
             Write(p, i, DOMAIN b, Put(i, b), logged)
      PROVE  IInv'
  <2>1. PICK ids \in SUBSET Id : b \in [ids -> Val]
    BY DEF Batch
  <2>2. DOMAIN b = ids
    BY <2>1
  <2> QED
    BY <1>1, <1>3, <2>1, <2>2, PutTypes, WriteInv
<1>4. ASSUME NEW id \in Id, NEW v \in Val, Write(p, i, {id}, Put(i, [x \in {id} |-> v]), TRUE)
      PROVE  IInv'
  <2> DEFINE logged == TRUE
  <2>3. logged \in BOOLEAN
    OBVIOUS
  <2> PICK b \in [{id} -> Val] : b = [x \in {id} |-> v]
    OBVIOUS
  <2>1. /\ {id} \in SUBSET Id /\ Put(i, b) \in Contents
        /\ \A other \in Id \ {id} : Put(i, b)[other] = inners[i].data[other]
    BY <1>1, PutTypes
  <2>2. Write(p, i, {id}, Put(i, b), logged)
    BY <1>4
  <2> HIDE DEF logged
  <2> QED
    BY <1>1, <2>1, <2>2, <2>3, WriteInv
<1>5. Present(i) \subseteq Id
  BY DEF Present
<1>6. ASSUME Updating(p, i)
      PROVE  IInv'
  BY <1>4, <1>5, <1>6 DEF Updating
<1>7. ASSUME Deleting(p, i)
      PROVE  IInv'
  <2> PICK ids \in (SUBSET Present(i)) \ {{}} :
        Write(p, i, ids, [id \in Id |-> IF id \in ids THEN None ELSE inners[i].data[id]], TRUE)
    BY <1>7 DEF Deleting
  <2> DEFINE new == [id \in Id |-> IF id \in ids THEN None ELSE inners[i].data[id]]
  <2>1. new \in Contents /\ \A id \in Id \ ids : new[id] = inners[i].data[id]
    BY <1>2 DEF Contents
  <2> DEFINE logged == TRUE
  <2>3. logged \in BOOLEAN
    OBVIOUS
  <2>2. Write(p, i, ids, new, logged) /\ ids \in SUBSET Id
    BY <1>5
  <2> HIDE DEF new, logged
  <2> QED
    BY <1>1, <2>1, <2>2, <2>3, WriteInv
<1>8. ASSUME NEW j \in Mine(p), Merging(p, i, j)
      PROVE  IInv'
  <2> DEFINE ids == Present(j) \ Present(i)
             new == [id \in Id |-> IF id \in ids THEN inners[j].data[id] ELSE inners[i].data[id]]
  <2>1. inners[j].data \in Contents
    BY <1>1, ObjectTypes DEF Mine, Usable, Has
  <2>2. ids \in SUBSET Id
    BY DEF Present
  <2> PICK logged \in BOOLEAN : logged = FALSE
    OBVIOUS
  <2>3. Write(p, i, ids, new, logged)
    BY <1>8 DEF Merging
  <2> HIDE DEF ids
  <2>4. new \in Contents /\ \A id \in Id \ ids : new[id] = inners[i].data[id]
    BY <1>2, <2>1 DEF Contents
  <2> HIDE DEF new
  <2> QED
    BY <1>1, <2>2, <2>3, <2>4, WriteInv
<1>9. CASE SettingOne(p, i)
  BY <1>4, <1>9 DEF SettingOne
<1>10. CASE OneByOne(p, i)
  BY <1>3, <1>10 DEF OneByOne
<1>11. CASE Unlogged(p, i)
  BY <1>3, <1>11 DEF Unlogged
<1> QED
  BY <1>6, <1>7, <1>8, <1>9, <1>10, <1>11 DEF PythonSet, PythonSetItems, NodeSet, FfiSet,
     FfiSetWithText, PythonSetSparse, PythonSetHybridSparse, NodeSetSparse, NodeSetHybridSparse,
     PythonUpdate, NodeUpdate, FfiUpdate, PythonDelete, NodeDelete, FfiDelete,
     PythonDeleteByFilter, NodeDeleteByFilter, FfiDeleteByFilter, PythonMerge, NodeMerge
LEMMA CheckpointsInv ==
  ASSUME IInv, NEW p \in Process, Checkpoints(p)
  PROVE  IInv'
<1>1. CASE Publish(p)
  BY <1>1, PublishInv
<1>2. CASE Relock(p) \/ Truncate(p)
  BY <1>2, RelockInv, TruncateInv
<1>3. ASSUME NEW i \in Mine(p), NEW closing \in BOOLEAN, BeginFlush(p, i, closing)
      PROVE  IInv'
  <2>1. i \in Inner /\ Usable(p, i)
    BY DEF Mine
  <2> QED
    BY <1>3, <2>1, BeginFlushInv
<1> QED
  BY <1>1, <1>2, <1>3 DEF Checkpoints, PythonFlush, PythonExit, NodeFlush, FfiFlush,
     PythonSearchText, PythonSearchHybrid, NodeSearchText, NodeSearchHybrid, PythonClose, NodeClose
LEMMA NextInv ==
  ASSUME IInv, [Next]_vars
  PROVE  IInv'
<1>1. CASE UNCHANGED vars
  <2>1. UNCHANGED <<files, inners, at, cursor, marred, allowed>>
    BY <1>1 DEF vars
  <2>2. cursor' \in [Process -> Cursor \cup {None}]
    BY <2>1 DEF IInv, TypeOK
  <2>3. \A q \in Process : cursor'[q] # None => Has(q, cursor'[q].inner)
    BY <2>1, CursorTypes DEF IInv
  <2>4. CursorsSound'
    BY <2>1 DEF CursorsSound, IInv, Present
  <2> QED
    BY <2>1, <2>2, <2>3, <2>4, CursorFrame
<1>2. CASE Next
  <2> PICK p \in Process : Opens(p) \/ Writes(p) \/ Checkpoints(p) \/ Removals(p) \/ Iterations(p)
    BY <1>2 DEF Next
  <2>1. CASE Opens(p)
    BY <2>1, OpensInv
  <2>2. CASE Writes(p)
    BY <2>2, WritesInv
  <2>3. CASE Checkpoints(p)
    BY <2>3, CheckpointsInv
  <2>4. CASE Removals(p)
    <3>1. CASE FinishDelete(p)
      BY <3>1, FinishDeleteInv
    <3>2. CASE Crash(p)
      BY <3>2, CrashInv
    <3>3. CASE \E i \in Inner : Collected(p, i) \/ FfiClose(p, i)
      BY <3>3, DroppingInv DEF Collected, FfiClose
    <3>4. CASE \E r \in Inner, c \in Name : DeleteCollection(p, r, c)
      BY <3>4, DeleteCollectionInv
    <3> QED
      BY <2>4, <3>1, <3>2, <3>3, <3>4 DEF Removals
  <2>5. CASE Iterations(p)
    BY <2>5, PythonNextInv, PythonIterateInv DEF Iterations, Mine
  <2> QED
    BY <2>1, <2>2, <2>3, <2>4, <2>5
<1> QED
  BY <1>1, <1>2
LEMMA InitInv ==
  ASSUME Init
  PROVE  IInv
<1>1. Blank \in Overlay /\ Idle \in Call
  BY DEF Blank, Overlay, Call
<1>2. [omen |-> None, gen |-> 0, log |-> Blank, era |-> 0] \in File
  BY <1>1 DEF File
<1>3. TypeOK
  BY <1>1, <1>2 DEF Init, TypeOK
<1>4. CallsSound
  BY DEF Init, CallsSound, CallSound, Opener, Publisher, Idle
<1>5. RoomLeft
  <2>1. Openers = {}
    BY DEF Init, Openers, Opener, Idle
  <2>2. Cardinality(Openers) = 0
    BY <2>1, FS_EmptySet
  <2> QED
    BY <2>2, PartsCounted DEF RoomLeft
<1>6. InodesSound
  BY DEF Init, InodesSound, InodeSound, Opener, Idle
<1>7. OneOwner /\ OwnersHold
  BY DEF Init, OneOwner, OwnersHold, Live
<1>8. RemovalsComplete
  BY DEF Init, RemovalsComplete, Unlinking, Idle
<1>9. AcknowledgedSurvive
  BY DEF Init, AcknowledgedSurvive, Exists
<1>10. CursorsSound
  BY DEF Init, CursorsSound
<1>11. Apart
  BY DEF Init, Apart, HoldersApart, HoldersAlone, CreationsAlone, Holds, Creating, Idle
<1> QED
  BY <1>3, <1>4, <1>5, <1>6, <1>7, <1>8, <1>9, <1>10, <1>11 DEF IInv

-----------------------------------------------------------------------------
(* The theorems.                                                           *)

\* Every reachable state satisfies the inductive invariant: what the calls, files,
\* objects and iterators of the bindings are to each other between any two steps.
THEOREM Invariance == Spec => []IInv
<1>1. Init => IInv
  BY InitInv
<1>2. IInv /\ [Next]_vars => IInv'
  BY NextInv
<1> QED
  BY <1>1, <1>2, PTL DEF Spec

\* Files, objects, calls and iterators have their types, and every object that a cache
\* or an iterator refers to is alive, in the process that refers to it.
THEOREM TypeCorrect == Spec => []TypeOK
<1>1. IInv => TypeOK
  BY DEF IInv
<1> QED
  BY <1>1, Invariance, PTL

\* Two open stores never share a path, but for the hazards that leave it marred.
THEOREM OneOwnerCorrect == Spec => []OneOwner
<1>1. IInv => OneOwner
  BY DEF IInv
<1> QED
  BY <1>1, Invariance, PTL

\* What was logged or published is what the next open of a path that is not marred loads,
\* whatever was closed, dropped or deleted since, and whichever process died outside the
\* windows of HalfDone.
THEOREM AcknowledgedCorrect == Spec => []AcknowledgedSurvive
<1>1. IInv => AcknowledgedSurvive
  BY DEF IInv
<1> QED
  BY <1>1, Invariance, PTL

\* An iterator that has ended gave every name that was there throughout.
THEOREM IterationCorrect == Spec => []IterationComplete
<1>1. IInv => IterationComplete
  BY DEF IInv, CursorsSound, IterationComplete
<1> QED
  BY <1>1, Invariance, PTL

=============================================================================
