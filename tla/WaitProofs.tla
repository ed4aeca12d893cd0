----------------------------- MODULE WaitProofs -----------------------------
(***************************************************************************)
(* The finalizer protocol and delete_and_finalize, proved for any number   *)
(* of writes and of late patches, whatever finalizers users create objects *)
(* with: an object goes uncleaned only if a patch for an earlier           *)
(* incarnation took its finalizer, nobody else's finalizer is lost, and    *)
(* delete_and_finalize does not report too early.                          *)
(***************************************************************************)
EXTENDS Wait, SequenceTheorems, TLAPS

\* Every list of finalizers that can come about.
Lists == {<<>>, <<Other>>, <<Name>>, <<Name, Other>>, <<Other, Name>>}

Objects == {o \in [uid : Nat, finalizers : Lists, deleting : BOOLEAN, exists : BOOLEAN] :
              o.exists <=> ~o.deleting \/ o.finalizers # <<>>}

Patches == [op : {"add", "remove"}, obj : Nat, late : Nat]

TypeOK ==
    /\ versions \in Seq(Objects) /\ Len(versions) \in Nat
    /\ obj \in 1..cached /\ cached \in 1..Len(versions)
    /\ pc \in {"idle", "applying", "cleaning", "patching"}
    /\ inflight \in SUBSET Patches
    /\ \A p \in inflight : p.obj \in 1..cached
    /\ dirty \in SUBSET Nat

\* How the versions of the object follow each other: incarnations come one after the
\* other, a deletion is never taken back, and what is gone does not come back.
VersionsInOrder ==
    \A i, j \in 1..Len(versions) : i < j =>
      /\ versions[i].uid <= versions[j].uid
      /\ versions[i].uid = versions[j].uid /\ versions[i].deleting => versions[j].deleting
      /\ ~versions[i].exists => versions[i].uid < versions[j].uid

Listed(i) == HasFinalizer(versions[i])
Blocked(i) == Listed(i) /\ versions[i].deleting
Guarded(u) == Current.uid = u /\ HasFinalizer(Current)

\* An incarnation that listed the finalizer lists it still, unless it was stripped of it
\* or the store holds a version of it that is to be cleaned up, or a later one.
StillGuarded ==
    \A i \in 1..Len(versions) : Listed(i) =>
      \/ versions[i].uid \in stripped
      \/ Guarded(versions[i].uid)
      \/ \E k \in 1..cached : Blocked(k) /\ versions[k].uid = versions[i].uid

\* Whether its caller still waits or not, a patch that adds was made for an object without
\* the finalizer, and one that removes for one that was cleaned up for good.
PatchesAreSafe ==
    \A p \in inflight :
      /\ p.op = "add" => ~Listed(p.obj)
      /\ p.op = "remove" => Blocked(p.obj) /\ versions[p.obj].uid \notin dirty

CleanupIsDue == pc = "cleaning" => Blocked(obj)

DirtyIsGuarded == \A u \in dirty : u \in stripped \/ Guarded(u)

IInv == /\ TypeOK /\ VersionsInOrder /\ StillGuarded
        /\ PatchesAreSafe /\ CleanupIsDue /\ DirtyIsGuarded

\* The watch has reported nothing that is older than what was deleted.
WatchIsAfter ==
    /\ stage \in {"called", "waiting", "Ok", "Err"} /\ uid \in Nat /\ seen \in 0..Len(versions)
    /\ stage = "called" => seen = 0
    /\ stage = "waiting" => /\ uid <= Current.uid
                            /\ seen # 0 => uid <= versions[seen].uid
    /\ stage = "Ok" => uid < Current.uid \/ (uid = Current.uid /\ ~Current.exists)

-----------------------------------------------------------------------------
(* Lists of finalizers                                                     *)

\* What the lists hold, and how long they are
LEMMA Containment ==
  ASSUME NEW f \in Lists
  PROVE  /\ Contains(f, Name) <=> f \in {<<Name>>, <<Name, Other>>, <<Other, Name>>}
         /\ Contains(f, Other) <=> f \in {<<Other>>, <<Name, Other>>, <<Other, Name>>}
         /\ Len(f) \in 0..2 /\ (Len(f) = 0 <=> f = <<>>)
         /\ \A i \in 1..Len(f) : f[i] \in {Name, Other}
  BY FinalizerAssumption DEF Lists, Contains

\* Two elements as a sequence
LEMMA PairIsSeq ==
  ASSUME NEW S, NEW a \in S, NEW b \in S
  PROVE  <<a, b>> \in Seq(S) /\ <<a, b>> = Append(<<a>>, b)
<1>1. <<a, b>> \in Seq(S)
  OBVIOUS
<1>2. <<a, b>> = Append(<<a>>, b)
  OBVIOUS
<1> QED
  BY <1>1, <1>2

\* Sequences of one and of two elements
LEMMA ShortSeq ==
  ASSUME NEW S, NEW s \in Seq(S)
  PROVE  /\ Len(s) = 0 => s = <<>>
         /\ Len(s) = 1 => s = <<s[1]>>
         /\ Len(s) = 2 => s = <<s[1], s[2]>>
<1>1. CASE Len(s) = 0
  BY <1>1, EmptySeq, LenProperties
<1>2. CASE Len(s) = 1
  <2>1. <<s[1]>> \in Seq(S)
    BY <1>2
  <2> QED
    BY <1>2, <2>1, SeqEqual
<1>3. CASE Len(s) = 2
  <2>1. s[1] \in S /\ s[2] \in S
    BY <1>3, ElementOfSeq
  <2>2. <<s[1], s[2]>> \in Seq(S)
    BY <2>1, PairIsSeq
  <2> QED
    BY <1>3, <2>2, SeqEqual
<1> QED
  BY <1>1, <1>2, <1>3

\* Two sequences of one element
LEMMA ConcatSingles ==
  ASSUME NEW S, NEW a \in S, NEW b \in S
  PROVE  <<a>> \o <<b>> = <<a, b>>
<1> DEFINE s == <<a>> \o <<b>>
<1>1. <<a>> \in Seq(S) /\ <<b>> \in Seq(S) /\ Len(<<a>>) = 1 /\ Len(<<b>>) = 1
  OBVIOUS
<1>2. s \in Seq(S) /\ Len(s) = 2 /\ s[1] = a /\ s[2] = b
  BY <1>1, ConcatProperties
<1> HIDE DEF s
<1>3. s = <<a, b>>
  BY <1>2, ShortSeq
<1> QED
  BY <1>3 DEF s

\* The elements that are left after one was removed by its index
LEMMA RemoveAtElements ==
  ASSUME NEW S, NEW s \in Seq(S), NEW i \in 1..Len(s)
  PROVE  /\ RemoveAt(s, i) \in Seq(S)
         /\ Len(RemoveAt(s, i)) = Len(s) - 1
         /\ \A j \in 1..(Len(s) - 1) : RemoveAt(s, i)[j] = IF j < i THEN s[j] ELSE s[j + 1]
<1> DEFINE a == SubSeq(s, 1, i - 1)
           b == SubSeq(s, i + 1, Len(s))
<1>1. Len(s) \in Nat /\ \A j \in 1..Len(s) : s[j] \in S
  BY LenProperties, ElementOfSeq
<1>2. a \in Seq(S) /\ Len(a) = i - 1 /\ \A j \in 1..(i - 1) : a[j] = s[j]
  BY <1>1, SubSeqProperties
<1>3. b \in Seq(S) /\ Len(b) = Len(s) - i /\ \A j \in 1..(Len(s) - i) : b[j] = s[i + j]
  BY <1>1, SubSeqProperties
<1> HIDE DEF a, b
<1>4. /\ a \o b \in Seq(S) /\ Len(a \o b) = Len(a) + Len(b)
      /\ \A j \in 1..(Len(a) + Len(b)) : (a \o b)[j] = IF j <= Len(a) THEN a[j] ELSE b[j - Len(a)]
  BY <1>2, <1>3, ConcatProperties
<1>5. \A j \in 1..(Len(s) - 1) : (a \o b)[j] = IF j < i THEN s[j] ELSE s[j + 1]
  <2> SUFFICES ASSUME NEW j \in 1..(Len(s) - 1)
               PROVE  (a \o b)[j] = IF j < i THEN s[j] ELSE s[j + 1]
    OBVIOUS
  <2>1. Len(a) + Len(b) = Len(s) - 1 /\ j \in 1..(Len(a) + Len(b))
    BY <1>1, <1>2, <1>3
  <2>2. (a \o b)[j] = IF j <= Len(a) THEN a[j] ELSE b[j - Len(a)]
    BY <1>4, <2>1
  <2>3. CASE j < i
    <3>1. j \in 1..(i - 1) /\ j <= Len(a)
      BY <1>2, <2>3
    <3> QED
      BY <1>2, <2>2, <2>3, <3>1
  <2>4. CASE ~(j < i)
    <3>1. /\ ~(j <= Len(a)) /\ j - Len(a) \in 1..(Len(s) - i)
          /\ i + (j - Len(a)) = j + 1
      BY <1>1, <1>2, <2>4
    <3>2. b[j - Len(a)] = s[i + (j - Len(a))]
      BY <1>3, <3>1
    <3> QED
      BY <2>2, <2>4, <3>1, <3>2
  <2> QED
    BY <2>3, <2>4
<1>6. RemoveAt(s, i) = a \o b
  BY DEF RemoveAt, a, b
<1> QED
  BY <1>1, <1>2, <1>3, <1>4, <1>5, <1>6

\* The lists are sequences of the two finalizers.
LEMMA ListIsSeq ==
  ASSUME NEW f \in Lists
  PROVE  f \in Seq({Name, Other})
<1>1. Name \in {Name, Other} /\ Other \in {Name, Other}
  OBVIOUS
<1>2. <<Name, Other>> \in Seq({Name, Other}) /\ <<Other, Name>> \in Seq({Name, Other})
  BY <1>1, PairIsSeq
<1>3. /\ <<>> \in Seq({Name, Other})
      /\ <<Name>> \in Seq({Name, Other}) /\ <<Other>> \in Seq({Name, Other})
  OBVIOUS
<1> QED
  BY <1>2, <1>3 DEF Lists

\* The patch that adds
LEMMA Appended ==
  ASSUME NEW f \in Lists, ~Contains(f, Name)
  PROVE  /\ Append(f, Name) \in Lists
         /\ Contains(Append(f, Name), Name)
         /\ Contains(Append(f, Name), Other) <=> Contains(f, Other)
<1>1. f \in {<<>>, <<Other>>}
  BY Containment DEF Lists
<1>2. CASE f = <<>>
  BY <1>2, FinalizerAssumption DEF Lists, Contains
<1>3. CASE f = <<Other>>
  <2>1. \A a, b \in {Name, Other} : <<a, b>> = Append(<<a>>, b)
    BY PairIsSeq
  <2>2. Append(f, Name) = <<Other, Name>>
    BY <1>3, <2>1
  <2> QED
    BY <1>3, <2>2, Containment DEF Lists
<1> QED
  BY <1>1, <1>2, <1>3

\* Another controller adds its finalizer
LEMMA OtherAdded ==
  ASSUME NEW f \in Lists, ~Contains(f, Other), NEW g \in {f \o <<Other>>, <<Other>> \o f}
  PROVE  g \in Lists /\ (Contains(g, Name) <=> Contains(f, Name))
<1>1. f \in {<<>>, <<Name>>}
  BY Containment DEF Lists
<1>2. CASE f = <<>>
  <2>1. g = <<Other>>
    BY <1>2
  <2> QED
    BY <1>2, <2>1, FinalizerAssumption DEF Lists, Contains
<1>3. CASE f = <<Name>>
  <2>1. <<Name>> \o <<Other>> = <<Name, Other>> /\ <<Other>> \o <<Name>> = <<Other, Name>>
    <3>1. \A a, b \in {Name, Other} : <<a>> \o <<b>> = <<a, b>>
      BY ConcatSingles
    <3> QED
      BY <3>1
  <2>2. g \in {<<Name, Other>>, <<Other, Name>>}
    BY <1>3, <2>1
  <2>3. g \in Lists
    BY <2>2 DEF Lists
  <2> QED
    BY <1>3, <2>2, <2>3, Containment
<1> QED
  BY <1>1, <1>2, <1>3

\* The list without the entry at an index
LEMMA Removed ==
  ASSUME NEW f \in Lists, NEW i \in 1..Len(f)
  PROVE  /\ RemoveAt(f, i) \in Lists
         /\ f[i] = Other => (Contains(RemoveAt(f, i), Name) <=> Contains(f, Name))
         /\ f[i] = Name => /\ Contains(RemoveAt(f, i), Other) <=> Contains(f, Other)
                           /\ ~Contains(RemoveAt(f, i), Name)
<1> DEFINE g == RemoveAt(f, i)
<1>1. /\ g \in Seq({Name, Other}) /\ Len(g) = Len(f) - 1
      /\ \A j \in 1..(Len(f) - 1) : g[j] = IF j < i THEN f[j] ELSE f[j + 1]
  BY ListIsSeq, RemoveAtElements
<1> HIDE DEF g
<1>2. CASE Len(f) = 1
  <2>1. g = <<>> /\ f \in {<<Name>>, <<Other>>} /\ i = 1
    BY <1>1, <1>2, ShortSeq DEF Lists
  <2> QED
    BY <2>1, FinalizerAssumption DEF Lists, Contains, g
<1>3. CASE Len(f) = 2
  <2>1. f \in {<<Name, Other>>, <<Other, Name>>} /\ i \in {1, 2}
    BY <1>3 DEF Lists
  <2>2. g = <<g[1]>> /\ g[1] = IF i = 1 THEN f[2] ELSE f[1]
    BY <1>1, <1>3, <2>1, ShortSeq
  <2>3. f[i] = Other => g = <<Name>>
    BY <2>1, <2>2, FinalizerAssumption
  <2>4. f[i] = Name => g = <<Other>>
    BY <2>1, <2>2, FinalizerAssumption
  <2>5. f[i] \in {Name, Other}
    BY <2>1
  <2>6. Contains(f, Name) /\ Contains(f, Other)
    BY <2>1, Containment
  <2>7. Name # Other
    BY FinalizerAssumption
  <2>8. <<Name>> \in Lists /\ <<Other>> \in Lists
    BY DEF Lists
  <2>9. Contains(<<Name>>, Name) /\ ~Contains(<<Other>>, Name) /\ Contains(<<Other>>, Other)
    <3>1. <<Other>> \notin {<<Name>>, <<Name, Other>>, <<Other, Name>>}
      BY <2>7
    <3> QED
      BY <2>8, <3>1, Containment
  <2> QED
    BY <2>3, <2>4, <2>5, <2>6, <2>7, <2>8, <2>9 DEF g
<1> QED
  BY <1>2, <1>3, Containment

\* for_object finds the finalizer where it is listed.
LEMMA IndexFound ==
  ASSUME NEW o \in Objects, HasFinalizer(o)
  PROVE  finalizer_index(o) \in 1..Len(o.finalizers) /\ o.finalizers[finalizer_index(o)] = Name
<1> DEFINE f == o.finalizers
           First(i) == f[i] = Name /\ \A j \in 1..(i - 1) : f[j] # Name
<1>1. f \in Lists /\ Contains(f, Name)
  BY DEF Objects, HasFinalizer
<1>2. \E i \in 1..Len(f) : First(i)
  <2>1. CASE f = <<Other, Name>>
    BY <2>1, FinalizerAssumption
  <2>2. CASE f \in {<<Name>>, <<Name, Other>>}
    BY <2>2
  <2> QED
    BY <1>1, <2>1, <2>2, Containment
<1> HIDE DEF f
<1> QED
  BY <1>2 DEF finalizer_index, f

-----------------------------------------------------------------------------
(* How the object changes                                                  *)

\* The fields of an object
LEMMA ObjectType ==
  ASSUME NEW u \in Nat, NEW f \in Lists, NEW d \in BOOLEAN
  PROVE  /\ Object(u, f, d) \in Objects
         /\ Object(u, f, d).uid = u
         /\ Object(u, f, d).finalizers = f
         /\ Object(u, f, d).deleting = d
  BY DEF Object, Objects

\* The object as it is now, by its type
LEMMA CurrentType ==
  ASSUME TypeOK
  PROVE  /\ Current \in Objects /\ Current.uid \in Nat /\ Current.finalizers \in Lists
         /\ Current.deleting \in BOOLEAN /\ Current.exists \in BOOLEAN
         /\ HasFinalizer(Current) => Current.exists
         /\ Current.exists <=> ~Current.deleting \/ Current.finalizers # <<>>
         /\ Len(versions) \in Nat /\ Len(versions) >= 1
         /\ \A i \in 1..Len(versions) : versions[i] \in Objects
<1>1. Len(versions) \in Nat /\ Len(versions) >= 1
  BY DEF TypeOK
<1>2. \A i \in 1..Len(versions) : versions[i] \in Objects
  BY ElementOfSeq DEF TypeOK
<1>3. Current \in Objects
  BY <1>1, <1>2 DEF Current
<1>4. ~Contains(<<>>, Name)
  BY DEF Contains
<1> QED
  BY <1>1, <1>2, <1>3, <1>4 DEF Objects, HasFinalizer

\* The object with the same finalizer, or deleted
Kept(o) == /\ Current.exists
           /\ o.uid = Current.uid
           /\ HasFinalizer(o) <=> HasFinalizer(Current)
           /\ Current.deleting => o.deleting

\* Created again
Created(o) == /\ ~Current.exists
              /\ o.uid = Current.uid + 1
              /\ ~o.deleting

\* The finalizer added
Added(o) == /\ Current.exists
            /\ o.uid = Current.uid
            /\ ~Current.deleting /\ ~o.deleting
            /\ ~HasFinalizer(Current) /\ HasFinalizer(o)

\* The finalizer removed
Freed(o) == /\ o.uid = Current.uid
            /\ HasFinalizer(Current) /\ ~HasFinalizer(o)
            /\ o.deleting <=> Current.deleting

\* The server and its other users keep the finalizer, or create the object anew.
LEMMA ServerStep ==
  ASSUME TypeOK, Delete \/ Recreate \/ AddOther \/ RemoveOther
  PROVE  \E o \in Objects : versions' = Append(versions, o) /\ (Kept(o) \/ Created(o))
<1> USE DEF Store, HasFinalizer
<1>1. CASE Delete
  <2> DEFINE o == Object(Current.uid, Current.finalizers, TRUE)
  <2>1. o \in Objects /\ o.uid = Current.uid /\ o.finalizers = Current.finalizers /\ o.deleting
    BY CurrentType, ObjectType
  <2>2. versions' = Append(versions, o) /\ Current.exists
    BY <1>1 DEF Delete
  <2> HIDE DEF o
  <2> QED
    BY <2>1, <2>2 DEF Kept
<1>2. CASE Recreate
  <2>1. PICK f \in FinalizerLists : Store(Object(Current.uid + 1, f, FALSE))
    BY <1>2 DEF Recreate
  <2> DEFINE o == Object(Current.uid + 1, f, FALSE)
  <2>2. f \in Lists
    BY FinalizerAssumption DEF FinalizerLists, Lists
  <2>4. o \in Objects /\ o.uid = Current.uid + 1 /\ ~o.deleting
    <3>1. Current.uid + 1 \in Nat
      BY CurrentType
    <3> QED
      BY <2>2, <3>1, ObjectType
  <2>5. versions' = Append(versions, o) /\ ~Current.exists
    BY <1>2, <2>1 DEF Recreate
  <2> HIDE DEF o
  <2> QED
    BY <2>4, <2>5 DEF Created
<1>3. CASE AddOther
  <2>1. PICK f \in {Current.finalizers \o <<Other>>, <<Other>> \o Current.finalizers} :
               Store(Object(Current.uid, f, FALSE))
    BY <1>3 DEF AddOther
  <2> DEFINE o == Object(Current.uid, f, FALSE)
  <2>2. f \in Lists /\ (Contains(f, Name) <=> Contains(Current.finalizers, Name))
    BY <1>3, CurrentType, OtherAdded DEF AddOther
  <2>3. o \in Objects /\ o.uid = Current.uid /\ o.finalizers = f /\ ~o.deleting
    BY <2>2, CurrentType, ObjectType
  <2>4. versions' = Append(versions, o) /\ Current.exists /\ ~Current.deleting
    BY <1>3, <2>1 DEF AddOther
  <2> HIDE DEF o
  <2> QED
    BY <2>2, <2>3, <2>4 DEF Kept
<1>4. CASE RemoveOther
  <2>1. PICK i \in 1..Len(Current.finalizers) :
               /\ Current.finalizers[i] = Other
               /\ Store(Object(Current.uid, RemoveAt(Current.finalizers, i), Current.deleting))
    BY <1>4 DEF RemoveOther
  <2> DEFINE f == RemoveAt(Current.finalizers, i)
             o == Object(Current.uid, f, Current.deleting)
  <2>2. f \in Lists /\ (Contains(f, Name) <=> Contains(Current.finalizers, Name))
    BY <2>1, CurrentType, Removed
  <2>3. Current.exists
    <3>1. Current.finalizers # <<>>
      BY <2>1, CurrentType, Containment
    <3> QED
      BY <3>1, CurrentType
  <2> HIDE DEF f
  <2>4. o \in Objects /\ o.uid = Current.uid /\ o.finalizers = f /\ o.deleting = Current.deleting
    BY <2>2, CurrentType, ObjectType
  <2>5. versions' = Append(versions, o)
    BY <2>1 DEF f
  <2> HIDE DEF o
  <2> QED
    BY <2>2, <2>3, <2>4, <2>5 DEF Kept
<1> QED
  BY <1>1, <1>2, <1>3, <1>4

\* The patch that adds the finalizer, and keeps the others
LEMMA PatchAddStep ==
  ASSUME TypeOK, PatchesAreSafe, NEW p \in inflight, PatchAdd(p)
  PROVE  \E o \in Objects : /\ versions' = Append(versions, o) /\ Added(o)
                            /\ Contains(o.finalizers, Other) <=> Contains(Current.finalizers, Other)
<1> USE DEF HasFinalizer
<1>1. /\ Current.exists /\ ~Current.deleting
      /\ Current.finalizers = versions[p.obj].finalizers
      /\ ~Contains(Current.finalizers, Name)
  BY DEF PatchAdd, TestAdd, PatchesAreSafe, Listed
<1> DEFINE f == Append(Current.finalizers, Name)
           o == Object(Current.uid, f, FALSE)
<1>2. /\ f \in Lists /\ Contains(f, Name)
      /\ Contains(f, Other) <=> Contains(Current.finalizers, Other)
  BY <1>1, CurrentType, Appended
<1>3. versions' = Append(versions, o)
  BY DEF PatchAdd, Store
<1> HIDE DEF f
<1>4. o \in Objects /\ o.uid = Current.uid /\ o.finalizers = f /\ ~o.deleting
  BY <1>2, CurrentType, ObjectType
<1> HIDE DEF o
<1> QED
  BY <1>1, <1>2, <1>3, <1>4 DEF Added

\* The patch that removes the finalizer, and keeps the others
LEMMA PatchRemoveStep ==
  ASSUME TypeOK, PatchesAreSafe, NEW p \in inflight, PatchRemove(p)
  PROVE  \E o \in Objects : /\ versions' = Append(versions, o) /\ Freed(o)
                            /\ Contains(o.finalizers, Other) <=> Contains(Current.finalizers, Other)
<1> USE DEF HasFinalizer
<1> DEFINE i == finalizer_index(versions[p.obj])
           f == RemoveAt(Current.finalizers, i)
           o == Object(Current.uid, f, Current.deleting)
<1>1. versions[p.obj] \in Objects /\ HasFinalizer(versions[p.obj])
  <2>1. p.obj \in 1..Len(versions)
    BY DEF TypeOK
  <2> QED
    BY <2>1, CurrentType DEF PatchRemove, PatchesAreSafe, Blocked, Listed
<1>2. i \in 1..Len(versions[p.obj].finalizers) /\ Len(versions[p.obj].finalizers) \in Nat
  BY <1>1, IndexFound, Containment DEF Objects
<1>3. i <= Len(Current.finalizers) /\ Current.finalizers[i] = Name /\ versions' = Append(versions, o)
  BY DEF PatchRemove, TestRemove, Store
<1> HIDE DEF i
<1>4. i \in 1..Len(Current.finalizers)
  BY <1>2, <1>3, CurrentType, Containment
<1>5. /\ f \in Lists /\ ~Contains(f, Name)
      /\ Contains(f, Other) <=> Contains(Current.finalizers, Other)
  BY <1>3, <1>4, CurrentType, Removed
<1>6. Contains(Current.finalizers, Name)
  BY <1>3, <1>4 DEF Contains
<1> HIDE DEF f
<1>7. o \in Objects /\ o.uid = Current.uid /\ o.finalizers = f /\ o.deleting = Current.deleting
  BY <1>5, CurrentType, ObjectType
<1> HIDE DEF o
<1> QED
  BY <1>3, <1>5, <1>6, <1>7 DEF Freed

-----------------------------------------------------------------------------
(* The invariant                                                           *)

\* What a new version leaves as it was
LEMMA NewVersion ==
  ASSUME TypeOK, NEW o \in Objects, versions' = Append(versions, o)
  PROVE  /\ versions' \in Seq(Objects) /\ Len(versions') = Len(versions) + 1
         /\ \A i \in 1..Len(versions) : versions'[i] = versions[i]
         /\ versions'[Len(versions) + 1] = o
         /\ Current' = o
<1>1. /\ versions' \in Seq(Objects) /\ Len(versions') = Len(versions) + 1
      /\ \A i \in 1..Len(versions) : versions'[i] = versions[i]
      /\ versions'[Len(versions) + 1] = o
  BY DEF TypeOK
<1> QED
  BY <1>1 DEF Current

\* A version of the same incarnation that takes no deletion back, or the first of the next
\* incarnation, keeps the order of the versions.
LEMMA NewVersionInOrder ==
  ASSUME TypeOK, VersionsInOrder, NEW o \in Objects, versions' = Append(versions, o),
         \/ o.uid = Current.uid /\ (Current.deleting => o.deleting) /\ Current.exists
         \/ o.uid = Current.uid + 1
  PROVE  VersionsInOrder'
<1> DEFINE n == Len(versions)
<1>1. /\ n \in Nat /\ n >= 1 /\ Len(versions') = n + 1
      /\ \A i \in 1..n : versions'[i] = versions[i] /\ versions[i].uid \in Nat
      /\ versions'[n + 1] = o /\ o.uid \in Nat
  BY NewVersion, CurrentType DEF Objects
<1>2. ASSUME NEW i \in 1..n
      PROVE  /\ versions[i].uid <= Current.uid
             /\ versions[i].uid = Current.uid /\ versions[i].deleting => Current.deleting
             /\ ~versions[i].exists => versions[i].uid < Current.uid \/ ~Current.exists
  <2>1. CASE i = n
    BY <1>1, <2>1 DEF Current
  <2>2. CASE i < n
    BY <1>1, <2>2 DEF Current, VersionsInOrder
  <2> QED
    BY <1>1, <2>1, <2>2
<1>3. ASSUME NEW i \in 1..n
      PROVE  /\ versions[i].uid <= o.uid
             /\ versions[i].uid = o.uid /\ versions[i].deleting => o.deleting
             /\ ~versions[i].exists => versions[i].uid < o.uid
  BY <1>1, <1>2, CurrentType
<1> HIDE DEF n
<1>4. ASSUME NEW i \in 1..(n + 1), NEW j \in 1..(n + 1), i < j
      PROVE  /\ versions'[i].uid <= versions'[j].uid
             /\ versions'[i].uid = versions'[j].uid /\ versions'[i].deleting => versions'[j].deleting
             /\ ~versions'[i].exists => versions'[i].uid < versions'[j].uid
  <2>1. CASE j = n + 1
    BY <1>1, <1>3, <1>4, <2>1
  <2>2. CASE j \in 1..n
    BY <1>1, <1>4, <2>2 DEF VersionsInOrder, n
  <2> QED
    BY <1>1, <2>1, <2>2
<1> QED
  BY <1>1, <1>4 DEF VersionsInOrder

\* A write of another user
LEMMA ServerStepIInv ==
  ASSUME IInv, NEW o \in Objects, versions' = Append(versions, o), Kept(o) \/ Created(o),
         UNCHANGED <<cached, pc, obj, inflight, dirty, stripped>>
  PROVE  IInv'
<1> DEFINE n == Len(versions)
<1> USE DEF IInv, Listed, Blocked, Guarded
<1>1. TypeOK'
  BY NewVersion DEF TypeOK
<1>2. VersionsInOrder'
  BY NewVersionInOrder DEF Kept, Created
<1>3. /\ n \in Nat /\ n >= 1 /\ Len(versions') = n + 1
      /\ \A i \in 1..n : versions'[i] = versions[i]
      /\ versions'[n + 1] = o /\ Current' = o /\ Current = versions[n]
      /\ obj \in 1..n /\ cached \in 1..n /\ obj <= cached
      /\ \A p \in inflight : p.obj \in 1..n
  BY NewVersion, CurrentType DEF TypeOK, Current
<1>4. HasFinalizer(Current) => HasFinalizer(o) /\ o.uid = Current.uid
  BY CurrentType DEF Kept, Created
<1>5. StillGuarded'
  <2> SUFFICES ASSUME NEW i \in 1..(n + 1), HasFinalizer(versions'[i])
               PROVE  \/ versions'[i].uid \in stripped
                      \/ o.uid = versions'[i].uid /\ HasFinalizer(o)
                      \/ \E k \in 1..cached : /\ HasFinalizer(versions'[k]) /\ versions'[k].deleting
                                              /\ versions'[k].uid = versions'[i].uid
    BY <1>3 DEF StillGuarded
  <2>1. CASE i = n + 1
    BY <1>3, <2>1
  <2>2. CASE i \in 1..n
    BY <1>3, <1>4, <2>2 DEF StillGuarded
  <2> QED
    BY <1>3, <2>1, <2>2
<1>6. PatchesAreSafe' /\ CleanupIsDue'
  BY <1>3 DEF PatchesAreSafe, CleanupIsDue
<1>7. DirtyIsGuarded'
  BY <1>3, <1>4 DEF DirtyIsGuarded
<1> QED
  BY <1>1, <1>2, <1>5, <1>6, <1>7

\* After a patch was handled, `finalizer` has returned or was not waiting for it.
LEMMA PatchHandled ==
  ASSUME TypeOK, NEW p \in inflight, ServerHandles(p)
  PROVE  /\ inflight' \subseteq inflight /\ pc' \in {pc, "idle"}
         /\ UNCHANGED <<cached, obj, dirty>>
  BY DEF TypeOK, ServerHandles

\* The patch that adds succeeds: the object has its finalizer, again if it was stripped.
LEMMA PatchAddIInv ==
  ASSUME IInv, NEW p \in inflight, ServerHandles(p), PatchAdd(p)
  PROVE  IInv'
<1> DEFINE n == Len(versions)
<1> USE DEF IInv, Listed, Blocked, Guarded
<1>1. PICK o \in Objects : versions' = Append(versions, o) /\ Added(o)
  BY PatchAddStep
<1>2. /\ inflight' \subseteq inflight /\ pc' \in {pc, "idle"} /\ UNCHANGED <<cached, obj, dirty>>
      /\ stripped' = stripped \ {Current.uid}
  BY PatchHandled DEF PatchAdd
<1>3. /\ n \in Nat /\ n >= 1 /\ Len(versions') = n + 1
      /\ \A i \in 1..n : versions'[i] = versions[i]
      /\ versions'[n + 1] = o /\ Current' = o /\ Current = versions[n]
      /\ obj \in 1..n /\ cached \in 1..n /\ obj <= cached
      /\ \A q \in inflight : q.obj \in 1..n
  BY <1>1, NewVersion, CurrentType DEF TypeOK, Current
<1>4. ~HasFinalizer(Current) /\ HasFinalizer(o) /\ ~o.deleting /\ o.uid = Current.uid
  BY <1>1 DEF Added
<1>5. TypeOK'
  BY <1>1, <1>2, NewVersion DEF TypeOK
<1>6. VersionsInOrder'
  BY <1>1, NewVersionInOrder DEF Added
<1>7. StillGuarded'
  <2> SUFFICES ASSUME NEW i \in 1..(n + 1), HasFinalizer(versions'[i])
               PROVE  \/ versions'[i].uid \in stripped'
                      \/ o.uid = versions'[i].uid /\ HasFinalizer(o)
                      \/ \E k \in 1..cached : /\ HasFinalizer(versions'[k]) /\ versions'[k].deleting
                                              /\ versions'[k].uid = versions'[i].uid
    BY <1>2, <1>3 DEF StillGuarded
  <2>1. CASE i = n + 1
    BY <1>3, <2>1
  <2>2. CASE i \in 1..n
    BY <1>2, <1>3, <1>4, <2>2 DEF StillGuarded
  <2> QED
    BY <1>3, <2>1, <2>2
<1>8. PatchesAreSafe' /\ CleanupIsDue'
  BY <1>2, <1>3 DEF PatchesAreSafe, CleanupIsDue
<1>9. DirtyIsGuarded'
  BY <1>2, <1>3, <1>4 DEF DirtyIsGuarded
<1> QED
  BY <1>5, <1>6, <1>7, <1>8, <1>9

\* The patch that removes succeeds: it frees the incarnation that was cleaned up, or it
\* strips a later one.
LEMMA PatchRemoveIInv ==
  ASSUME IInv, NEW p \in inflight, ServerHandles(p), PatchRemove(p)
  PROVE  IInv'
<1> DEFINE n == Len(versions)
<1> USE DEF IInv, Listed, Blocked, Guarded
<1>1. PICK o \in Objects : versions' = Append(versions, o) /\ Freed(o)
  BY PatchRemoveStep
<1>2. /\ inflight' \subseteq inflight /\ pc' \in {pc, "idle"} /\ UNCHANGED <<cached, obj, dirty>>
      /\ \/ versions[p.obj].uid = Current.uid /\ stripped' = stripped
         \/ stripped' = stripped \cup {Current.uid}
  BY PatchHandled DEF PatchRemove
<1>3. /\ n \in Nat /\ n >= 1 /\ Len(versions') = n + 1
      /\ \A i \in 1..n : versions'[i] = versions[i]
      /\ versions'[n + 1] = o /\ Current' = o /\ Current = versions[n]
      /\ obj \in 1..n /\ cached \in 1..n /\ obj <= cached
      /\ \A q \in inflight : q.obj \in 1..n /\ q.obj \in 1..cached
  BY <1>1, NewVersion, CurrentType DEF TypeOK, Current
<1>4. /\ HasFinalizer(Current) /\ ~HasFinalizer(o) /\ o.uid = Current.uid
      /\ Current.deleting <=> o.deleting
  BY <1>1 DEF Freed
<1>5. Blocked(p.obj) /\ versions[p.obj].uid \notin dirty
  BY DEF PatchRemove, PatchesAreSafe
<1>6. TypeOK'
  BY <1>1, <1>2, NewVersion DEF TypeOK
<1>7. VersionsInOrder'
  BY <1>1, <1>4, NewVersionInOrder, CurrentType
<1>8. StillGuarded'
  <2> SUFFICES ASSUME NEW i \in 1..(n + 1), HasFinalizer(versions'[i])
               PROVE  \/ versions'[i].uid \in stripped'
                      \/ \E k \in 1..cached : /\ HasFinalizer(versions'[k]) /\ versions'[k].deleting
                                              /\ versions'[k].uid = versions'[i].uid
    BY <1>2, <1>3 DEF StillGuarded
  <2>1. i \in 1..n
    BY <1>3, <1>4
  <2>2. CASE Current.uid = versions[i].uid
    BY <1>2, <1>3, <1>5, <2>1, <2>2
  <2>3. CASE \E k \in 1..cached : Blocked(k) /\ versions[k].uid = versions[i].uid
    BY <1>3, <2>1, <2>3
  <2>4. CASE versions[i].uid \in stripped
    BY <1>2, <1>3, <2>1, <2>4
  <2> QED
    BY <1>3, <2>1, <2>2, <2>3, <2>4 DEF StillGuarded
<1>9. PatchesAreSafe' /\ CleanupIsDue'
  BY <1>2, <1>3 DEF PatchesAreSafe, CleanupIsDue
<1>10. DirtyIsGuarded'
  BY <1>2, <1>5 DEF DirtyIsGuarded
<1> QED
  BY <1>6, <1>7, <1>8, <1>9, <1>10

\* The store catches up, so that more versions count as seen.
LEMMA CatchUpIInv ==
  ASSUME IInv, NEW v \in 1..Len(versions), WatchCatchesUp(v)
  PROVE  IInv'
<1> USE DEF IInv, Listed, Blocked, Guarded
<1>1. /\ v \in (cached + 1)..Len(versions) /\ cached' = v
      /\ UNCHANGED <<versions, pc, obj, inflight, dirty, stripped>>
  BY DEF WatchCatchesUp
<1>2. cached \in Nat /\ \A k \in 1..cached : k \in 1..cached'
  BY <1>1 DEF TypeOK
<1>3. TypeOK' /\ Current' = Current
  BY <1>1, <1>2 DEF TypeOK, Current
<1>4. VersionsInOrder' /\ PatchesAreSafe' /\ CleanupIsDue' /\ DirtyIsGuarded'
  BY <1>1, <1>3 DEF VersionsInOrder, PatchesAreSafe, CleanupIsDue, DirtyIsGuarded
<1>5. StillGuarded'
  BY <1>1, <1>2, <1>3 DEF StillGuarded
<1> QED
  BY <1>3, <1>4, <1>5

\* What was to be cleaned up before the version that the store holds is of an earlier
\* incarnation, if that version is not to be deleted.
LEMMA BlockedBefore ==
  ASSUME IInv, ~versions[cached].deleting, NEW k \in 1..cached, versions[k].deleting
  PROVE  versions[k].uid # versions[cached].uid
<1>1. cached \in 1..Len(versions) /\ k \in 1..Len(versions) /\ Len(versions) \in Nat /\ k # cached
  BY DEF IInv, TypeOK
<1> QED
  BY <1>1 DEF IInv, VersionsInOrder

\* A call of `finalizer`, and what it does while it runs
LEMMA ReconcilerIInv ==
  ASSUME IInv, Reconciler
  PROVE  IInv'
<1> USE DEF IInv
<1>1. versions' = versions /\ cached' = cached /\ stripped' = stripped /\ Current' = Current
  BY DEF Reconciler, CallApply, CallCleanup, AddFinalizer, NothingToDo, ApplyReturns, CleanupFails,
         CleanupSucceeds, Interrupted, Current
<1>2. VersionsInOrder' /\ StillGuarded'
  BY <1>1 DEF VersionsInOrder, StillGuarded, Listed, Blocked, Guarded
<1>3. /\ obj \in 1..cached /\ cached \in 1..Len(versions) /\ Len(versions) \in Nat
      /\ cached \in 1..cached
      /\ \A i \in 1..Len(versions) : versions[i].uid \in Nat
  BY CurrentType DEF TypeOK, Objects
<1>4. CASE CallApply
  <2>1. /\ obj' = cached /\ pc' = "applying" /\ inflight' = inflight
        /\ dirty' = dirty \cup {versions[cached].uid}
        /\ Listed(cached) /\ ~versions[cached].deleting
    BY <1>4 DEF CallApply, Called, Listed
  <2>2. TypeOK'
    <3>1. dirty' \in SUBSET Nat
      BY <1>3, <2>1 DEF TypeOK
    <3> QED
      BY <1>1, <1>3, <2>1, <3>1 DEF TypeOK
  <2>3. versions[cached].uid \in stripped \/ Guarded(versions[cached].uid)
    BY <1>3, <2>1, BlockedBefore DEF StillGuarded, Blocked
  <2>4. DirtyIsGuarded'
    BY <1>1, <2>1, <2>3 DEF DirtyIsGuarded, Guarded
  <2>5. PatchesAreSafe' /\ CleanupIsDue'
    BY <1>1, <2>1, BlockedBefore DEF PatchesAreSafe, CleanupIsDue, Blocked, Listed, TypeOK
  <2> QED
    BY <1>2, <2>2, <2>4, <2>5
<1>5. CASE CallCleanup
  <2>1. /\ obj' = cached /\ pc' = "cleaning"
        /\ inflight' = inflight /\ dirty' = dirty /\ Blocked(cached)
    BY <1>5 DEF CallCleanup, Called, Listed, Blocked
  <2>2. TypeOK'
    BY <1>1, <1>3, <2>1 DEF TypeOK
  <2>3. PatchesAreSafe' /\ CleanupIsDue' /\ DirtyIsGuarded'
    BY <1>1, <2>1 DEF PatchesAreSafe, CleanupIsDue, DirtyIsGuarded, Guarded, Blocked, Listed
  <2> QED
    BY <1>2, <2>2, <2>3
<1>6. CASE AddFinalizer
  <2>1. /\ obj' = cached /\ pc' = "patching" /\ dirty' = dirty
        /\ inflight' = inflight \cup {Sent("add", cached)}
        /\ ~Listed(cached)
    BY <1>6 DEF AddFinalizer, Called, Listed
  <2>2. Sent("add", cached) \in Patches /\ Sent("add", cached).obj = cached
        /\ Sent("add", cached).op = "add"
    BY <1>3 DEF Sent, Patches
  <2>3. TypeOK'
    BY <1>1, <1>3, <2>1, <2>2 DEF TypeOK
  <2>4. PatchesAreSafe' /\ CleanupIsDue' /\ DirtyIsGuarded'
    BY <1>1, <2>1, <2>2 DEF PatchesAreSafe, CleanupIsDue, DirtyIsGuarded, Guarded, Blocked, Listed
  <2> QED
    BY <1>2, <2>3, <2>4
<1>7. CASE NothingToDo \/ ApplyReturns \/ CleanupFails
  <2>1. /\ pc' = "idle" /\ inflight' = inflight /\ dirty' = dirty
        /\ obj' \in {obj, cached}
    BY <1>7 DEF NothingToDo, Called, ApplyReturns, CleanupFails
  <2>2. TypeOK'
    BY <1>1, <1>3, <2>1 DEF TypeOK
  <2>3. PatchesAreSafe' /\ CleanupIsDue' /\ DirtyIsGuarded'
    BY <1>1, <2>1 DEF PatchesAreSafe, CleanupIsDue, DirtyIsGuarded, Guarded, Blocked, Listed
  <2> QED
    BY <1>2, <2>2, <2>3
<1>8. CASE Interrupted
  <2>1. pc' = "idle" /\ dirty' = dirty /\ obj' = obj
    BY <1>8 DEF Interrupted
  <2>2. \A q \in inflight' : /\ q \in Patches
                            /\ \E p \in inflight : q.op = p.op /\ q.obj = p.obj
    <3>1. \A p \in inflight : p \in Patches
      BY DEF TypeOK
    <3>2. \A p \in inflight, n \in Nat : /\ [p EXCEPT !.late = n] \in Patches
                                       /\ [p EXCEPT !.late = n].op = p.op
                                       /\ [p EXCEPT !.late = n].obj = p.obj
      BY <3>1 DEF Patches
    <3>3. Late \subseteq inflight
      BY DEF Late
    <3>4. CASE inflight' = Late
      BY <3>1, <3>3, <3>4
    <3>5. ASSUME NEW n \in 1..MaxLate,
                 inflight' = Late \cup {[p EXCEPT !.late = n] : p \in inflight \ Late}
          PROVE  \A q \in inflight' : /\ q \in Patches
                                     /\ \E p \in inflight : q.op = p.op /\ q.obj = p.obj
      <4>1. n \in Nat
        BY <3>5, FinalizerAssumption
      <4>2. TAKE q \in inflight'
      <4>3. CASE q \in Late
        BY <3>1, <3>3, <4>3
      <4>4. CASE q \in {[p EXCEPT !.late = n] : p \in inflight \ Late}
        <5>1. PICK p \in inflight : q = [p EXCEPT !.late = n]
          BY <4>4
        <5> QED
          BY <3>2, <4>1, <5>1
      <4> QED
        BY <3>5, <4>3, <4>4
    <3> QED
      BY <1>8, <3>4, <3>5 DEF Interrupted, Orphan
  <2>3. TypeOK'
    BY <1>1, <1>3, <2>1, <2>2 DEF TypeOK
  <2>4. PatchesAreSafe'
    BY <1>1, <2>1, <2>2 DEF PatchesAreSafe, Blocked, Listed
  <2>5. CleanupIsDue' /\ DirtyIsGuarded'
    BY <1>1, <2>1 DEF CleanupIsDue, DirtyIsGuarded, Guarded
  <2> QED
    BY <1>2, <2>3, <2>4, <2>5
<1>9. CASE CleanupSucceeds
  <2>1. /\ pc = "cleaning" /\ pc' = "patching" /\ obj' = obj
        /\ dirty' = dirty \ {versions[obj].uid}
        /\ inflight' = inflight \cup {Sent("remove", obj)}
    BY <1>9 DEF CleanupSucceeds
  <2>2. /\ Sent("remove", obj) \in Patches /\ Sent("remove", obj).obj = obj
        /\ Sent("remove", obj).op = "remove"
    BY <1>3 DEF Sent, Patches
  <2>3. TypeOK'
    <3>1. dirty' \in SUBSET Nat
      BY <2>1 DEF TypeOK
    <3> QED
      BY <1>1, <1>3, <2>1, <2>2, <3>1 DEF TypeOK
  <2>4. PatchesAreSafe'
    BY <1>1, <2>1, <2>2 DEF PatchesAreSafe, CleanupIsDue, Blocked, Listed
  <2>5. CleanupIsDue' /\ DirtyIsGuarded'
    BY <1>1, <2>1 DEF CleanupIsDue, DirtyIsGuarded, Guarded
  <2> QED
    BY <1>2, <2>3, <2>4, <2>5
<1> QED
  BY <1>4, <1>5, <1>6, <1>7, <1>8, <1>9 DEF Reconciler

\* At the start no Apply was started and no patch is on its way.
LEMMA InitIInv ==
  ASSUME Init
  PROVE  IInv
<1>1. PICK f \in FinalizerLists : versions = <<Object(1, f, FALSE)>>
  BY DEF Init
<1> DEFINE o == Object(1, f, FALSE)
<1>2. f \in Lists
  BY FinalizerAssumption DEF FinalizerLists, Lists
<1>3. o \in Objects
  BY <1>2, ObjectType
<1> HIDE DEF o
<1>4. versions = <<o>>
  BY <1>1 DEF o
<1>5. versions \in Seq(Objects) /\ Len(versions) = 1 /\ versions[1] = o
  <2>1. <<o>> \in Seq(Objects)
    BY <1>3
  <2> QED
    BY <1>4, <2>1
<1>6. cached = 1 /\ obj = 1 /\ pc = "idle" /\ inflight = {} /\ dirty = {}
  BY DEF Init
<1>7. TypeOK
  BY <1>5, <1>6 DEF TypeOK
<1>8. VersionsInOrder
  BY <1>5 DEF VersionsInOrder
<1>9. StillGuarded
  BY <1>5 DEF StillGuarded, Listed, Guarded, Current
<1> QED
  BY <1>6, <1>7, <1>8, <1>9 DEF IInv, PatchesAreSafe, CleanupIsDue, DirtyIsGuarded

\* What the steps of a behaviour with a call of delete_and_finalize do to Finalizer's state
LEMMA WaitNextIInv ==
  ASSUME IInv, [WaitNext]_allVars
  PROVE  IInv'
<1>1. CASE UNCHANGED <<versions, cached, pc, obj, inflight, dirty, stripped>>
  BY <1>1 DEF IInv, TypeOK, VersionsInOrder, StillGuarded, PatchesAreSafe, CleanupIsDue,
       DirtyIsGuarded, Listed, Blocked, Guarded, Current
<1>2. ASSUME Delete \/ Recreate \/ AddOther \/ RemoveOther,
             UNCHANGED <<cached, pc, obj, inflight, dirty, stripped>>
      PROVE  IInv'
  <2>1. PICK o \in Objects : versions' = Append(versions, o) /\ (Kept(o) \/ Created(o))
    BY <1>2, ServerStep DEF IInv
  <2> QED
    BY <1>2, <2>1, ServerStepIInv
<1>3. ASSUME NEW p \in inflight, ServerHandles(p), PatchRefused(p) PROVE IInv'
  <2>1. /\ inflight' \subseteq inflight /\ pc' \in {pc, "idle"}
        /\ UNCHANGED <<versions, cached, obj, dirty, stripped>>
    BY <1>3, PatchHandled DEF IInv, PatchRefused
  <2> QED
    BY <2>1 DEF IInv, TypeOK, VersionsInOrder, StillGuarded, PatchesAreSafe, CleanupIsDue,
         DirtyIsGuarded, Listed, Blocked, Guarded, Current
<1>4. ASSUME NEW p \in inflight, ServerHandles(p) PROVE IInv'
  BY <1>3, <1>4, PatchAddIInv, PatchRemoveIInv DEF ServerHandles
<1>5. ASSUME DeleteObject \/ DeleteFails
      PROVE  IInv'
  BY <1>1, <1>2, <1>5 DEF DeleteObject, DeleteFails, Quiet
<1>6. ASSUME AwaitCondition \/ ProbeFailed \/ UNCHANGED allVars
      PROVE  UNCHANGED <<versions, cached, pc, obj, inflight, dirty, stripped>>
  BY <1>6 DEF AwaitCondition, ProbeFailed, Quiet, allVars
<1>7. ASSUME Server PROVE IInv'
  BY <1>2, <1>7 DEF Server
<1> QED
  BY <1>1, <1>4, <1>5, <1>6, <1>7, ReconcilerIInv, CatchUpIInv DEF WaitNext, Next

-----------------------------------------------------------------------------
(* delete_and_finalize                                                     *)

\* Every step leaves the object alone or changes it in one of the four ways.
LEMMA VersionStep ==
  ASSUME IInv, [WaitNext]_allVars
  PROVE  \/ versions' = versions
         \/ \E o \in Objects : /\ versions' = Append(versions, o)
                               /\ Kept(o) \/ Created(o) \/ Added(o) \/ Freed(o)
<1> USE DEF IInv
<1>1. ASSUME NEW p \in inflight, ServerHandles(p), versions' # versions
      PROVE  \E o \in Objects : versions' = Append(versions, o) /\ (Added(o) \/ Freed(o))
  BY <1>1, PatchAddStep, PatchRemoveStep DEF ServerHandles, PatchRefused
<1>2. ASSUME AwaitCondition \/ ProbeFailed \/ UNCHANGED allVars \/ Reconciler
             \/ \E v \in 1..Len(versions) : WatchCatchesUp(v)
      PROVE  versions' = versions
  BY <1>2 DEF AwaitCondition, ProbeFailed, Quiet, allVars, Reconciler, CallApply, CallCleanup,
       AddFinalizer, NothingToDo, ApplyReturns, CleanupFails, CleanupSucceeds, Interrupted,
       WatchCatchesUp
<1>3. ASSUME DeleteObject \/ DeleteFails \/ Server
      PROVE  versions' = versions \/ Delete \/ Recreate \/ AddOther \/ RemoveOther
  BY <1>3 DEF DeleteObject, DeleteFails, Server
<1> QED
  BY <1>1, <1>2, <1>3, ServerStep DEF WaitNext, Next

\* What is gone stays gone, and the versions that the watch reports never go back.
LEMMA WaitNextWatch ==
  ASSUME IInv, WatchIsAfter, [WaitNext]_allVars
  PROVE  WatchIsAfter'
<1> DEFINE n == Len(versions)
<1> USE DEF IInv
<1>1. /\ n \in Nat /\ n >= 1 /\ Current = versions[n] /\ Current.uid \in Nat
      /\ \A i \in 1..n : versions[i].uid \in Nat
  BY CurrentType DEF Objects, Current
<1>2. /\ Len(versions') \in Nat /\ Len(versions') >= n
      /\ \A i \in 1..n : versions'[i] = versions[i]
      /\ Current'.uid \in Nat /\ Current.uid <= Current'.uid
      /\ ~Current.exists => Current.uid < Current'.uid \/ ~Current'.exists
  <2>1. CASE versions' = versions
    BY <1>1, <2>1 DEF Current
  <2>2. ASSUME NEW o \in Objects, versions' = Append(versions, o),
               Kept(o) \/ Created(o) \/ Added(o) \/ Freed(o)
        PROVE  /\ Len(versions') \in Nat /\ Len(versions') >= n
               /\ \A i \in 1..n : versions'[i] = versions[i]
               /\ Current'.uid \in Nat /\ Current.uid <= Current'.uid
               /\ ~Current.exists => Current.uid < Current'.uid
    <3>1. /\ Len(versions') = n + 1 /\ Current' = o /\ o.uid \in Nat
          /\ \A i \in 1..n : versions'[i] = versions[i]
      BY <2>2, NewVersion DEF Objects
    <3>2. Current.uid <= o.uid /\ (~Current.exists => Current.uid < o.uid)
      BY <1>1, <2>2, CurrentType DEF Kept, Created, Added, Freed
    <3> QED
      BY <1>1, <3>1, <3>2
  <2> QED
    BY <2>1, <2>2, VersionStep
<1>3. CASE UNCHANGED waitVars
  BY <1>1, <1>2, <1>3 DEF WatchIsAfter, waitVars
<1>4. CASE DeleteObject
  BY <1>1, <1>2, <1>4 DEF WatchIsAfter, DeleteObject
<1>5. CASE DeleteFails \/ ProbeFailed
  BY <1>1, <1>2, <1>5 DEF WatchIsAfter, DeleteFails, ProbeFailed
<1>6. CASE AwaitCondition
  <2>1. PICK v \in IF seen = 0 THEN InitialList ELSE LaterEvent :
           /\ seen' = v
           /\ stage' = IF is_deleted(Emitted(v), uid) THEN "Ok" ELSE "waiting"
    BY <1>6 DEF AwaitCondition
  <2>2. v \in 1..n /\ (seen # 0 => v > seen) /\ (seen = 0 => v = n)
    BY <1>1, <2>1 DEF InitialList, LaterEvent, WatchIsAfter
  <2>3. uid \in Nat /\ uid' = uid /\ versions' = versions /\ Current' = Current /\ stage = "waiting"
    BY <1>6 DEF AwaitCondition, WatchIsAfter, Current
  <2>4. uid <= versions[v].uid
    BY <1>1, <2>2, <2>3 DEF WatchIsAfter, VersionsInOrder
  <2>5. versions[v].uid <= Current.uid /\ uid <= Current.uid
    BY <1>1, <2>2, <2>3, <2>4 DEF VersionsInOrder, WatchIsAfter
  <2>6. ASSUME is_deleted(Emitted(v), uid)
        PROVE  uid < Current.uid \/ (uid = Current.uid /\ ~Current.exists)
    <3>1. CASE ~versions[v].exists
      BY <1>1, <2>2, <2>3, <2>4, <2>5, <3>1 DEF VersionsInOrder
    <3>2. CASE versions[v].exists
      <4>1. versions[v].uid # uid
        BY <2>6, <3>2 DEF is_deleted, Found, Emitted
      <4> QED
        BY <1>1, <2>2, <2>3, <2>4, <2>5, <4>1
    <3> QED
      BY <3>1, <3>2
  <2> QED
    BY <1>1, <2>1, <2>2, <2>3, <2>4, <2>5, <2>6 DEF WatchIsAfter
<1> QED
  BY <1>3, <1>4, <1>5, <1>6 DEF WaitNext, allVars, waitVars

-----------------------------------------------------------------------------

\* The parts of the invariant that are not themselves promised: the order of the versions,
\* and what the patches on their way may still do to the object.
THEOREM Invariant == WaitSpec => [](IInv /\ WatchIsAfter)
<1>1. WaitInit => IInv /\ WatchIsAfter
  <2>1. WaitInit => IInv
    BY InitIInv DEF WaitInit
  <2>2. WaitInit /\ IInv => WatchIsAfter
    BY DEF WaitInit, WatchIsAfter, IInv, TypeOK
  <2> QED
    BY <2>1, <2>2
<1>2. IInv /\ WatchIsAfter /\ [WaitNext]_allVars => (IInv /\ WatchIsAfter)'
  BY WaitNextIInv, WaitNextWatch
<1> QED
  BY <1>1, <1>2, PTL DEF WaitSpec

\* An object on which Apply was started is not gone before a Cleanup of it succeeded: the
\* finalizer is on the object for as long as the incarnation is dirty, unless it was stripped.
LEMMA Cleaned == ASSUME IInv PROVE CleanedBeforeGone
  BY CurrentType DEF IInv, DirtyIsGuarded, Guarded, CleanedBeforeGone

\* "If Event::Apply is ever started then Event::Cleanup must succeed before the Kubernetes
\* object deletion completes", whatever is lost, refused, late, crashes or is out of date, for
\* every object that was not stripped of its finalizer by a patch for an earlier incarnation.
THEOREM CleanupComesFirst == WaitSpec => []CleanedBeforeGone
<1>1. IInv => CleanedBeforeGone
  BY Cleaned
<1> QED
  BY <1>1, Invariant, PTL

\* When delete_and_finalize returns Ok, the incarnation that it deleted is gone, and was
\* cleaned up unless it was stripped, even if the watch is behind or the object was created
\* again.
THEOREM FinalizeIsTrue == WaitSpec => []FinalizedMeansGone
<1>1. IInv /\ WatchIsAfter => FinalizedMeansGone
  <2> SUFFICES ASSUME IInv, WatchIsAfter, stage = "Ok"
               PROVE  ~(Current.exists /\ Current.uid = uid) /\ uid \notin dirty \ stripped
    BY DEF FinalizedMeansGone
  <2>1. ~(Current.exists /\ Current.uid = uid)
    BY CurrentType DEF WatchIsAfter, IInv
  <2> QED
    BY <2>1, Cleaned DEF CleanedBeforeGone
<1> QED
  BY <1>1, Invariant, PTL

\* No patch of `finalizer` takes another controller's finalizer away.
LEMMA StepKeepsOthers ==
  ASSUME IInv, NEW p \in inflight, ServerHandles(p), Contains(Current.finalizers, Other)
  PROVE  Contains(Current.finalizers', Other)
<1> USE DEF IInv
<1>1. ASSUME NEW o \in Objects, versions' = Append(versions, o), Contains(o.finalizers, Other)
      PROVE  Contains(Current.finalizers', Other)
  BY <1>1, NewVersion
<1>2. CASE PatchRefused(p)
  BY <1>2 DEF PatchRefused, Current
<1> QED
  BY <1>1, <1>2, PatchAddStep, PatchRemoveStep DEF ServerHandles

\* No patch of finalizer() takes the finalizer of another controller away: where the
\* indices have moved, the test of the JSON patch fails and the server refuses it.
THEOREM OtherFinalizersAreKept == WaitSpec => OthersAreKept
<1>1. IInv /\ [WaitNext]_allVars =>
        [\A p \in inflight : ServerHandles(p) /\ Contains(Current.finalizers, Other)
                               => Contains(Current.finalizers', Other)]_vars
  BY StepKeepsOthers
<1> QED
  BY <1>1, Invariant, PTL DEF WaitSpec, OthersAreKept
=============================================================================
