--------------------------- MODULE RoundTripProofs ---------------------------
(***************************************************************************)
(* Proofs about RoundTrip, for every set of finite trees, every total order*)
(* of the paths and every number of packs and unpacks.                     *)
(***************************************************************************)
EXTENDS RoundTrip, FiniteSetTheorems, TLAPS

USE DEF vars, packing, unpacking

-----------------------------------------------------------------------------
(* The operators of the model.                                             *)

\* A listing has each file of the tree once, sorted by path.
LEMMA ListingsListAll ==
    ASSUME NEW t \in Tree, NEW s \in Listings(t)
    PROVE  /\ s \in Seq(DOMAIN t)
           /\ \A f \in DOMAIN t : \E i \in DOMAIN s : s[i] = f
           /\ \A i, j \in DOMAIN s :
                 i < j => s[i] # s[j] /\ <<Rel[s[j]], Rel[s[i]]>> \notin Order
<1> DEFINE n == Cardinality(DOMAIN t)
<1>1. IsFiniteSet(DOMAIN t)
  BY RoundTripAssumption
<1>2. n \in Nat
  BY <1>1, FS_CardinalityType
<1>3. /\ s \in [1 .. n -> DOMAIN t]
      /\ \A i, j \in 1 .. n : i # j => s[i] # s[j]
      /\ \A i, j \in DOMAIN s : i < j => <<Rel[s[j]], Rel[s[i]]>> \notin Order
  BY DEF Listings, SetToSeqs
<1>4. s \in Seq(DOMAIN t)
  BY <1>2, <1>3
<1>5. s \in Injection(1 .. n, DOMAIN t)
  BY <1>3 DEF Injection, IsInjective
<1>6. Cardinality(1 .. n) = n
  BY <1>2, FS_Interval
<1>7. s \in Surjection(1 .. n, DOMAIN t)
  BY <1>1, <1>5, <1>6, FS_Injection
<1>8. \A f \in DOMAIN t : \E i \in DOMAIN s : s[i] = f
  BY <1>3, <1>7 DEF Surjection
<1> QED
  BY <1>2, <1>3, <1>4, <1>8

\* A tree without files is <<>>.
LEMMA EmptyTree ==
    ASSUME NEW t \in Tree, t # <<>>
    PROVE  DOMAIN t # {}
<1>1. SUFFICES ASSUME DOMAIN t = {} PROVE t = <<>>
  OBVIOUS
<1>2. t = [f \in DOMAIN t |-> t[f]]
  BY RoundTripAssumption
<1>3. t = [i \in 1 .. 0 |-> t[i]]
  BY <1>1, <1>2
<1>4. t \in Seq({}) /\ Len(t) = 0
  BY <1>3
<1> QED
  BY <1>4

\* A manifest is a list of entries.
LEMMA ManifestIs ==
    ASSUME NEW m \in Manifest
    PROVE  /\ Len(m) \in Nat /\ DOMAIN m = 1 .. Len(m)
           /\ \A i \in DOMAIN m :
                 /\ m[i].path \in Path /\ m[i].content \in Content
                 /\ m[i] = [path |-> m[i].path, content |-> m[i].content,
                            context |-> m[i].context]
<1> DEFINE E == [path : Path, content : Content, context : Context]
<1>1. m \in Seq(E)
  BY DEF Manifest
<1>2. \A e \in E : /\ e.path \in Path /\ e.content \in Content
                   /\ e = [path |-> e.path, content |-> e.content,
                           context |-> e.context]
  OBVIOUS
<1> HIDE DEF E
<1>3. Len(m) \in Nat /\ DOMAIN m = 1 .. Len(m) /\ \A i \in DOMAIN m : m[i] \in E
  BY <1>1
<1> QED
  BY <1>2, <1>3

\* What a write leaves at each path.
LEMMA WrittenIs ==
    ASSUME NEW p \in Path, NEW c
    PROVE  /\ Written(p, c)[p] = c
           /\ \A q \in Path \ {p} :
                 /\ q \in Above[p] => Written(p, c)[q] = "dir"
                 /\ q \notin Above[p] => Written(p, c)[q] = output[q]
<1>1. p \notin Above[p]
  BY RoundTripAssumption
<1> QED
  BY <1>1 DEF Written

-----------------------------------------------------------------------------
(* Type correctness.                                                       *)

Types == TypeOK /\ FilesType

\* Nothing packed, nothing unpacked.
LEMMA InitTypes == Init => Types
<1>1. <<>> \in Manifest
  BY DEF Manifest
<1> QED
  BY <1>1 DEF Init, Types, TypeOK, FilesType, Empty

\* Every step of pack, of unpack, of the owner and of the store.
LEMMA TypeStep == Types /\ [Next]_vars => Types'
<1> SUFFICES ASSUME Types, [Next]_vars PROVE Types'
  OBVIOUS
<1> USE DEF Types, TypeOK, FilesType
<1> DEFINE File == UNION {DOMAIN t : t \in Tree}
<1>1. CASE UNCHANGED vars
  BY <1>1
<1>2. ASSUME NEW i \in Identity, PackList(i)
      PROVE  Types'
  <2>1. files' \in Seq(DOMAIN tree)
    BY <1>2, ListingsListAll DEF PackList
  <2>2. files' \in Seq(File)
    BY <2>1
  <2>3. \A f \in File : Rel[f] \in Path
    BY RoundTripAssumption
  <2>4. \A j \in DOMAIN files' : Rel[files'[j]] \in Path
    BY <2>2, <2>3
  <2>5. <<>> \in Manifest
    BY DEF Manifest
  <2> QED
    BY <1>2, <2>2, <2>4, <2>5 DEF PackList, Context
<1>3. CASE PackRead
  <2>1. files \in Seq(File) /\ files # <<>> /\ files # None
    BY <1>3 DEF PackRead
  <2>2. Tail(files) \in Seq(File)
        /\ \A j \in DOMAIN Tail(files) :
              j + 1 \in DOMAIN files /\ Tail(files)[j] = files[j + 1]
    BY <2>1
  <2>3. PICK f \in DOMAIN tree :
          /\ f = Head(files)
          /\ entries' = Append(entries, EntryOf(f, tree[f]))
          /\ readable' = readable \union {tree[f]}
    BY <1>3 DEF PackRead
  <2>4. Rel[f] \in Path /\ tree[f] \in Content
    BY RoundTripAssumption
  <2>5. EntryOf(f, tree[f]) \in [path : Path, content : Content, context : Context]
    BY <2>1, <2>4 DEF EntryOf
  <2>6. entries' \in Manifest
    BY <2>3, <2>5 DEF Manifest
  <2> QED
    BY <1>3, <2>1, <2>2, <2>3, <2>4, <2>6 DEF PackRead
<1>4. CASE PackPublish
  <2>1. <<>> \in Manifest
    BY DEF Manifest
  <2> QED
    BY <1>4, <2>1 DEF PackPublish, PackEnds
<1>5. CASE PackFails
  <2>1. <<>> \in Manifest
    BY DEF Manifest
  <2> QED
    BY <1>5, <2>1 DEF PackFails, PackEnds
<1>6. ASSUME NEW a \in published, Unpack(a.entries)
      PROVE  Types'
  <2>1. Len(a.entries) \in Nat
    BY DEF Manifest
  <2> QED
    BY <1>6, <2>1 DEF Unpack
<1>7. ASSUME AtEntry, NEW p, NEW c, p = Entry.path, c = Entry.content
      PROVE  /\ p \in Path /\ c \in Content
             /\ job \in Manifest /\ next \in 1 .. Len(job) /\ Len(job) \in Nat
  <2>1. job \in Manifest
    BY <1>7 DEF AtEntry
  <2> QED
    BY <1>7, <2>1, ManifestIs DEF AtEntry, Entry
<1>8. ASSUME NEW p \in Path, NEW c \in Content \union {"nothing", "dir", "torn"}
      PROVE  Written(p, c) \in [Path -> Content \union {"nothing", "dir", "torn"}]
  BY <1>8 DEF Written
<1>9. CASE UnpackEntry
  <2>1. AtEntry /\ output' = Written(Entry.path, Entry.content)
    BY <1>9 DEF UnpackEntry
  <2>2. output' \in [Path -> Content \union {"nothing", "dir", "torn"}]
    BY <1>7, <1>8, <2>1
  <2>3. next' \in 1 .. Len(job) + 1
    BY <1>7, <1>9, <2>1 DEF UnpackEntry
  <2> QED
    BY <1>9, <2>2, <2>3 DEF UnpackEntry
<1>10. CASE UnpackTears
  <2>1. /\ AtEntry
        /\ output' \in {Written(Entry.path, "torn"),
                        Written(Entry.path, output[Entry.path])}
    BY <1>10 DEF UnpackTears
  <2>2. output' \in [Path -> Content \union {"nothing", "dir", "torn"}]
    BY <1>7, <1>8, <2>1
  <2> QED
    BY <1>10, <2>2 DEF UnpackTears, UnpackEnds
<1>11. CASE UnpackFails
  BY <1>11 DEF UnpackFails, UnpackEnds
<1>12. CASE UnpackDone
  BY <1>12 DEF UnpackDone, UnpackEnds
<1>13. ASSUME NEW t \in Tree, Edit(t)
       PROVE  Types'
  BY <1>13 DEF Edit
<1>14. CASE EmptyOutput
  BY <1>14 DEF EmptyOutput, Empty
<1>15. ASSUME NEW c \in Content, Lose(c) \/ Arrive(c)
       PROVE  Types'
  BY <1>15 DEF Lose, Arrive
<1> QED
  BY <1>1, <1>2, <1>3, <1>4, <1>5, <1>6, <1>9, <1>10, <1>11, <1>12, <1>13,
     <1>14, <1>15 DEF Next

\* TypeOK, of every behaviour of pack and unpack.
THEOREM TypeCorrect == Spec => []TypeOK
<1>1. Types => TypeOK
  BY DEF Types
<1> QED
  BY <1>1, InitTypes, TypeStep, PTL DEF Spec
-----------------------------------------------------------------------------
(* What a manifest says about the tree.                                    *)

\* One more entry, and one file less to read.
LEMMA OneRead ==
    ASSUME Types, PackRead
    PROVE  /\ files # None
           /\ Len(entries) \in Nat /\ Len(files) \in Nat \ {0}
           /\ DOMAIN entries = 1 .. Len(entries)
           /\ DOMAIN entries' = 1 .. Len(entries) + 1
           /\ \A i \in DOMAIN entries : entries'[i] = entries[i]
           /\ DOMAIN files = 1 .. Len(files)
           /\ DOMAIN files' = 1 .. Len(files) - 1
           /\ \A j \in DOMAIN files' : files'[j] = files[j + 1]
           /\ files[1] \in DOMAIN tree
           /\ entries'[Len(entries) + 1] = EntryOf(files[1], tree[files[1]])
<1>1. /\ files # <<>> /\ files # None /\ files' = Tail(files)
      /\ Head(files) \in DOMAIN tree
      /\ entries' = Append(entries, EntryOf(Head(files), tree[Head(files)]))
  BY DEF PackRead
<1>2. files \in Seq(UNION {DOMAIN t : t \in Tree})
  BY <1>1 DEF Types, FilesType
<1>3. entries \in Seq([path : Path, content : Content, context : Context])
  BY DEF Types, TypeOK, Manifest
<1> QED
  BY <1>1, <1>2, <1>3

\* Reading one file keeps what is recorded and what is left in step.
LEMMA PackReadStep ==
    ASSUME Types, PackInv, PackRead
    PROVE  PackInv'
<1> DEFINE n == Len(entries)
           f == files[1]
           e == EntryOf(f, tree[f])
<1>1. /\ files # None
      /\ tree' = tree /\ asOf' = asOf /\ context' = context
  BY DEF PackRead
<1>2. e.path = Rel[f] /\ e.content = tree[f] /\ e.context = context
  BY DEF EntryOf
<1>3. RecordedAs(e, f, tree)
  BY <1>2 DEF RecordedAs
<1>4. /\ n \in Nat /\ Len(files) \in Nat \ {0}
      /\ DOMAIN entries = 1 .. n
      /\ DOMAIN entries' = 1 .. n + 1
      /\ \A i \in DOMAIN entries : entries'[i] = entries[i]
      /\ DOMAIN files = 1 .. Len(files)
      /\ DOMAIN files' = 1 .. Len(files) - 1
      /\ \A j \in DOMAIN files' : files'[j] = files[j + 1]
      /\ f \in DOMAIN tree
      /\ entries'[n + 1] = e
  BY OneRead
<1> HIDE DEF n, f, e
<1>5. \A i \in DOMAIN entries' : entries'[i].context = context'
  BY <1>1, <1>2, <1>4 DEF PackInv
<1>6. ASSUME asOf' # None
      PROVE  /\ asOf' = tree' /\ DOMAIN tree' # {}
             /\ \A i \in DOMAIN entries' :
                   \E g \in DOMAIN tree' : RecordedAs(entries'[i], g, tree')
             /\ \A i \in DOMAIN files' : files'[i] \in DOMAIN tree'
             /\ \A g \in DOMAIN tree' :
                   \/ \E i \in DOMAIN entries' : RecordedAs(entries'[i], g, tree')
                   \/ \E i \in DOMAIN files' : files'[i] = g
             /\ Faithful(tree') =>
                   /\ Sorted(entries')
                   /\ \A i \in DOMAIN entries', j \in DOMAIN files' :
                         <<entries'[i].path, Rel[files'[j]]>> \in Order
                   /\ \A i, j \in DOMAIN files' :
                         i < j => <<Rel[files'[i]], Rel[files'[j]]>> \in Order
  <2>1. /\ asOf = tree /\ DOMAIN tree # {}
        /\ \A i \in DOMAIN entries :
              \E g \in DOMAIN tree : RecordedAs(entries[i], g, tree)
        /\ \A i \in DOMAIN files : files[i] \in DOMAIN tree
        /\ \A g \in DOMAIN tree :
              \/ \E i \in DOMAIN entries : RecordedAs(entries[i], g, tree)
              \/ \E i \in DOMAIN files : files[i] = g
        /\ Faithful(tree) =>
              /\ Sorted(entries)
              /\ \A i \in DOMAIN entries, j \in DOMAIN files :
                    <<entries[i].path, Rel[files[j]]>> \in Order
              /\ \A i, j \in DOMAIN files :
                    i < j => <<Rel[files[i]], Rel[files[j]]>> \in Order
    BY <1>1, <1>6 DEF PackInv
  <2>2. \A i \in DOMAIN entries' :
          \E g \in DOMAIN tree : RecordedAs(entries'[i], g, tree)
    BY <1>3, <1>4, <2>1
  <2>3. \A i \in DOMAIN files' : files'[i] \in DOMAIN tree
    BY <1>4, <2>1
  <2>4. ASSUME NEW g \in DOMAIN tree
        PROVE  \/ \E i \in DOMAIN entries' : RecordedAs(entries'[i], g, tree)
               \/ \E i \in DOMAIN files' : files'[i] = g
    <3>1. CASE \E i \in DOMAIN entries : RecordedAs(entries[i], g, tree)
      BY <1>4, <3>1
    <3>2. ASSUME NEW i \in DOMAIN files, files[i] = g
          PROVE  \/ \E k \in DOMAIN entries' : RecordedAs(entries'[k], g, tree)
                 \/ \E k \in DOMAIN files' : files'[k] = g
      <4>1. CASE i = 1
        <5>1. n + 1 \in DOMAIN entries' /\ RecordedAs(entries'[n + 1], g, tree)
          BY <1>3, <1>4, <3>2, <4>1 DEF f
        <5> QED
          BY <5>1
      <4>2. CASE i # 1
        <5>1. i - 1 \in DOMAIN files' /\ files'[i - 1] = files[i]
          BY <1>4, <4>2
        <5> QED
          BY <3>2, <5>1
      <4> QED
        BY <4>1, <4>2
    <3> QED
      BY <2>1, <3>1, <3>2
  <2>5. ASSUME Faithful(tree)
        PROVE  /\ Sorted(entries')
               /\ \A i \in DOMAIN entries', j \in DOMAIN files' :
                     <<entries'[i].path, Rel[files'[j]]>> \in Order
               /\ \A i, j \in DOMAIN files' :
                     i < j => <<Rel[files'[i]], Rel[files'[j]]>> \in Order
    <3>1. \A i \in DOMAIN entries : <<entries'[i].path, e.path>> \in Order
      BY <1>2, <1>4, <2>1, <2>5 DEF f
    <3>2. Sorted(entries')
      BY <1>4, <2>1, <2>5, <3>1 DEF Sorted
    <3>3. \A j \in DOMAIN files' : <<e.path, Rel[files'[j]]>> \in Order
      BY <1>2, <1>4, <2>1, <2>5 DEF f
    <3>4. \A i \in DOMAIN entries', j \in DOMAIN files' :
            <<entries'[i].path, Rel[files'[j]]>> \in Order
      BY <1>4, <2>1, <2>5, <3>3
    <3>5. \A i, j \in DOMAIN files' :
            i < j => <<Rel[files'[i]], Rel[files'[j]]>> \in Order
      BY <1>4, <2>1, <2>5
    <3> QED
      BY <3>2, <3>4, <3>5
  <2> QED
    BY <1>1, <2>1, <2>2, <2>3, <2>4, <2>5
<1> QED
  BY <1>5, <1>6 DEF PackInv

\* What undisturbed packs have recorded so far, and what their manifests say.
LEMMA PackStep ==
    Types /\ PackInv /\ PublishedInv /\ [Next]_vars => PackInv' /\ PublishedInv'
<1> SUFFICES ASSUME Types, PackInv, PublishedInv, [Next]_vars
             PROVE  PackInv' /\ PublishedInv'
  OBVIOUS
<1>1. ASSUME UNCHANGED <<tree, packing, published>>
      PROVE  PackInv' /\ PublishedInv'
  BY <1>1 DEF PackInv, PublishedInv, Sorted
<1>2. ASSUME NEW i \in Identity, PackList(i)
      PROVE  PackInv' /\ PublishedInv'
  <2>1. /\ files' \in Listings(tree) /\ entries' = <<>> /\ asOf' = tree
        /\ tree # <<>> /\ tree \in Tree
        /\ UNCHANGED <<tree, published>>
    BY <1>2 DEF PackList, Types, TypeOK
  <2>2. DOMAIN tree # {}
    BY <2>1, EmptyTree
  <2>3. /\ files' \in Seq(DOMAIN tree)
        /\ \A f \in DOMAIN tree : \E j \in DOMAIN files' : files'[j] = f
        /\ \A j, k \in DOMAIN files' :
              j < k => /\ files'[j] # files'[k]
                       /\ <<Rel[files'[k]], Rel[files'[j]]>> \notin Order
    BY <2>1, ListingsListAll
  <2>4. \A j \in DOMAIN files' : files'[j] \in DOMAIN tree
    BY <2>3
  <2>5. \A f \in DOMAIN tree : Rel[f] \in Path
    BY <2>1, RoundTripAssumption
  <2>6. ASSUME Faithful(tree), NEW j \in DOMAIN files', NEW k \in DOMAIN files',
               j < k
        PROVE  <<Rel[files'[j]], Rel[files'[k]]>> \in Order
    <3>1. Rel[files'[j]] # Rel[files'[k]]
      BY <2>3, <2>4, <2>6 DEF Faithful
    <3> QED
      BY <2>3, <2>4, <2>5, <2>6, <3>1, OrderAssumption
  <2>7. DOMAIN entries' = {}
    BY <2>1
  <2>8. PackInv'
    BY <2>1, <2>2, <2>3, <2>4, <2>6, <2>7 DEF PackInv, Sorted
  <2> QED
    BY <2>1, <2>8 DEF PublishedInv
<1>3. CASE PackRead
  <2>1. UNCHANGED published
    BY <1>3 DEF PackRead
  <2> QED
    BY <1>3, <2>1, PackReadStep DEF PublishedInv
<1>4. CASE PackPublish
  <2> DEFINE a == [entries |-> entries, tree |-> asOf, identity |-> context]
  <2>1. /\ files = <<>> /\ files' = None
        /\ published' = published \union {a}
    BY <1>4 DEF PackPublish, PackEnds
  <2>2. a.entries = entries /\ a.tree = asOf /\ a.identity = context
    OBVIOUS
  <2> HIDE DEF a
  <2>3. PackInv'
    BY <2>1 DEF PackInv
  <2>4. <<>> \in Manifest
    BY DEF Manifest
  <2>5. files # None
    BY <2>1, <2>4, NoneAssumption
  <2>6. PublishedInv'
    <3>1. \A i \in DOMAIN a.entries : a.entries[i].context = a.identity
      BY <2>2, <2>5 DEF PackInv
    <3>2. DOMAIN files = {}
      BY <2>1
    <3>3. a.tree # None =>
            /\ DOMAIN a.tree # {}
            /\ Records(a.entries, a.tree)
            /\ Faithful(a.tree) => Sorted(a.entries)
      BY <2>2, <2>5, <3>2 DEF PackInv, Records
    <3> QED
      BY <2>1, <3>1, <3>3 DEF PublishedInv
  <2> QED
    BY <2>3, <2>6
<1>5. CASE PackFails
  BY <1>5 DEF PackFails, PackEnds, PackInv, PublishedInv
<1>6. ASSUME NEW t \in Tree, Edit(t)
      PROVE  PackInv' /\ PublishedInv'
  BY <1>6 DEF Edit, PackInv, PublishedInv
<1>7. ASSUME NEW a \in published, Unpack(a.entries)
      PROVE  UNCHANGED <<tree, packing, published>>
  BY <1>7 DEF Unpack
<1>8. CASE UnpackEntry \/ UnpackTears \/ UnpackFails \/ UnpackDone \/ EmptyOutput
  <2>1. UNCHANGED <<tree, packing, published>>
    BY <1>8 DEF UnpackEntry, UnpackTears, UnpackFails, UnpackDone, EmptyOutput
  <2> QED
    BY <1>1, <2>1
<1>9. ASSUME NEW c \in Content, Lose(c) \/ Arrive(c)
      PROVE  UNCHANGED <<tree, packing, published>>
  BY <1>9 DEF Lose, Arrive
<1>10. CASE UNCHANGED vars
  BY <1>1, <1>10
<1> QED
  BY <1>1, <1>2, <1>3, <1>4, <1>5, <1>6, <1>7, <1>8, <1>9, <1>10 DEF Next
-----------------------------------------------------------------------------
(* What a tree restores to.                                                *)

\* The image of a faithful tree, path by path.
LEMMA ImageIs ==
    ASSUME NEW t \in Tree, Faithful(t)
    PROVE  /\ Image(t) = [p \in Path |-> Image(t)[p]]
           /\ \A f \in DOMAIN t : Image(t)[Rel[f]] = t[f]
           /\ \A f \in DOMAIN t : \A d \in Above[Rel[f]] : Image(t)[d] = "dir"
           /\ \A p \in Path :
                 (\A f \in DOMAIN t : Rel[f] # p /\ p \notin Above[Rel[f]])
                     => Image(t)[p] = "nothing"
<1>1. \A f \in DOMAIN t :
        Rel[f] \in Path /\ Above[Rel[f]] \subseteq Path /\ Rel[f] \notin Above[Rel[f]]
  BY RoundTripAssumption
<1>2. ASSUME NEW f \in DOMAIN t
      PROVE  Image(t)[Rel[f]] = t[f]
  <2> DEFINE g == CHOOSE g \in DOMAIN t : Rel[g] = Rel[f]
  <2>1. g \in DOMAIN t /\ Rel[g] = Rel[f]
    OBVIOUS
  <2>2. g = f
    BY <2>1 DEF Faithful
  <2>3. Image(t)[Rel[f]] = t[g]
    BY <1>1 DEF Image
  <2> QED
    BY <2>2, <2>3
<1>3. ASSUME NEW f \in DOMAIN t, NEW d \in Above[Rel[f]]
      PROVE  Image(t)[d] = "dir"
  <2>1. d \in Path
    BY <1>1
  <2>2. ~ \E g \in DOMAIN t : Rel[g] = d
    BY <1>1 DEF Faithful
  <2> QED
    BY <2>1, <2>2 DEF Image
<1>4. ASSUME NEW p \in Path,
             \A f \in DOMAIN t : Rel[f] # p /\ p \notin Above[Rel[f]]
      PROVE  Image(t)[p] = "nothing"
  BY <1>4 DEF Image
<1>5. Image(t) = [p \in Path |-> Image(t)[p]]
  BY DEF Image
<1> QED
  BY <1>2, <1>3, <1>4, <1>5

\* A path whose image is a content is that of a file.
LEMMA ContentIsOfAFile ==
    ASSUME NEW t \in Tree, Faithful(t), NEW p \in Path, Image(t)[p] \in Content
    PROVE  \E f \in DOMAIN t : Rel[f] = p /\ t[f] = Image(t)[p]
<1>1. Image(t)[p] # "dir" /\ Image(t)[p] # "nothing"
  BY RoundTripAssumption
<1>2. PICK f \in DOMAIN t : Rel[f] = p \/ p \in Above[Rel[f]]
  BY <1>1, ImageIs
<1> QED
  BY <1>1, <1>2, ImageIs

\* Trees that one manifest records restore to one thing.
LEMMA OneManifestOneImage ==
    ASSUME NEW t \in Tree, Faithful(t), NEW u \in Tree, Faithful(u),
           NEW m, Records(m, t), Records(m, u)
    PROVE  Image(t) = Image(u)
<1>1. \A f \in DOMAIN t : \E g \in DOMAIN u : Rel[f] = Rel[g] /\ t[f] = u[g]
  BY DEF Records, RecordedAs
<1>2. \A g \in DOMAIN u : \E f \in DOMAIN t : Rel[f] = Rel[g] /\ t[f] = u[g]
  BY DEF Records, RecordedAs
<1>3. ASSUME NEW p \in Path
      PROVE  Image(t)[p] = Image(u)[p]
  <2>1. CASE \E f \in DOMAIN t : Rel[f] = p
    BY <1>1, <2>1, ImageIs
  <2>2. CASE \E f \in DOMAIN t : p \in Above[Rel[f]]
    <3>1. \E g \in DOMAIN u : p \in Above[Rel[g]]
      BY <1>1, <2>2
    <3> QED
      BY <2>2, <3>1, ImageIs
  <2>3. CASE \A f \in DOMAIN t : Rel[f] # p /\ p \notin Above[Rel[f]]
    <3>1. \A g \in DOMAIN u : Rel[g] # p /\ p \notin Above[Rel[g]]
      BY <1>2, <2>3
    <3> QED
      BY <2>3, <3>1, ImageIs
  <2> QED
    BY <2>1, <2>2, <2>3
<1> QED
  BY <1>3, ImageIs

\* Manifests of trees with one image, under one context, have the same entries.
LEMMA SameImageSameEntries ==
    ASSUME NEW t \in Tree, Faithful(t), NEW u \in Tree, Faithful(u),
           NEW m \in Manifest, Records(m, t), NEW k \in Manifest, Records(k, u),
           Image(t) = Image(u),
           NEW x, \A i \in DOMAIN m : m[i].context = x,
           \A i \in DOMAIN k : k[i].context = x
    PROVE  Range(m) \subseteq Range(k)
<1>1. SUFFICES ASSUME NEW i \in DOMAIN m
               PROVE  \E j \in DOMAIN k : m[i] = k[j]
  BY DEF Range
<1>2. PICK f \in DOMAIN t : RecordedAs(m[i], f, t)
  BY DEF Records
<1>3. Rel[f] \in Path /\ Image(t)[Rel[f]] = t[f] /\ t[f] \in Content
  BY ImageIs, RoundTripAssumption
<1>4. PICK g \in DOMAIN u : Rel[g] = Rel[f] /\ u[g] = t[f]
  BY <1>3, ContentIsOfAFile
<1>5. PICK j \in DOMAIN k : RecordedAs(k[j], g, u)
  BY DEF Records
<1>6. m[i].path = k[j].path /\ m[i].content = k[j].content
      /\ m[i].context = k[j].context
  BY <1>2, <1>4, <1>5 DEF RecordedAs
<1> QED
  BY <1>6, ManifestIs

-----------------------------------------------------------------------------
(* Sorted lists.                                                           *)

\* A set of natural numbers has a least one.
LEMMA LeastNatural ==
    ASSUME NEW T \in SUBSET Nat, T # {}
    PROVE  \E x \in T : \A y \in T : x <= y
<1>1. \E x \in T : \A y \in T : <<y, x>> \notin OpToRel(<, Nat)
  BY NatLessThanWellFounded, WFMin
<1>2. PICK x \in T : \A y \in T : <<y, x>> \notin OpToRel(<, Nat)
  BY <1>1
<1>3. \A y \in T : ~ (y < x)
  BY <1>2 DEF OpToRel
<1> QED
  BY <1>3

\* Where two sorted lists of the same entries agree, they agree one further.
LEMMA NextAgrees ==
    ASSUME NEW m \in Manifest, NEW k \in Manifest, Sorted(m), Sorted(k),
           Range(m) = Range(k),
           NEW x \in DOMAIN m,
           \A y \in 1 .. x - 1 : y \in DOMAIN k /\ m[y] = k[y]
    PROVE  x \in DOMAIN k /\ m[x] = k[x]
<1>1. /\ Len(m) \in Nat /\ DOMAIN m = 1 .. Len(m)
      /\ Len(k) \in Nat /\ DOMAIN k = 1 .. Len(k)
      /\ \A i \in DOMAIN m : m[i].path \in Path
      /\ \A i \in DOMAIN k : k[i].path \in Path
  BY ManifestIs
<1>2. PICK j \in DOMAIN k : m[x] = k[j]
  BY DEF Range
<1>3. j >= x
  <2>1. SUFFICES ASSUME j < x PROVE FALSE
    BY <1>1
  <2>2. j \in 1 .. x - 1 /\ j \in DOMAIN m
    BY <1>1, <2>1
  <2>3. m[j] = m[x]
    BY <1>2, <2>2
  <2> QED
    BY <1>1, <2>1, <2>2, <2>3, OrderAssumption DEF Sorted
<1>4. x \in DOMAIN k
  BY <1>1, <1>3
<1>5. PICK i \in DOMAIN m : m[i] = k[x]
  BY <1>4 DEF Range
<1>6. i >= x
  <2>1. SUFFICES ASSUME i < x PROVE FALSE
    BY <1>1
  <2>2. i \in 1 .. x - 1 /\ i \in DOMAIN k
    BY <1>1, <1>4, <2>1
  <2>3. k[i] = k[x]
    BY <1>5, <2>2
  <2> QED
    BY <1>1, <1>4, <2>1, <2>2, <2>3, OrderAssumption DEF Sorted
<1>7. CASE j = x
  BY <1>2, <1>7
<1>8. CASE i = x
  BY <1>4, <1>5, <1>8
<1>9. CASE j > x /\ i > x
  <2>1. <<k[x].path, k[j].path>> \in Order
    BY <1>1, <1>4, <1>9 DEF Sorted
  <2>2. <<m[x].path, m[i].path>> \in Order
    BY <1>1, <1>9 DEF Sorted
  <2>3. <<m[x].path, k[x].path>> \in Order /\ <<k[x].path, m[x].path>> \in Order
    BY <1>2, <1>5, <2>1, <2>2
  <2>4. m[x].path \in Path /\ k[x].path \in Path
    BY <1>1, <1>4
  <2>5. <<m[x].path, m[x].path>> \in Order
    BY <2>3, <2>4, OrderAssumption
  <2> QED
    BY <2>4, <2>5, OrderAssumption
<1> QED
  BY <1>1, <1>3, <1>6, <1>7, <1>8, <1>9

\* A set of entries is sorted in one way.
LEMMA SortedInOneWay ==
    ASSUME NEW m \in Manifest, NEW k \in Manifest, Sorted(m), Sorted(k),
           Range(m) = Range(k)
    PROVE  m = k
<1> DEFINE Agree(i) == i \in DOMAIN m /\ i \in DOMAIN k /\ m[i] = k[i]
           T == {i \in DOMAIN m \union DOMAIN k : ~ Agree(i)}
<1>1. /\ Len(m) \in Nat /\ DOMAIN m = 1 .. Len(m)
      /\ Len(k) \in Nat /\ DOMAIN k = 1 .. Len(k)
  BY ManifestIs
<1>2. T = {}
  <2>1. SUFFICES ASSUME T # {} PROVE FALSE
    OBVIOUS
  <2>2. T \in SUBSET Nat
    BY <1>1
  <2>3. PICK x \in T : \A y \in T : x <= y
    BY <2>1, <2>2, LeastNatural
  <2>4. x \in Nat /\ (x \in DOMAIN m \/ x \in DOMAIN k) /\ ~ Agree(x)
    BY <2>2, <2>3
  <2>5. \A y \in 1 .. x - 1 : Agree(y)
    <3>1. ASSUME NEW y \in 1 .. x - 1 PROVE Agree(y)
      <4>1. y \in DOMAIN m \union DOMAIN k
        BY <1>1, <2>4
      <4>2. y \notin T
        BY <2>3, <2>4
      <4> QED
        BY <4>1, <4>2
    <3> QED
      BY <3>1
  <2>6. CASE x \in DOMAIN m
    <3>1. x \in DOMAIN k /\ m[x] = k[x]
      BY <2>5, <2>6, NextAgrees
    <3> QED
      BY <2>4, <2>6, <3>1
  <2>7. CASE x \in DOMAIN k
    <3>1. \A y \in 1 .. x - 1 : y \in DOMAIN m /\ k[y] = m[y]
      BY <2>5
    <3>2. x \in DOMAIN m /\ k[x] = m[x]
      BY <2>7, <3>1, NextAgrees
    <3> QED
      BY <2>4, <2>7, <3>2
  <2> QED
    BY <2>4, <2>6, <2>7
<1>3. \A i \in DOMAIN m \union DOMAIN k : Agree(i)
  BY <1>2
<1>4. DOMAIN m = DOMAIN k /\ \A i \in DOMAIN m : m[i] = k[i]
  BY <1>3
<1>5. Len(m) = Len(k)
  <2>1. ~ (Len(m) < Len(k))
    BY <1>1, <1>4, Len(k) \in DOMAIN k \/ Len(k) = 0
  <2>2. ~ (Len(k) < Len(m))
    BY <1>1, <1>4, Len(m) \in DOMAIN m \/ Len(m) = 0
  <2>3. \A a, b \in Nat : ~ (a < b) /\ ~ (b < a) => a = b
    OBVIOUS
  <2>4. Len(m) \in Nat /\ Len(k) \in Nat
    BY <1>1
  <2> QED
    BY <2>1, <2>2, <2>3, <2>4
<1> QED
  BY <1>1, <1>4, <1>5 DEF Manifest
-----------------------------------------------------------------------------
(* What unpack has written.                                                *)

\* While unpack runs, what is before its entry is in place, directories too.
LEMMA UnpackStep ==
    Types /\ PrefixIsInPlace /\ UnpackInv /\ [Next]_vars
        => PrefixIsInPlace' /\ UnpackInv'
<1> SUFFICES ASSUME Types, PrefixIsInPlace, UnpackInv, [Next]_vars
             PROVE  PrefixIsInPlace' /\ UnpackInv'
  OBVIOUS
<1>1. CASE UNCHANGED unpacking
  BY <1>1 DEF PrefixIsInPlace, UnpackInv
<1>2. ASSUME NEW a \in published, Unpack(a.entries)
      PROVE  PrefixIsInPlace' /\ UnpackInv'
  <2>1. next' = 1 /\ restored' = None
    BY <1>2 DEF Unpack
  <2> QED
    BY <2>1 DEF PrefixIsInPlace, UnpackInv
<1>3. CASE UnpackEntry
  <2> DEFINE p == Entry.path
             c == Entry.content
  <2>1. /\ AtEntry /\ CanWrite(p) /\ output' = Written(p, c)
        /\ next' = next + 1 /\ job' = job /\ restored' = restored
    BY <1>3 DEF UnpackEntry
  <2>2. /\ job # None /\ job \in Manifest /\ next \in 1 .. Len(job)
        /\ p = job[next].path /\ c = job[next].content
    BY <2>1, ManifestIs DEF AtEntry, Entry, Types, TypeOK
  <2>3. /\ Len(job) \in Nat
        /\ \A i \in 1 .. Len(job) :
              job[i].path \in Path /\ job[i].content \in Content
    BY <2>2, ManifestIs
  <2>4. p \in Path /\ c \in Content
    BY <2>2, <2>3
  <2> HIDE DEF p, c
  <2>5. /\ output'[p] = c
        /\ \A q \in Path : q # p /\ q \in Above[p] => output'[q] = "dir"
        /\ \A q \in Path : q # p /\ q \notin Above[p] => output'[q] = output[q]
    BY <2>1, <2>4, WrittenIs
  <2>6. /\ \A d \in Above[p] : d \in Path /\ d # p
        /\ \A d \in Above[p] : output[d] \in {"nothing", "dir"}
        /\ output[p] # "dir"
    BY <2>1, <2>4, RoundTripAssumption DEF CanWrite
  <2>7. ASSUME NEW i \in 1 .. next' - 1
        PROVE  \E j \in i .. next' - 1 :
                 job[j].path = job[i].path /\ output'[job[i].path] = job[j].content
    <3>1. CASE job[i].path = p
      <4>1. next \in i .. next' - 1
        BY <2>1, <2>2
      <4> QED
        BY <2>2, <2>5, <3>1, <4>1
    <3>2. CASE job[i].path # p
      <4>1. i \in 1 .. next - 1
        BY <2>1, <2>2, <3>2
      <4>2. PICK j \in i .. next - 1 :
              job[j].path = job[i].path /\ output[job[i].path] = job[j].content
        BY <2>2, <4>1 DEF PrefixIsInPlace
      <4>3. job[i].path \in Path /\ job[j].content \in Content
        BY <2>2, <2>3, <4>1, <4>2
      <4>4. job[i].path \notin Above[p]
        BY <2>6, <4>2, <4>3, RoundTripAssumption
      <4>5. output'[job[i].path] = job[j].content
        BY <2>5, <3>2, <4>2, <4>3, <4>4
      <4>6. j \in i .. next' - 1
        BY <2>1, <2>2, <4>1, <4>2
      <4> QED
        BY <4>2, <4>5, <4>6
    <3> QED
      BY <3>1, <3>2
  <2>8. ASSUME NEW i \in 1 .. next' - 1, NEW d \in Above[job[i].path]
        PROVE  output'[d] = "dir"
    <3>1. i \in 1 .. Len(job)
      BY <2>1, <2>2, <2>3
    <3>2. d \in Path
      BY <2>3, <3>1, RoundTripAssumption
    <3>3. CASE i = next
      <4>1. d \in Above[p]
        BY <2>2, <3>3
      <4>2. d \in Path /\ d # p
        BY <2>6, <4>1
      <4> QED
        BY <2>5, <4>1, <4>2
    <3>4. CASE i # next
      <4>1. i \in 1 .. next - 1
        BY <2>1, <2>2, <3>4
      <4>2. output[d] = "dir"
        BY <2>2, <4>1 DEF UnpackInv
      <4>3. d \in Path /\ d # p
        BY <2>6, <3>2, <4>2
      <4> QED
        BY <2>5, <4>2, <4>3
    <3> QED
      BY <3>3, <3>4
  <2>9. restored' = None
    BY <2>1, <2>2 DEF UnpackInv
  <2> QED
    BY <2>1, <2>7, <2>8, <2>9 DEF PrefixIsInPlace, UnpackInv
<1>4. CASE UnpackTears \/ UnpackFails \/ UnpackDone
  <2>1. job' = None
    BY <1>4 DEF UnpackTears, UnpackFails, UnpackDone, UnpackEnds
  <2> QED
    BY <2>1 DEF PrefixIsInPlace, UnpackInv
<1>5. CASE EmptyOutput
  <2>1. job' = None
    BY <1>5 DEF EmptyOutput
  <2> QED
    BY <2>1 DEF PrefixIsInPlace, UnpackInv
<1>6. ASSUME \/ \E i \in Identity : PackList(i)
             \/ PackRead \/ PackPublish \/ PackFails
             \/ \E t \in Tree : Edit(t)
             \/ \E c \in Content : Lose(c) \/ Arrive(c)
      PROVE  UNCHANGED unpacking
  BY <1>6 DEF PackList, PackRead, PackPublish, PackFails, Edit, Lose, Arrive
<1> QED
  BY <1>1, <1>2, <1>3, <1>4, <1>5, <1>6 DEF Next

\* What may be at path p of a directory that only unpacks of t wrote.
Fits(x, p, t) ==
    \/ x \in {"nothing", Image(t)[p]}
    \/ x = "torn" /\ Image(t)[p] \in Content

\* A write of an entry of t, whole or not, leaves a directory with parts of t.
LEMMA WriteFits ==
    ASSUME NEW t \in Tree, Faithful(t), NEW f \in DOMAIN t, NEW c,
           \A p \in Path : Fits(output[p], p, t),
           c \in {t[f], "torn", output[Rel[f]]}
    PROVE  \A p \in Path : Fits(Written(Rel[f], c)[p], p, t)
<1>1. Rel[f] \in Path /\ t[f] \in Content /\ Image(t)[Rel[f]] = t[f]
  BY RoundTripAssumption, ImageIs
<1>2. Fits(c, Rel[f], t)
  BY <1>1 DEF Fits
<1>3. ASSUME NEW p \in Path, p # Rel[f]
      PROVE  Fits(Written(Rel[f], c)[p], p, t)
  <2>1. CASE p \in Above[Rel[f]]
    BY <1>1, <1>3, <2>1, WrittenIs, ImageIs DEF Fits
  <2>2. CASE p \notin Above[Rel[f]]
    BY <1>1, <1>3, <2>2, WrittenIs
  <2> QED
    BY <2>1, <2>2
<1> QED
  BY <1>1, <1>2, <1>3, WrittenIs

\* An unpack of a manifest of t that ends well has put all of t in place.
LEMMA DoneIsWhole ==
    ASSUME Types, PrefixIsInPlace, UnpackInv, UnpackDone,
           NEW t \in Tree, Faithful(t), Records(job, t),
           \A p \in Path : Fits(output[p], p, t)
    PROVE  output = Image(t)
<1>1. /\ job # None /\ job \in Manifest /\ next > Len(job)
      /\ next \in 1 .. Len(job) + 1
      /\ output = [p \in Path |-> output[p]]
  BY DEF UnpackDone, Types, TypeOK
<1>2. /\ Len(job) \in Nat /\ DOMAIN job = 1 .. Len(job)
      /\ 1 .. next - 1 = DOMAIN job
  BY <1>1, ManifestIs
<1>3. ASSUME NEW f \in DOMAIN t
      PROVE  output[Rel[f]] = t[f]
  <2>1. PICK i \in DOMAIN job : RecordedAs(job[i], f, t)
    BY DEF Records
  <2>2. PICK j \in i .. next - 1 :
          job[j].path = job[i].path /\ output[job[i].path] = job[j].content
    BY <1>1, <1>2 DEF PrefixIsInPlace
  <2>3. j \in DOMAIN job
    BY <1>1, <1>2, <2>2
  <2>4. PICK g \in DOMAIN t : RecordedAs(job[j], g, t)
    BY <2>3 DEF Records
  <2>5. g = f
    BY <2>1, <2>2, <2>4 DEF RecordedAs, Faithful
  <2> QED
    BY <2>1, <2>2, <2>4, <2>5 DEF RecordedAs
<1>4. ASSUME NEW f \in DOMAIN t, NEW d \in Above[Rel[f]]
      PROVE  output[d] = "dir"
  <2>1. PICK i \in DOMAIN job : RecordedAs(job[i], f, t)
    BY DEF Records
  <2>2. d \in Above[job[i].path] /\ i \in 1 .. next - 1
    BY <1>2, <2>1 DEF RecordedAs
  <2> QED
    BY <1>1, <2>2 DEF UnpackInv
<1>5. ASSUME NEW p \in Path
      PROVE  output[p] = Image(t)[p]
  <2>1. CASE \E f \in DOMAIN t : Rel[f] = p
    BY <1>3, <2>1, ImageIs
  <2>2. CASE \E f \in DOMAIN t : p \in Above[Rel[f]]
    BY <1>4, <2>2, ImageIs
  <2>3. CASE \A f \in DOMAIN t : Rel[f] # p /\ p \notin Above[Rel[f]]
    <3>1. Image(t)[p] = "nothing"
      BY <2>3, ImageIs
    <3>2. Image(t)[p] \notin Content
      BY <3>1, RoundTripAssumption
    <3> QED
      BY <3>1, <3>2 DEF Fits
  <2> QED
    BY <2>1, <2>2, <2>3
<1> QED
  BY <1>1, <1>5, ImageIs
\* The output directory holds parts of the tree, and all after a good end.
LEMMA OutputStep ==
    Types /\ PrefixIsInPlace /\ UnpackInv /\ OutputInv /\ [Next]_vars
        => OutputInv'
<1> SUFFICES ASSUME Types, PrefixIsInPlace, UnpackInv, OutputInv, [Next]_vars,
                    NEW t \in Tree, Faithful(t), \A m \in wrote' : Records(m, t)
             PROVE  /\ \A p \in Path : Fits(output'[p], p, t)
                    /\ restored' # None => output' = Image(t)
  BY DEF OutputInv, OnlyOf, Fits
<1>1. ASSUME \A m \in wrote : Records(m, t)
      PROVE  /\ \A p \in Path : Fits(output[p], p, t)
             /\ restored # None => output = Image(t)
  <2>1. OnlyOf(t)
    BY <1>1 DEF OnlyOf
  <2> QED
    BY <2>1 DEF OutputInv, Fits
<1>2. CASE UNCHANGED unpacking
  BY <1>1, <1>2
<1>3. ASSUME NEW a \in published, Unpack(a.entries)
      PROVE  /\ \A p \in Path : Fits(output'[p], p, t)
             /\ restored' # None => output' = Image(t)
  BY <1>1, <1>3 DEF Unpack
<1>4. ASSUME AtEntry, wrote' = wrote
      PROVE  /\ \A m \in wrote : Records(m, t)
             /\ \E f \in DOMAIN t : RecordedAs(Entry, f, t)
  <2>1. job \in wrote /\ next \in DOMAIN job
    BY <1>4 DEF AtEntry, Types, TypeOK
  <2> QED
    BY <1>4, <2>1 DEF Records, Entry
<1>5. CASE UnpackEntry
  <2>1. /\ AtEntry /\ output' = Written(Entry.path, Entry.content)
        /\ wrote' = wrote /\ restored' = restored
    BY <1>5 DEF UnpackEntry
  <2>2. PICK f \in DOMAIN t : RecordedAs(Entry, f, t)
    BY <1>4, <2>1
  <2>3. output' = Written(Rel[f], t[f])
    BY <2>1, <2>2 DEF RecordedAs
  <2>4. \A p \in Path : Fits(output[p], p, t)
    BY <1>1, <1>4, <2>1
  <2>5. \A p \in Path : Fits(Written(Rel[f], t[f])[p], p, t)
    BY <2>4, WriteFits
  <2>6. restored' = None
    BY <2>1 DEF UnpackInv, AtEntry
  <2> QED
    BY <2>3, <2>5, <2>6
<1>6. CASE UnpackTears
  <2>1. /\ AtEntry
        /\ output' \in {Written(Entry.path, "torn"),
                        Written(Entry.path, output[Entry.path])}
        /\ wrote' = wrote /\ restored' = restored
    BY <1>6 DEF UnpackTears
  <2>2. PICK f \in DOMAIN t : RecordedAs(Entry, f, t)
    BY <1>4, <2>1
  <2>3. PICK c \in {"torn", output[Rel[f]]} : output' = Written(Rel[f], c)
    BY <2>1, <2>2 DEF RecordedAs
  <2>4. \A p \in Path : Fits(output[p], p, t)
    BY <1>1, <1>4, <2>1
  <2>5. \A p \in Path : Fits(Written(Rel[f], c)[p], p, t)
    BY <2>3, <2>4, WriteFits
  <2>6. restored' = None
    BY <2>1 DEF UnpackInv, AtEntry
  <2> QED
    BY <2>3, <2>5, <2>6
<1>7. CASE UnpackFails
  BY <1>1, <1>7 DEF UnpackFails
<1>8. CASE UnpackDone
  <2>1. /\ job \in wrote /\ wrote' = wrote /\ output' = output
    BY <1>8 DEF UnpackDone, Types, TypeOK
  <2>2. \A p \in Path : Fits(output[p], p, t)
    BY <1>1, <2>1
  <2>3. Records(job, t)
    BY <2>1
  <2>4. output = Image(t)
    BY <1>8, <2>2, <2>3, DoneIsWhole
  <2> QED
    BY <2>1, <2>2, <2>4
<1>9. CASE EmptyOutput
  <2>1. output' = Empty /\ restored' = None
    BY <1>9 DEF EmptyOutput
  <2>2. \A p \in Path : output'[p] = "nothing"
    BY <2>1 DEF Empty
  <2> QED
    BY <2>1, <2>2 DEF Fits
<1>10. ASSUME \/ \E i \in Identity : PackList(i)
              \/ PackRead \/ PackPublish \/ PackFails
              \/ \E u \in Tree : Edit(u)
              \/ \E c \in Content : Lose(c) \/ Arrive(c)
       PROVE  UNCHANGED unpacking
  BY <1>10 DEF PackList, PackRead, PackPublish, PackFails, Edit, Lose, Arrive
<1>11. CASE UNCHANGED vars
  BY <1>2, <1>11
<1> QED
  BY <1>2, <1>3, <1>5, <1>6, <1>7, <1>8, <1>9, <1>10, <1>11 DEF Next

-----------------------------------------------------------------------------
(* The theorems.                                                           *)

\* IInv, of every behaviour of pack and unpack.
THEOREM Inductive == Spec => []IInv
<1>1. Init => IInv
  <2> SUFFICES ASSUME Init PROVE IInv
    OBVIOUS
  <2>1. Types
    BY InitTypes
  <2>2. files = None /\ job = None /\ published = {} /\ restored = None
        /\ output = Empty /\ entries = <<>> /\ wrote = {}
    BY DEF Init
  <2>3. OutputInv
    BY <2>2 DEF OutputInv, Empty
  <2>4. PackInv /\ PublishedInv /\ PrefixIsInPlace /\ UnpackInv
    BY <2>2 DEF PackInv, PublishedInv, PrefixIsInPlace, UnpackInv
  <2> QED
    BY <2>1, <2>3, <2>4 DEF IInv, Types
<1>2. IInv /\ [Next]_vars => IInv'
  BY TypeStep, PackStep, UnpackStep, OutputStep DEF IInv, Types
<1> QED
  BY <1>1, <1>2, PTL DEF Spec

\* PrefixIsInPlace: where unpack stands tells which files are in place.
THEOREM WhereItStopsTells == Spec => []PrefixIsInPlace
<1>1. IInv => PrefixIsInPlace
  BY DEF IInv
<1> QED
  BY <1>1, Inductive, PTL

\* RestoresTheTree: an unpack that ends well in a directory that only unpacks
\* of that tree wrote has restored the tree.
THEOREM Restores == Spec => []RestoresTheTree
<1>1. IInv => RestoresTheTree
  <2> SUFFICES ASSUME IInv, NEW a \in Packs, restored = a.entries,
                      wrote \subseteq
                        {b.entries : b \in {x \in Packs : x.tree = a.tree}}
               PROVE  output = Image(a.tree)
    BY DEF RestoresTheTree
  <2>1. /\ a \in published /\ a.tree # None /\ Faithful(a.tree)
        /\ a.tree \in Tree /\ a.entries \in Manifest
    BY DEF Packs, IInv, TypeOK
  <2>2. restored # None
    BY <2>1, NoneAssumption
  <2>3. \A m \in wrote : Records(m, a.tree)
    <3>1. ASSUME NEW m \in wrote
          PROVE  Records(m, a.tree)
      <4>1. PICK b \in published : b.tree = a.tree /\ m = b.entries
        BY DEF Packs
      <4> QED
        BY <2>1, <4>1 DEF IInv, PublishedInv
    <3> QED
      BY <3>1
  <2> QED
    BY <2>1, <2>2, <2>3 DEF IInv, OutputInv, OnlyOf
<1> QED
  BY <1>1, Inductive, PTL

\* ManifestNamesTree: packs have one manifest if and only if they are of trees
\* that restore to one thing, under one identity.
THEOREM OneTreeOneManifest == Spec => []ManifestNamesTree
<1>1. IInv => ManifestNamesTree
  <2> SUFFICES ASSUME IInv, NEW a \in Packs, NEW b \in Packs
               PROVE  a.entries = b.entries
                        <=> /\ Image(a.tree) = Image(b.tree)
                            /\ a.identity = b.identity
    BY DEF ManifestNamesTree
  <2>1. /\ a.tree \in Tree /\ Faithful(a.tree) /\ a.entries \in Manifest
        /\ DOMAIN a.tree # {} /\ Records(a.entries, a.tree) /\ Sorted(a.entries)
        /\ \A i \in DOMAIN a.entries : a.entries[i].context = a.identity
    BY DEF Packs, IInv, TypeOK, PublishedInv
  <2>2. /\ b.tree \in Tree /\ Faithful(b.tree) /\ b.entries \in Manifest
        /\ DOMAIN b.tree # {} /\ Records(b.entries, b.tree) /\ Sorted(b.entries)
        /\ \A i \in DOMAIN b.entries : b.entries[i].context = b.identity
    BY DEF Packs, IInv, TypeOK, PublishedInv
  <2>3. ASSUME a.entries = b.entries
        PROVE  Image(a.tree) = Image(b.tree) /\ a.identity = b.identity
    <3>1. Image(a.tree) = Image(b.tree)
      BY <2>1, <2>2, <2>3, OneManifestOneImage
    <3>2. DOMAIN a.entries # {}
      BY <2>1 DEF Records
    <3> QED
      BY <2>1, <2>2, <2>3, <3>1, <3>2
  <2>4. ASSUME Image(a.tree) = Image(b.tree), a.identity = b.identity
        PROVE  a.entries = b.entries
    <3>1. Range(a.entries) \subseteq Range(b.entries)
      BY <2>1, <2>2, <2>4, SameImageSameEntries
    <3>2. Range(b.entries) \subseteq Range(a.entries)
      BY <2>1, <2>2, <2>4, SameImageSameEntries
    <3>3. Range(a.entries) = Range(b.entries)
      BY <3>1, <3>2
    <3> QED
      BY <2>1, <2>2, <3>3, SortedInOneWay
  <2> QED
    BY <2>3, <2>4
<1> QED
  BY <1>1, Inductive, PTL
=============================================================================
