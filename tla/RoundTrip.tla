------------------------------ MODULE RoundTrip ------------------------------
(***************************************************************************)
(* A directory through `pack` (cli/pack.rs), a manifest, and `unpack`      *)
(* (cli/unpack.rs) into an output directory.  pack lists the files in the  *)
(* order the file system walks them, sorts the list by the paths it will   *)
(* record, and reads one file after the other; the owner edits the tree    *)
(* meanwhile.  unpack writes one file after the other and stops at the     *)
(* first entry it cannot restore; either may die; blocks of some content   *)
(* may be missing from the store, and come back.                           *)
(*                                                                         *)
(* A manifest is the sequence of its entries: a path, a content, and the   *)
(* context that --identity gives to all entries of one pack.  Its file     *)
(* name is a hash of exactly that.  All packs use one chunking profile.    *)
(***************************************************************************)
EXTENDS Naturals, Sequences, FiniteSets, SequencesExt

CONSTANTS Tree,    \* trees: functions from the files in them to contents
          Path,    \* relative paths as a manifest records them
          Rel,     \* Rel[f]: the path recorded for file f
          Order,   \* pairs <<p, q>> of paths: p comes before q bytewise
          Above,   \* Above[p]: the paths of the directories that p is in
          Content, \* contents of files
          Identity,\* values of --identity, None for a pack without
          None,    \* no tree, no manifest
          MaxPacks,\* bound: manifests that are written
          Bounded  \* bound: edits, packs and unpacks wait for each other

ASSUME RoundTripAssumption ==
    /\ \A t \in Tree :
          /\ t = [f \in DOMAIN t |-> t[f]]
          /\ IsFiniteSet(DOMAIN t)
          /\ \A f \in DOMAIN t : Rel[f] \in Path /\ t[f] \in Content
    /\ Above \in [Path -> SUBSET Path]
    /\ \A p \in Path : p \notin Above[p]
    /\ Content \intersect {"nothing", "dir", "torn"} = {}
    /\ MaxPacks \in Nat /\ Bounded \in BOOLEAN

\* Bytewise comparison of paths is a strict total order.
ASSUME OrderAssumption ==
    /\ \A p, q \in Path : p # q => <<p, q>> \in Order \/ <<q, p>> \in Order
    /\ \A p, q, r \in Path :
          <<p, q>> \in Order /\ <<q, r>> \in Order => <<p, r>> \in Order
    /\ \A p \in Path : <<p, p>> \notin Order

VARIABLES tree,      \* the directory that is packed
          files,     \* what pack has still to read; None if none runs
          entries,   \* the entries of the manifest it builds
          context,   \* the context it gives them
          asOf,      \* history: the tree, while no edit followed the listing
          published, \* manifests, each with the pack it is of
          readable,  \* contents whose blocks the store can serve
          job,       \* the manifest unpack restores; None if none runs
          next,      \* the entry it is at
          output,    \* what is at each path of the output directory
          restored,  \* the manifest of an unpack that ended well, the last
          wrote      \* history: manifests unpacked since output was empty

packing == <<files, entries, context, asOf>>
unpacking == <<job, next, output, restored, wrote>>
vars == <<tree, packing, published, readable, unpacking>>

Empty == [p \in Path |-> "nothing"]

Init ==
    /\ tree \in Tree
    /\ files = None /\ entries = <<>> /\ context = None /\ asOf = None
    /\ published = {}
    /\ readable = {}
    /\ job = None /\ next = 1
    /\ output = Empty
    /\ restored = None
    /\ wrote = {}

-----------------------------------------------------------------------------
(* pack.                                                                   *)

\* Slip: the list stays in the order of the walk.
Listings_Unsorted(t) == SetToSeqs(DOMAIN t)

\* Any walk, sorted by path; the sort is stable, so files with one and the
\* same path (`a\b` and `a/b`, after replace) stay in the order of the walk.
Listings(t) ==
    {s \in SetToSeqs(DOMAIN t) :
        \A i, j \in DOMAIN s : i < j => <<Rel[s[j]], Rel[s[i]]>> \notin Order}

\* Context::ANONYMOUS, or Context::derive: a hash tells identities apart.
ContextOf(identity) == IF identity = None THEN "anonymous" ELSE identity
Context == {ContextOf(i) : i \in Identity}

\* `nothing to pack` is an error.
PackList(identity) ==
    /\ files = None
    /\ Bounded => job = None
    /\ Cardinality(published) < MaxPacks
    /\ tree # <<>>
    /\ files' \in Listings(tree)
    /\ entries' = <<>>
    /\ context' = ContextOf(identity)
    /\ asOf' = tree
    /\ UNCHANGED <<tree, published, readable, unpacking>>

EntryOf(f, c) == [path |-> Rel[f], content |-> c, context |-> context]

\* Slip: a file that cannot be read any more is recorded as an empty one.
PackRead_Vanished ==
    /\ files \notin {None, <<>>}
    /\ LET f == Head(files) IN
        entries' = Append(entries,
                       EntryOf(f, IF f \in DOMAIN tree THEN tree[f] ELSE None))
    /\ files' = Tail(files)
    /\ UNCHANGED <<tree, context, asOf, published, readable, unpacking>>

\* std::fs::read, build_fragment_tree, and the entry.
PackRead ==
    /\ files \notin {None, <<>>}
    /\ LET f == Head(files) IN
        /\ f \in DOMAIN tree
        /\ entries' = Append(entries, EntryOf(f, tree[f]))
        /\ readable' = readable \union {tree[f]}
    /\ files' = Tail(files)
    /\ UNCHANGED <<tree, context, asOf, published, unpacking>>

PackEnds == files' = None /\ entries' = <<>> /\ context' = None /\ asOf' = None

\* seal_active, content_hash, write_manifest.
PackPublish ==
    /\ files = <<>>
    /\ published' = published \union
         {[entries |-> entries, tree |-> asOf, identity |-> context]}
    /\ PackEnds
    /\ UNCHANGED <<tree, readable, unpacking>>

\* A listed file is gone, or the process dies: no manifest.
PackFails ==
    /\ files # None
    /\ PackEnds
    /\ UNCHANGED <<tree, published, readable, unpacking>>

-----------------------------------------------------------------------------
(* unpack.                                                                 *)

Unpack(m) ==
    /\ job = None
    /\ Bounded => files = None
    /\ job' = m
    /\ next' = 1
    /\ restored' = None
    /\ wrote' = wrote \union {m}
    /\ UNCHANGED <<tree, packing, published, readable, output>>

UnpackEnds == job' = None /\ next' = 1

Entry == job[next]
AtEntry == job # None /\ next \in DOMAIN job

\* create_dir_all of the parent and fs::write succeed.
CanWrite(p) ==
    /\ \A d \in Above[p] : output[d] \in {"nothing", "dir"}
    /\ output[p] # "dir"

Written(p, c) ==
    [q \in Path |-> CASE q = p -> c
                      [] q \in Above[p] -> "dir"
                      [] OTHER -> output[q]]

\* Slip: a file that is there already is taken as restored.
UnpackEntry_SkipsExisting ==
    /\ AtEntry
    /\ Entry.content \in readable
    /\ CanWrite(Entry.path)
    /\ output' = Written(Entry.path,
                         IF output[Entry.path] = "nothing" THEN Entry.content
                         ELSE output[Entry.path])
    /\ next' = next + 1
    /\ UNCHANGED <<tree, packing, published, readable, job, restored, wrote>>

UnpackEntry ==
    /\ AtEntry
    /\ Entry.content \in readable
    /\ CanWrite(Entry.path)
    /\ output' = Written(Entry.path, Entry.content)
    /\ next' = next + 1
    /\ UNCHANGED <<tree, packing, published, readable, job, restored, wrote>>

\* The process dies before, in or after the write of an entry.
UnpackTears ==
    /\ AtEntry
    /\ Entry.content \in readable
    /\ CanWrite(Entry.path)
    /\ output' \in {Written(Entry.path, "torn"),
                    Written(Entry.path, output[Entry.path])}
    /\ UnpackEnds
    /\ UNCHANGED <<tree, packing, published, readable, restored, wrote>>

\* Slip: an entry that cannot be read is passed over.
UnpackFails_PassesOver ==
    /\ AtEntry
    /\ Entry.content \notin readable \/ ~CanWrite(Entry.path)
    /\ next' = next + 1
    /\ UNCHANGED <<tree, packing, published, readable, job, output, restored,
                   wrote>>

\* The first entry that cannot be restored ends the command.
UnpackFails ==
    /\ AtEntry
    /\ Entry.content \notin readable \/ ~CanWrite(Entry.path)
    /\ UnpackEnds
    /\ UNCHANGED <<tree, packing, published, readable, output, restored, wrote>>

UnpackDone ==
    /\ job # None /\ next > Len(job)
    /\ restored' = job
    /\ UnpackEnds
    /\ UNCHANGED <<tree, packing, published, readable, output, wrote>>

-----------------------------------------------------------------------------
(* The owner and the store.  Nothing of it disturbs unpack, except a block *)
(* that goes missing.                                                      *)

Edit(t) ==
    /\ Bounded => job = None
    /\ t # tree
    /\ tree' = t
    /\ asOf' = None
    /\ UNCHANGED <<files, entries, context, published, readable, unpacking>>

EmptyOutput ==
    /\ job = None
    /\ output # Empty
    /\ output' = Empty
    /\ restored' = None
    /\ wrote' = {}
    /\ UNCHANGED <<tree, packing, published, readable, job, next>>

\* A copy of the store lacks packs that come later, or loses some.
Lose(c) ==
    /\ Bounded => files = None
    /\ readable' = readable \ {c}
    /\ UNCHANGED <<tree, packing, published, unpacking>>

Arrive(c) ==
    /\ Bounded => files = None
    /\ readable' = readable \union {c}
    /\ UNCHANGED <<tree, packing, published, unpacking>>

-----------------------------------------------------------------------------

Next ==
    \/ \E i \in Identity : PackList(i)
    \/ PackRead
    \/ PackPublish
    \/ PackFails
    \/ \E a \in published : Unpack(a.entries)
    \/ UnpackEntry
    \/ UnpackTears
    \/ UnpackFails
    \/ UnpackDone
    \/ \E t \in Tree : Edit(t)
    \/ EmptyOutput
    \/ \E c \in Content : Lose(c) \/ Arrive(c)

Spec == Init /\ [][Next]_vars
-----------------------------------------------------------------------------
(* Properties.                                                             *)

Manifest == Seq([path : Path, content : Content, context : Context])
ASSUME NoneAssumption == None \notin Manifest

\* Manifests are sequences of entries, the output directory has one thing at
\* each path, and unpack is at an entry of its manifest or past the last.
TypeOK ==
    /\ tree \in Tree
    /\ files # None => \A i \in DOMAIN files : Rel[files[i]] \in Path
    /\ entries \in Manifest
    /\ asOf \in Tree \union {None}
    /\ context \in Context \union {None}
    /\ \A a \in published : a.entries \in Manifest /\ a.tree \in Tree \union {None}
    /\ readable \subseteq Content
    /\ job # None => job \in wrote /\ next \in 1 .. Len(job) + 1
    /\ output \in [Path -> Content \union {"nothing", "dir", "torn"}]
    /\ restored # None => restored \in wrote
    /\ wrote \subseteq {a.entries : a \in published}

\* No two files of t are recorded with one path, none where another needs a
\* directory: true of every tree without a `\` or invalid UTF-8 in a name.
Faithful(t) ==
    \A f, g \in DOMAIN t :
        f # g => Rel[f] # Rel[g] /\ Rel[f] \notin Above[Rel[g]]

\* What is at each path when t has been restored.
Image(t) ==
    [p \in Path |->
        IF \E f \in DOMAIN t : Rel[f] = p
        THEN t[CHOOSE f \in DOMAIN t : Rel[f] = p]
        ELSE IF \E f \in DOMAIN t : p \in Above[Rel[f]] THEN "dir"
        ELSE "nothing"]

\* The packs that no edit fell into.
Packs == {a \in published : a.tree # None /\ Faithful(a.tree)}

\* "so the same directory contents always yield the same manifest hash"
\* (pack.rs:57): packs of one tree under one identity have one manifest,
\* however the tree was walked and whatever happened in between; packs of
\* trees that restore to different things, or of other identities, do not.
ManifestNamesTree ==
    \A a, b \in Packs :
        a.entries = b.entries
            <=> Image(a.tree) = Image(b.tree) /\ a.identity = b.identity

\* An unpack that ends well has restored the tree exactly, each file and no
\* other, if only unpacks of packs of that tree wrote the directory: whatever
\* became of the tree since, and of earlier unpacks that failed or died, which
\* leave files of the manifest and perhaps one cut short.
RestoresTheTree ==
    \A a \in Packs :
        (restored = a.entries
            /\ wrote \subseteq {b.entries : b \in {x \in Packs : x.tree = a.tree}})
                => output = Image(a.tree)

\* While unpack runs, the entries before the one it is at are in place, in an
\* output directory with any past: it never gets past an entry it could not
\* restore, so where it stops tells what is there.
PrefixIsInPlace ==
    job # None =>
        \A i \in 1 .. next - 1 : \E j \in i .. next - 1 :
            /\ job[j].path = job[i].path
            /\ output[job[i].path] = job[j].content
-----------------------------------------------------------------------------
(* The inductive invariant.                                                *)

RecordedAs(e, f, t) == e.path = Rel[f] /\ e.content = t[f]

\* The entries of m are those of the files of t.
Records(m, t) ==
    /\ \A i \in DOMAIN m : \E f \in DOMAIN t : RecordedAs(m[i], f, t)
    /\ \A f \in DOMAIN t : \E i \in DOMAIN m : RecordedAs(m[i], f, t)

Sorted(m) ==
    \A i, j \in DOMAIN m : i < j => <<m[i].path, m[j].path>> \in Order

\* The files that are left are files.
FilesType ==
    /\ files # None => files \in Seq(UNION {DOMAIN t : t \in Tree})
    /\ files # None => context \in Context

\* Between an undisturbed pack's listing and its manifest: each file of the
\* tree is either recorded or still to read, and in order if paths differ.
PackInv ==
    /\ files # None => \A i \in DOMAIN entries : entries[i].context = context
    /\ files # None /\ asOf # None =>
        /\ asOf = tree /\ DOMAIN tree # {}
        /\ \A i \in DOMAIN entries :
              \E f \in DOMAIN tree : RecordedAs(entries[i], f, tree)
        /\ \A i \in DOMAIN files : files[i] \in DOMAIN tree
        /\ \A f \in DOMAIN tree :
              \/ \E i \in DOMAIN entries : RecordedAs(entries[i], f, tree)
              \/ \E i \in DOMAIN files : files[i] = f
        /\ Faithful(tree) =>
              /\ Sorted(entries)
              /\ \A i \in DOMAIN entries, j \in DOMAIN files :
                    <<entries[i].path, Rel[files[j]]>> \in Order
              /\ \A i, j \in DOMAIN files :
                    i < j => <<Rel[files[i]], Rel[files[j]]>> \in Order

\* A manifest of an undisturbed pack has the entries of its tree, in order.
PublishedInv ==
    \A a \in published :
        /\ \A i \in DOMAIN a.entries : a.entries[i].context = a.identity
        /\ a.tree # None =>
            /\ DOMAIN a.tree # {}
            /\ Records(a.entries, a.tree)
            /\ Faithful(a.tree) => Sorted(a.entries)

\* Only unpacks of packs of t wrote the output directory.
OnlyOf(t) == Faithful(t) /\ \A m \in wrote : Records(m, t)

\* What is in the output directory by then: parts of what t restores to, and
\* perhaps files cut short; all of it once an unpack ended well.
OutputInv ==
    \A t \in Tree : OnlyOf(t) =>
        /\ \A p \in Path :
              \/ output[p] \in {"nothing", Image(t)[p]}
              \/ output[p] = "torn" /\ Image(t)[p] \in Content
        /\ restored # None => output = Image(t)

\* Directories stay directories while unpack runs.
UnpackInv ==
    job # None =>
        /\ restored = None
        /\ \A i \in 1 .. next - 1 : \A d \in Above[job[i].path] :
              output[d] = "dir"

\* What every command keeps: the three properties above follow from it.
IInv ==
    /\ TypeOK /\ FilesType
    /\ PackInv /\ PublishedInv
    /\ PrefixIsInPlace /\ UnpackInv /\ OutputInv
=============================================================================
