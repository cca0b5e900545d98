--------------------------- MODULE StoreRootProofs ---------------------------
(***************************************************************************)
(* Proofs about StoreRoot, for every set of partitions, blocks and         *)
(* manifests, every target and every number of events.                     *)
(***************************************************************************)
EXTENDS StoreRoot, TLAPS

USE DEF vars, gcVars, pullVars, Class

-----------------------------------------------------------------------------
(* The operators of the model.                                             *)

\* The blocks of manifests are a set of blocks.
LEMMA KeptType ==
    ASSUME NEW M \in SUBSET Manifest
    PROVE  Kept(M) \in SUBSET Hash
<1>1. \A m \in M : Blocks[m] \in SUBSET Hash
  BY StoreRootAssumption
<1> QED
  BY <1>1 DEF Kept

\* A store that was packed and collected is a copy with no torn manifest.
LEMMA OfType ==
    ASSUME NEW M \in SUBSET Manifest
    PROVE  Of(M) \in Copy
  BY KeptType DEF Of, Copy

\* Whether a partition is settled depends on its own record and content.
LEMMA SettledKept ==
    ASSUME NEW p \in Partition, Settled(p),
           record'[p] = record[p], local'[p] = local[p], target' = target
    PROVE  Settled(p)'
  BY DEF Settled, Walks, AtTarget, Provisioned, Kept

-----------------------------------------------------------------------------
(* Type correctness.                                                       *)

\* Replacing the content of one partition keeps the types.
LEMMA CopyType ==
    ASSUME TypeOK, NEW p \in Partition, NEW c \in Copy,
           c.whole \intersect c.torn = {},
           local' = [local EXCEPT ![p] = c]
    PROVE  /\ local' \in [Partition -> Copy]
           /\ \A q \in Partition : local'[q].whole \intersect local'[q].torn = {}
  BY DEF TypeOK

\* The partition a loop is at is one.
LEMMA AtType ==
    ASSUME TypeOK, LoopInv
    PROVE  /\ gcPc # "next" => gcAt \in Partition
           /\ gcAt # NoPart => gcAt \in Partition
           /\ pullAt # NoPart => pullAt \in Partition
           /\ ~(pullTodo = {}) => pullAt \in Partition
  BY DEF TypeOK, LoopInv

\* A step of gc that leaves the partitions as they are.
LEMMA GcStillTypes ==
    ASSUME TypeOK, LoopInv,
           UNCHANGED <<record, sealed, local, remote, pullVars, events>>,
           target' \in Nat, gcLeft' \subseteq Partition, exempt' \subseteq Partition,
           index' \subseteq Hash, live' \subseteq Hash,
           gcResult' \in {"none", "running", "done", "failed", "killed"},
           \/ gcAt' = NoPart /\ gcPc' = "next"
           \/ /\ gcAt' \in gcLeft' /\ gcAt' \in Provisioned
              /\ gcPc' \in {"look", "open", "mark", "copy", "swap", "moved"}
              /\ gcResult' = "running"
    PROVE  TypeOK' /\ LoopInv'
<1>1. Provisioned' = Provisioned
  BY DEF Provisioned
<1>2. gcAt' \in gcLeft' => gcAt' # NoPart
  BY StoreRootAssumption
<1> QED
  BY <1>1, <1>2 DEF TypeOK, LoopInv, GcRuns

\* A gc that is at a partition runs.
LEMMA GcAtRuns ==
    ASSUME TypeOK, LoopInv, gcPc # "next"
    PROVE  /\ gcResult = "running"
           /\ gcAt \in gcLeft /\ gcAt \in Provisioned /\ gcAt \in Partition
  BY DEF TypeOK, LoopInv, GcRuns

\* The steps of gc.
LEMMA GcTypes ==
    ASSUME TypeOK, LoopInv, GcStep
    PROVE  TypeOK' /\ LoopInv'
<1>0. /\ target \in Nat /\ gcLeft \subseteq Partition /\ exempt \subseteq Partition
      /\ index \subseteq Hash /\ live \subseteq Hash
      /\ \A p \in Partition : /\ local[p].stored \subseteq Hash
                              /\ local[p].whole \subseteq Manifest
  BY DEF TypeOK, Copy
<1>1. CASE GcStart
  <2>1. gcLeft' \subseteq Partition /\ exempt' \subseteq Partition
    BY <1>1 DEF GcStart, Scopes, Listed
  <2>2. gcAt' = NoPart /\ gcPc' = "next"
    BY <1>1 DEF GcStart, LoopInv
  <2>3. target' \in Nat
    BY <1>1, StoreRootAssumption DEF GcStart
  <2> QED
    BY <1>0, <1>1, <2>1, <2>2, <2>3, GcStillTypes DEF GcStart
<1>2. ASSUME NEW p \in Partition, GcLook(p)
      PROVE  TypeOK' /\ LoopInv'
  BY <1>0, <1>2, GcStillTypes DEF GcLook, GcRuns
<1>3. CASE GcSkip
  <2>1. gcResult = "running"
    BY <1>3, GcAtRuns DEF GcSkip
  <2> QED
    BY <1>0, <1>3, <2>1, GcStillTypes DEF GcSkip
<1>4. CASE GcGoAhead
  BY <1>0, <1>4, GcAtRuns, GcStillTypes DEF GcGoAhead, GcGoes
<1>5. CASE GcOpen
  BY <1>0, <1>5, GcAtRuns, GcStillTypes DEF GcOpen, GcGoes
<1>6. CASE GcMark
  <2>1. live' \subseteq Hash
    BY <1>0, <1>6, GcAtRuns, KeptType DEF GcMark
  <2> QED
    BY <1>0, <1>6, <2>1, GcAtRuns, GcStillTypes DEF GcMark, GcGoes
<1>7. CASE GcCopy
  BY <1>0, <1>7, GcAtRuns, GcStillTypes DEF GcCopy, GcGoes
<1>8. CASE GcMoveAside
  <2> DEFINE c == [local[gcAt] EXCEPT !.stored = {}]
  <2>1. gcAt \in Partition /\ gcResult = "running" /\ gcAt # NoPart
    BY <1>8, GcAtRuns, StoreRootAssumption DEF GcMoveAside
  <2>2. c \in Copy /\ c.whole \intersect c.torn = {}
    BY <2>1 DEF Copy, TypeOK
  <2>3. local' = [local EXCEPT ![gcAt] = c]
    BY <1>8 DEF GcMoveAside
  <2>4. /\ local' \in [Partition -> Copy]
        /\ \A q \in Partition :
              local'[q].whole \intersect local'[q].torn = {}
    BY <2>1, <2>2, <2>3, CopyType
  <2> QED
    BY <1>8, <2>1, <2>4 DEF GcMoveAside, TypeOK, LoopInv, GcRuns, Provisioned
<1>9. CASE GcPlace
  <2> DEFINE c == [local[gcAt] EXCEPT !.stored = live]
  <2>1. gcAt \in Partition /\ gcResult = "running"
    BY <1>9, GcAtRuns DEF GcPlace
  <2>2. c \in Copy /\ c.whole \intersect c.torn = {}
    BY <2>1 DEF Copy, TypeOK
  <2>3. local' = [local EXCEPT ![gcAt] = c]
    BY <1>9 DEF GcPlace
  <2>4. /\ local' \in [Partition -> Copy]
        /\ \A q \in Partition :
              local'[q].whole \intersect local'[q].torn = {}
    BY <2>1, <2>2, <2>3, CopyType
  <2> QED
    BY <1>9, <2>1, <2>4 DEF GcPlace, TypeOK, LoopInv, GcRuns, Provisioned
<1>10. CASE GcDone
  <2>1. gcAt' = NoPart /\ gcPc' = "next"
    BY <1>10 DEF GcDone, TypeOK, LoopInv
  <2> QED
    BY <1>0, <1>10, <2>1, GcStillTypes DEF GcDone
<1>11. CASE GcFails
  BY <1>0, <1>11, GcStillTypes DEF GcFails, GcEnds
<1>12. CASE GcDies
  BY <1>0, <1>12, GcStillTypes DEF GcDies, GcEnds
<1> QED
  BY <1>1, <1>2, <1>3, <1>4, <1>5, <1>6, <1>7, <1>8, <1>9, <1>10, <1>11, <1>12
  DEF GcStep

\* The steps of pull.
LEMMA PullTypes ==
    ASSUME TypeOK, LoopInv, PullStep
    PROVE  TypeOK' /\ LoopInv'
<1>1. CASE PullStart
  BY <1>1 DEF PullStart, TypeOK, LoopInv, GcRuns, Provisioned
<1>2. ASSUME NEW p \in Partition, PullList(p)
      PROVE  TypeOK' /\ LoopInv'
  <2>1. record' \in [Partition -> Class \union {"absent", "bare"}]
    BY <1>2 DEF PullList, TypeOK
  <2>2. Provisioned' = Provisioned
    BY <1>2 DEF PullList, Provisioned, TypeOK
  <2>3. pullTodo' \subseteq Hash
    BY <1>2 DEF PullList, TypeOK, Copy
  <2>4. p # NoPart
    BY StoreRootAssumption
  <2> QED
    BY <1>2, <2>1, <2>2, <2>3, <2>4 DEF PullList, Exempt, TypeOK, LoopInv, GcRuns
<1>3. ASSUME NEW h \in Hash, PullPack(h)
      PROVE  TypeOK' /\ LoopInv'
  <2> DEFINE c == [local[pullAt] EXCEPT !.stored = @ \union {h}]
  <2>1. pullAt \in Partition
    BY <1>3, AtType DEF PullPack
  <2>2. c \in Copy /\ c.whole \intersect c.torn = {}
    BY <2>1 DEF Copy, TypeOK
  <2>3. local' = [local EXCEPT ![pullAt] = c]
    BY <1>3 DEF PullPack
  <2>4. /\ local' \in [Partition -> Copy]
        /\ \A q \in Partition :
              local'[q].whole \intersect local'[q].torn = {}
    BY <2>1, <2>2, <2>3, CopyType
  <2> QED
    BY <1>3, <2>1, <2>4
    DEF PullPack, Exempt, TypeOK, LoopInv, GcRuns, Provisioned
<1>4. CASE PullManifests
  <2> DEFINE c == [local[pullAt] EXCEPT !.whole = @ \union remote[pullAt].whole,
                                        !.torn = @ \ remote[pullAt].whole]
  <2>1. pullAt \in Partition
    BY <1>4, AtType DEF PullManifests
  <2>2. c \in Copy /\ c.whole \intersect c.torn = {}
    BY <2>1 DEF Copy, TypeOK
  <2>3. local' = [local EXCEPT ![pullAt] = c]
    BY <1>4 DEF PullManifests
  <2>4. /\ local' \in [Partition -> Copy]
        /\ \A q \in Partition :
              local'[q].whole \intersect local'[q].torn = {}
    BY <2>1, <2>2, <2>3, CopyType
  <2> QED
    BY <1>4, <2>1, <2>4
    DEF PullManifests, Exempt, TypeOK, LoopInv, GcRuns, Provisioned
<1>5. CASE PullDone
  BY <1>5 DEF PullDone, PullEnds, TypeOK, LoopInv, GcRuns, Provisioned
<1>6. CASE PullFails
  BY <1>6 DEF PullFails, PullEnds, TypeOK, LoopInv, GcRuns, Provisioned
<1> QED
  BY <1>1, <1>2, <1>3, <1>4, <1>5, <1>6 DEF PullStep

\* An event counts up to the bound.
LEMMA EventType ==
    ASSUME events \in 0 .. MaxEvents, Event
    PROVE  events' \in 0 .. MaxEvents
  BY StoreRootAssumption DEF Event

\* What else happens to the stores, but for a pull that dies.
LEMMA EventTypes ==
    ASSUME TypeOK, LoopInv, NEW p \in Partition,
           \/ PullOne(p)
           \/ \E class \in Classes, mode \in Mode : Provision(p, class, mode)
           \/ \E m \in Manifest : LocalPack(p, m) \/ LocalForget(p, m)
           \/ RemoteChanges(p)
           \/ RemoteGc(p)
    PROVE  TypeOK' /\ LoopInv'
<1>1. events' \in 0 .. MaxEvents
  BY EventType DEF TypeOK, PullOne, Provision, LocalPack, LocalForget,
     RemoteChanges, RemoteGc
<1>2. CASE PullOne(p)
  BY <1>1, <1>2 DEF PullOne, TypeOK, LoopInv, GcRuns, Provisioned
<1>3. ASSUME NEW class \in Classes, NEW mode \in Mode, Provision(p, class, mode)
      PROVE  TypeOK' /\ LoopInv'
  <2>1. record' \in [Partition -> Class \union {"absent", "bare"}]
    BY <1>3, StoreRootAssumption DEF Provision, TypeOK
  <2>2. Provisioned' = Provisioned \union {p}
    BY <1>3, StoreRootAssumption DEF Provision, Provisioned, TypeOK
  <2> QED
    BY <1>1, <1>3, <2>1, <2>2
    DEF Provision, Exempt, TypeOK, LoopInv, GcRuns
<1>4. ASSUME NEW m \in Manifest, LocalPack(p, m)
      PROVE  TypeOK' /\ LoopInv'
  <2> DEFINE c == [local[p] EXCEPT !.whole = @ \union {m}, !.torn = @ \ {m},
                                   !.stored = @ \union Blocks[m]]
  <2>1. c \in Copy /\ c.whole \intersect c.torn = {}
    BY StoreRootAssumption DEF Copy, TypeOK
  <2>2. local' = [local EXCEPT ![p] = c]
    BY <1>4 DEF LocalPack
  <2>3. /\ local' \in [Partition -> Copy]
        /\ \A q \in Partition :
              local'[q].whole \intersect local'[q].torn = {}
    BY <2>1, <2>2, CopyType
  <2> QED
    BY <1>1, <1>4, <2>3
    DEF LocalPack, Exempt, TypeOK, LoopInv, GcRuns, Provisioned
<1>5. ASSUME NEW m \in Manifest, LocalForget(p, m)
      PROVE  TypeOK' /\ LoopInv'
  <2> DEFINE c == [local[p] EXCEPT !.whole = @ \ {m}, !.torn = @ \ {m}]
  <2>1. c \in Copy /\ c.whole \intersect c.torn = {}
    BY DEF Copy, TypeOK
  <2>2. local' = [local EXCEPT ![p] = c]
    BY <1>5 DEF LocalForget
  <2>3. /\ local' \in [Partition -> Copy]
        /\ \A q \in Partition :
              local'[q].whole \intersect local'[q].torn = {}
    BY <2>1, <2>2, CopyType
  <2> QED
    BY <1>1, <1>5, <2>3
    DEF LocalForget, Exempt, TypeOK, LoopInv, GcRuns, Provisioned
<1>6. CASE RemoteChanges(p)
  <2>1. remote[p] \in Copy
    BY DEF TypeOK
  <2>2. ASSUME NEW m \in Manifest,
               remote' = [remote EXCEPT ![p].whole = @ \ {m}]
        PROVE  remote' \in [Partition -> Copy]
    BY <2>1, <2>2 DEF TypeOK, Copy
  <2>3. ASSUME NEW m \in Manifest,
               remote' = [remote EXCEPT ![p].whole = @ \union {m},
                                        ![p].stored = @ \union Blocks[m]]
        PROVE  remote' \in [Partition -> Copy]
    <3> DEFINE c == [remote[p] EXCEPT !.whole = @ \union {m},
                                      !.stored = @ \union Blocks[m]]
    <3>1. c \in Copy
      BY <2>1, StoreRootAssumption DEF Copy
    <3>2. remote' = [remote EXCEPT ![p] = c]
      BY <2>3
    <3> HIDE DEF c
    <3> QED
      BY <3>1, <3>2 DEF TypeOK
  <2>4. remote' \in [Partition -> Copy]
    BY <1>6, <2>2, <2>3 DEF RemoteChanges
  <2>5. pullTodo' \subseteq Hash /\ (pullTodo' # {} => pullAt # NoPart)
    BY <1>6, StoreRootAssumption DEF RemoteChanges, TypeOK, LoopInv
  <2> QED
    BY <1>1, <1>6, <2>4, <2>5
    DEF RemoteChanges, TypeOK, LoopInv, GcRuns, Provisioned
<1>7. CASE RemoteGc(p)
  <2>1. remote[p].whole \in SUBSET Manifest
    BY DEF TypeOK, Copy
  <2>2. PICK M \in SUBSET remote[p].whole :
          /\ remote' = [remote EXCEPT ![p] = Of(M)]
          /\ \/ UNCHANGED pullTodo
             \/ pullAt = p /\ pullTodo' = pullTodo \intersect Kept(M)
    BY <1>7 DEF RemoteGc
  <2>3. Of(M) \in Copy
    BY <2>1, OfType
  <2>4. remote' \in [Partition -> Copy]
    BY <2>2, <2>3 DEF TypeOK
  <2>5. pullTodo' \subseteq Hash /\ (pullTodo' # {} => pullAt # NoPart)
    BY <2>2 DEF TypeOK, LoopInv
  <2> QED
    BY <1>1, <1>7, <2>4, <2>5 DEF RemoteGc, TypeOK, LoopInv, GcRuns, Provisioned
<1> QED
  BY <1>2, <1>3, <1>4, <1>5, <1>6, <1>7

\* A pull that dies among the packs or among the manifests.
LEMMA PullDiesTypes ==
    ASSUME TypeOK, LoopInv, PullDies
    PROVE  TypeOK' /\ LoopInv'
<1>1. events' \in 0 .. MaxEvents
  BY EventType DEF TypeOK, PullDies
<1>2. /\ local' \in [Partition -> Copy]
      /\ \A q \in Partition : local'[q].whole \intersect local'[q].torn = {}
      /\ exempt' \subseteq Partition
  <2>1. CASE UNCHANGED <<local, exempt>>
    BY <2>1 DEF TypeOK
  <2>2. ASSUME NEW h \in Hash, pullAt # NoPart, Exempt(pullAt),
               local' = [local EXCEPT ![pullAt].stored = @ \ {h}]
        PROVE  /\ local' \in [Partition -> Copy]
               /\ \A q \in Partition :
                     local'[q].whole \intersect local'[q].torn = {}
               /\ exempt' \subseteq Partition
    <3> DEFINE c == [local[pullAt] EXCEPT !.stored = @ \ {h}]
    <3>1. pullAt \in Partition
      BY <2>2, AtType
    <3>2. c \in Copy /\ c.whole \intersect c.torn = {}
      BY <3>1 DEF Copy, TypeOK
    <3>3. local' = [local EXCEPT ![pullAt] = c]
      BY <2>2
    <3>4. exempt' \subseteq Partition
      BY <2>2, <3>1 DEF Exempt, TypeOK
    <3> QED
      BY <3>1, <3>2, <3>3, <3>4, CopyType
  <2>3. ASSUME pullAt # NoPart, Exempt(pullAt),
               NEW m \in remote[pullAt].whole,
               NEW got \in SUBSET remote[pullAt].whole,
               local' = [local EXCEPT ![pullAt].whole = (@ \union got) \ {m},
                                      ![pullAt].torn = (@ \ got) \union {m}]
        PROVE  /\ local' \in [Partition -> Copy]
               /\ \A q \in Partition :
                     local'[q].whole \intersect local'[q].torn = {}
               /\ exempt' \subseteq Partition
    <3> DEFINE c == [local[pullAt] EXCEPT !.whole = (@ \union got) \ {m},
                                          !.torn = (@ \ got) \union {m}]
    <3>1. pullAt \in Partition
      BY <2>3, AtType
    <3>2. c \in Copy /\ c.whole \intersect c.torn = {}
      BY <3>1 DEF Copy, TypeOK
    <3>3. local' = [local EXCEPT ![pullAt] = c]
      BY <2>3
    <3>4. exempt' \subseteq Partition
      BY <2>3, <3>1 DEF Exempt, TypeOK
    <3> QED
      BY <3>1, <3>2, <3>3, <3>4, CopyType
  <2>4. pullTodo \subseteq Hash
    BY DEF TypeOK
  <2> QED
    BY <2>1, <2>2, <2>3, <2>4 DEF PullDies
<1> QED
  BY <1>1, <1>2 DEF PullDies, PullEnds, TypeOK, LoopInv, GcRuns, Provisioned

\* Every step keeps the types.
LEMMA TypeStep == TypeOK /\ LoopInv /\ [Next]_vars => TypeOK' /\ LoopInv'
<1> SUFFICES ASSUME TypeOK, LoopInv, [Next]_vars PROVE TypeOK' /\ LoopInv'
  OBVIOUS
<1>1. CASE UNCHANGED vars
  BY <1>1 DEF TypeOK, LoopInv, GcRuns, Provisioned
<1>2. CASE Next
  BY <1>2, GcTypes, PullTypes, EventTypes, PullDiesTypes DEF Next
<1> QED
  BY <1>1, <1>2

\* A local store of empty partitions, and a remote one of any content.
LEMMA InitType == Init => TypeOK /\ LoopInv
<1> SUFFICES ASSUME Init PROVE TypeOK /\ LoopInv
  OBVIOUS
<1>1. local \in [Partition -> Copy] /\ remote \in [Partition -> Copy]
  BY OfType DEF Init
<1>2. \A p \in Partition : local[p].torn = {}
  BY DEF Init, Of
<1>3. events \in 0 .. MaxEvents
  BY StoreRootAssumption DEF Init
<1> QED
  BY <1>1, <1>2, <1>3, StoreRootAssumption DEF Init, TypeOK, LoopInv, GcRuns,
     Provisioned

\* Type correctness of the loops over all partitions.
THEOREM TypeCorrect == Spec => []TypeOK
  BY InitType, TypeStep, PTL DEF Spec

-----------------------------------------------------------------------------
(* A gc has settled the partitions it is past.                             *)

\* A command beside gc touches only partitions that it makes exempt.
LEMMA BesideGc ==
    ASSUME IInv, UNCHANGED gcVars, exempt \subseteq exempt',
           \A q \in Partition \ exempt' :
               record'[q] = record[q] /\ local'[q] = local[q]
    PROVE  GcInv' /\ GcOfAllSettlesAll'
<1> USE DEF IInv
<1>1. ASSUME NEW q \in Provisioned' \ exempt', Settled(q)
      PROVE  Settled(q)'
  BY <1>1, SettledKept DEF Provisioned
<1>2. Provisioned' \ exempt' \subseteq Provisioned \ exempt
  BY DEF Provisioned
<1>3. ASSUME gcAt' \notin exempt' \union {NoPart}
      PROVE  /\ gcAt \notin exempt \union {NoPart}
             /\ gcAt' = gcAt /\ local'[gcAt] = local[gcAt]
  BY <1>3, AtType
<1>4. GcInv'
  BY <1>3 DEF GcInv, Kept
<1>5. GcOfAllSettlesAll'
  BY <1>1, <1>2 DEF GcOfAllSettlesAll
<1> QED
  BY <1>4, <1>5

\* Nor does a step of gc that leaves the partitions, and what it has still to
\* settle, as they are.
LEMMA StillSettled ==
    ASSUME IInv, UNCHANGED <<record, local, target, gcLeft, exempt>>,
           gcResult' = "done" => gcLeft = {}
    PROVE  GcOfAllSettlesAll'
<1>1. \A p \in Partition : Settled(p)' = Settled(p)
  BY DEF Settled, Walks, AtTarget, Provisioned, Kept
<1>2. Provisioned' = Provisioned
  BY DEF Provisioned
<1> QED
  BY <1>1, <1>2 DEF IInv, GcOfAllSettlesAll, Provisioned

\* When gc is through with a partition that is settled, and has not touched
\* another one, those that it is past are settled.
LEMMA OneMoreSettled ==
    ASSUME IInv, NEW at \in Partition, at = gcAt, gcResult' # "done",
           UNCHANGED <<record, target, exempt>>, gcLeft' = gcLeft \ {at},
           \A p \in Partition : p # at => local'[p] = local[p],
           at \in Provisioned \ exempt => Settled(at)'
    PROVE  GcOfAllSettlesAll'
<1>1. Provisioned' = Provisioned
  BY DEF Provisioned
<1> SUFFICES ASSUME NEW p \in Provisioned \ (exempt \union gcLeft')
             PROVE  Settled(p)'
  BY <1>1 DEF GcOfAllSettlesAll
<1>2. CASE p = at
  BY <1>2
<1>3. CASE p # at
  <2>1. p \in Partition /\ Settled(p)
    BY <1>3 DEF IInv, GcOfAllSettlesAll, Provisioned
  <2> QED
    BY <1>3, <2>1, SettledKept
<1> QED
  BY <1>2, <1>3

\* A gc that is at no partition has none marked.
LEMMA AtNone == ASSUME gcAt' = NoPart PROVE GcInv'
  BY DEF GcInv

\* One turn of the loop of gc leaves the partition it was at settled: it is at
\* the target, or it has its live set and nothing else.
LEMMA GcSteps ==
    ASSUME IInv, GcStep
    PROVE  GcInv' /\ GcOfAllSettlesAll'
<1>0. TypeOK /\ LoopInv
  BY DEF IInv
<1>1. CASE GcStart
  <2>1. gcAt' = NoPart /\ gcResult' = "running"
    BY <1>0, <1>1 DEF GcStart, LoopInv
  <2>2. Provisioned' \ (exempt' \union gcLeft') = {}
    BY <1>1 DEF GcStart, Provisioned
  <2> QED
    BY <2>1, <2>2, AtNone DEF GcOfAllSettlesAll
<1>2. ASSUME NEW p \in Partition, GcLook(p)
      PROVE  GcInv' /\ GcOfAllSettlesAll'
  <2>1. GcInv'
    BY <1>2 DEF GcLook, GcInv
  <2> QED
    BY <1>2, <2>1, StillSettled DEF GcLook, GcRuns
<1>3. CASE GcSkip
  <2>1. gcAt \in Partition /\ gcAt \in Provisioned /\ gcResult = "running"
    BY <1>0, <1>3, GcAtRuns DEF GcSkip
  <2>2. gcAt # NoPart
    BY <2>1, StoreRootAssumption
  <2>3. PICK at \in Partition : at = gcAt
    BY <2>1
  <2>4. ASSUME at \notin exempt PROVE Settled(at)'
    <3>1. index = local[at].stored
      BY <1>3, <2>2, <2>3, <2>4 DEF GcSkip, IInv, GcInv
    <3>2. Settled(at)
      BY <1>3, <2>1, <2>3, <3>1 DEF GcSkip, Settled
    <3> QED
      BY <1>3, <3>2, SettledKept DEF GcSkip
  <2>5. GcOfAllSettlesAll'
    BY <1>3, <2>1, <2>3, <2>4, OneMoreSettled DEF GcSkip
  <2> QED
    BY <1>3, <2>5, AtNone DEF GcSkip
<1>4. CASE GcGoAhead
  <2>1. GcInv'
    BY <1>4 DEF GcGoAhead, GcGoes, GcInv
  <2> QED
    BY <1>0, <1>4, <2>1, GcAtRuns, StillSettled DEF GcGoAhead, GcGoes
<1>5. CASE GcOpen
  <2>1. GcInv'
    BY <1>5 DEF GcOpen, GcGoes, GcInv
  <2> QED
    BY <1>0, <1>5, <2>1, GcAtRuns, StillSettled DEF GcOpen, GcGoes
<1>6. CASE GcMark
  <2>1. local'[gcAt].torn = {} /\ live' = Kept(local'[gcAt].whole)
    BY <1>6 DEF GcMark, GcGoes, Walks, Kept
  <2>2. GcInv'
    BY <1>6, <2>1 DEF GcMark, GcGoes, GcInv, Kept
  <2> QED
    BY <1>0, <1>6, <2>2, GcAtRuns, StillSettled DEF GcMark, GcGoes
<1>7. CASE GcCopy
  <2>1. GcInv'
    BY <1>7 DEF GcCopy, GcGoes, IInv, GcInv, Kept
  <2> QED
    BY <1>0, <1>7, <2>1, GcAtRuns, StillSettled DEF GcCopy, GcGoes
<1>8. CASE GcMoveAside
  <2>1. gcAt \in Partition /\ gcAt \in gcLeft /\ gcResult = "running"
    BY <1>0, <1>8, GcAtRuns DEF GcMoveAside
  <2>2. /\ local'[gcAt] = [local[gcAt] EXCEPT !.stored = {}]
        /\ \A p \in Partition : p # gcAt => local'[p] = local[p]
    BY <1>0, <1>8, <2>1 DEF GcMoveAside, TypeOK
  <2>3. /\ local'[gcAt].torn = local[gcAt].torn
        /\ local'[gcAt].whole = local[gcAt].whole
    BY <1>0, <2>1, <2>2 DEF TypeOK, Copy
  <2>4. GcInv'
    BY <1>8, <2>3 DEF GcMoveAside, IInv, GcInv, Kept
  <2>5. Provisioned' = Provisioned
    BY <1>8 DEF GcMoveAside, Provisioned
  <2>6. ASSUME NEW p \in Provisioned \ (exempt \union gcLeft)
        PROVE  Settled(p)'
    <3>1. p \in Partition /\ p # gcAt /\ Settled(p)
      BY <2>1 DEF IInv, GcOfAllSettlesAll, Provisioned
    <3> QED
      BY <1>8, <2>2, <3>1, SettledKept DEF GcMoveAside
  <2> QED
    BY <1>8, <2>1, <2>4, <2>5, <2>6 DEF GcMoveAside, GcOfAllSettlesAll
<1>9. CASE GcPlace
  <2>1. gcAt \in Partition /\ gcResult = "running" /\ gcAt # NoPart
    BY <1>0, <1>9, GcAtRuns, StoreRootAssumption DEF GcPlace
  <2>2. /\ local'[gcAt] = [local[gcAt] EXCEPT !.stored = live]
        /\ \A p \in Partition : p # gcAt => local'[p] = local[p]
    BY <1>0, <1>9, <2>1 DEF GcPlace, TypeOK
  <2>3. PICK at \in Partition : at = gcAt
    BY <2>1
  <2>4. ASSUME at \in Provisioned \ exempt
        PROVE  Settled(at)'
    <3>1. local[at].torn = {} /\ live = Kept(local[at].whole)
      BY <1>9, <2>1, <2>3, <2>4 DEF GcPlace, IInv, GcInv
    <3>2. /\ local'[at].torn = {} /\ local'[at].whole = local[at].whole
          /\ local'[at].stored = live
      BY <1>0, <2>2, <2>3, <3>1 DEF TypeOK, Copy
    <3>3. local'[at].stored = Kept(local'[at].whole)
      BY <3>1, <3>2
    <3>4. \A m \in local'[at].whole : Lists[m] \subseteq Blocks[m]
      BY <1>0, <3>2, StoreRootAssumption DEF TypeOK, Copy
    <3>5. UNION {Lists[m] : m \in local'[at].whole} \subseteq local'[at].stored
      BY <3>3, <3>4 DEF Kept
    <3>6. at \in Provisioned'
      BY <1>9, <2>4 DEF GcPlace, Provisioned
    <3> QED
      BY <3>2, <3>3, <3>5, <3>6 DEF Settled, Walks, Kept
  <2>5. GcOfAllSettlesAll'
    BY <1>9, <2>1, <2>2, <2>3, <2>4, OneMoreSettled DEF GcPlace
  <2> QED
    BY <1>9, <2>5, AtNone DEF GcPlace
<1>10. CASE GcDone
  <2>1. gcAt' = NoPart
    BY <1>0, <1>10 DEF GcDone, TypeOK
  <2> QED
    BY <1>10, <2>1, AtNone, StillSettled DEF GcDone
<1>11. CASE GcFails
  BY <1>11, AtNone, StillSettled DEF GcFails, GcEnds
<1>12. CASE GcDies
  BY <1>12, AtNone, StillSettled DEF GcDies, GcEnds
<1> QED
  BY <1>1, <1>2, <1>3, <1>4, <1>5, <1>6, <1>7, <1>8, <1>9, <1>10, <1>11, <1>12
  DEF GcStep

\* A pull that dies has touched the partition it was at.
LEMMA PullDiesBeside ==
    ASSUME TypeOK, PullDies
    PROVE  \A q \in Partition \ exempt' : local'[q] = local[q]
<1>1. CASE UNCHANGED <<local, exempt>>
  BY <1>1
<1>2. ASSUME NEW h \in pullTodo \intersect remote[pullAt].stored, Exempt(pullAt),
             local' = [local EXCEPT ![pullAt].stored = @ \ {h}]
      PROVE  \A q \in Partition \ exempt' : local'[q] = local[q]
  BY <1>2 DEF Exempt, TypeOK
<1>3. ASSUME NEW m \in remote[pullAt].whole,
             NEW got \in SUBSET remote[pullAt].whole, Exempt(pullAt),
             local' = [local EXCEPT ![pullAt].whole = (@ \union got) \ {m},
                                    ![pullAt].torn = (@ \ got) \union {m}]
      PROVE  \A q \in Partition \ exempt' : local'[q] = local[q]
  BY <1>3 DEF Exempt, TypeOK
<1>4. CASE /\ Exempt(pullAt)
           /\ \E h \in pullTodo \intersect remote[pullAt].stored :
                 local' = [local EXCEPT ![pullAt].stored = @ \ {h}]
  <2>1. PICK h \in pullTodo \intersect remote[pullAt].stored :
          local' = [local EXCEPT ![pullAt].stored = @ \ {h}]
    BY <1>4
  <2> QED
    BY <1>2, <1>4, <2>1
<1>5. CASE /\ Exempt(pullAt)
           /\ \E m \in remote[pullAt].whole, got \in SUBSET remote[pullAt].whole :
                 local' = [local EXCEPT ![pullAt].whole = (@ \union got) \ {m},
                                        ![pullAt].torn = (@ \ got) \union {m}]
  <2>1. PICK m \in remote[pullAt].whole, got \in SUBSET remote[pullAt].whole :
          local' = [local EXCEPT ![pullAt].whole = (@ \union got) \ {m},
                                 ![pullAt].torn = (@ \ got) \union {m}]
    BY <1>5
  <2> QED
    BY <1>3, <1>5, <2>1
<1> QED
  BY <1>1, <1>4, <1>5 DEF PullDies

\* The pulls, and all other commands, only touch partitions they make exempt.
LEMMA OtherSteps ==
    ASSUME IInv,
           \/ PullStep
           \/ \E p \in Partition :
                \/ PullOne(p)
                \/ \E class \in Classes, mode \in Mode : Provision(p, class, mode)
                \/ \E m \in Manifest : LocalPack(p, m) \/ LocalForget(p, m)
                \/ RemoteChanges(p)
                \/ RemoteGc(p)
           \/ PullDies
    PROVE  GcInv' /\ GcOfAllSettlesAll'
<1>1. UNCHANGED gcVars
  BY DEF PullStep, PullStart, PullList, PullPack, PullManifests, PullDone,
     PullFails, PullOne, Provision, LocalPack, LocalForget, RemoteChanges,
     RemoteGc, PullDies
<1>2. exempt \subseteq exempt'
  BY DEF PullStep, PullStart, PullList, PullPack, PullManifests, PullDone,
     PullFails, PullOne, Provision, LocalPack, LocalForget, RemoteChanges,
     RemoteGc, PullDies, Exempt
<1>3. \A q \in Partition \ exempt' : record'[q] = record[q]
  BY DEF PullStep, PullStart, PullList, PullPack, PullManifests, PullDone,
     PullFails, PullOne, Provision, LocalPack, LocalForget, RemoteChanges,
     RemoteGc, PullDies, Exempt, IInv, TypeOK
<1>4. \A q \in Partition \ exempt' : local'[q] = local[q]
  <2>1. CASE PullStep
    BY <2>1 DEF PullStep, PullStart, PullList, PullPack, PullManifests,
       PullDone, PullFails, Exempt, IInv, TypeOK
  <2>2. CASE PullDies
    BY <2>2, PullDiesBeside DEF IInv
  <2>3. ASSUME NEW p \in Partition,
               \/ PullOne(p)
               \/ \E class \in Classes, mode \in Mode : Provision(p, class, mode)
               \/ \E m \in Manifest : LocalPack(p, m) \/ LocalForget(p, m)
               \/ RemoteChanges(p)
               \/ RemoteGc(p)
        PROVE  \A q \in Partition \ exempt' : local'[q] = local[q]
    BY <2>3 DEF PullOne, Provision, LocalPack, LocalForget, RemoteChanges,
       RemoteGc, Exempt, IInv, TypeOK
  <2> QED
    BY <2>1, <2>2, <2>3
<1> QED
  BY <1>1, <1>2, <1>3, <1>4, BesideGc

\* Every step keeps the inductive invariant.
LEMMA InductiveStep == IInv /\ [Next]_vars => IInv'
<1> SUFFICES ASSUME IInv, [Next]_vars PROVE IInv'
  OBVIOUS
<1>1. TypeOK' /\ LoopInv'
  BY TypeStep DEF IInv
<1>2. CASE UNCHANGED vars
  BY <1>1, <1>2, BesideGc DEF IInv
<1>3. CASE Next
  BY <1>1, <1>3, GcSteps, OtherSteps DEF Next, IInv
<1> QED
  BY <1>2, <1>3

\* No gc has run in the initial state.
LEMMA InductiveInit == Init => IInv
<1> SUFFICES ASSUME Init PROVE IInv
  OBVIOUS
<1>1. TypeOK /\ LoopInv
  BY InitType
<1>2. GcInv /\ GcOfAllSettlesAll
  BY DEF Init, GcInv, GcOfAllSettlesAll, Provisioned
<1> QED
  BY <1>1, <1>2 DEF IInv

\* The strengthening is an invariant of gc, pull and all that is beside them.
THEOREM Inductive == Spec => []IInv
  BY InductiveInit, InductiveStep, PTL DEF Spec

\* However a gc goes, it has settled every partition it was past that no other
\* command changed since it began; and one that ends well is past them all.
THEOREM GcSettles == Spec => []GcOfAllSettlesAll
<1>1. IInv => GcOfAllSettlesAll
  BY DEF IInv
<1> QED
  BY <1>1, Inductive, PTL
=============================================================================
