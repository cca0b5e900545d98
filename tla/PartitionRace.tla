---------------------------- MODULE PartitionRace ----------------------------
(***************************************************************************)
(* Commands on one partition that overlap in time, with nothing to keep    *)
(* them apart.  A gc replaces the packs by what it marked, so it can hurt  *)
(* a pack that runs between its mark and its swap; and two gcs, which      *)
(* share one staging directory, can hurt everything.  The history variable *)
(* remembers the manifests exposed to either.                              *)
(***************************************************************************)
EXTENDS PartitionGc

VARIABLE overlapped  \* manifests that were exposed to a gc

raceVars == <<vars, overlapped>>

\* Gcs that have marked and not yet finished their swap: what comes into the
\* partition now is not in their live set.
Committed == {g \in GcProc : pc[g] \in {"stage", "copy", "clear"} \union Swap}

\* Another gc uses the staging directory, or the packs, of one that has marked.
TwoGcs ==
    \E g \in Committed : \E k \in GcProc \ {g} : pc[k] \notin {"idle", "open"}

\* The manifests that a gc can hurt now: any, or those being packed.
Overlapping ==
    {m \in Manifest :
        \/ TwoGcs
        \/ Committed # {} /\ \E p \in PackProc : pc[p] # "idle" /\ man[p] = m}

\* A bound: nothing is followed further once every manifest was exposed.
AllExposed == overlapped = Manifest

RaceInit == Init /\ overlapped = {}

RaceStep == Next /\ overlapped' = overlapped \union Overlapping'

RaceNext ==
    \/ ~AllExposed /\ RaceStep
    \/ AllExposed /\ UNCHANGED raceVars

RaceSpec == RaceInit /\ [][RaceNext]_raceVars

\* The same without the bound: TLC checks RaceSpec, the proofs are about both.
FreeRaceSpec == RaceInit /\ [][RaceStep]_raceVars

-----------------------------------------------------------------------------
(* Properties.                                                             *)

\* What the partition serves and what gc renamed out of the way.
Anywhere == Retrievable \union files["active.pre-gc"]

\* Any packs and gcs, whatever they overlap with: a manifest can lose a block
\* only if its pack ran, in part, between a gc's mark and the end of its swap,
\* or if a gc was there while another was past its open (the two share the
\* staging directory, and the swap outdates the other's index).  All else is
\* harmless: a pack that shares its store with a gc that has not marked yet,
\* and has the gc seal what it is appending to; a manifest published between
\* that gc's open and its mark, over blocks that are not in its index; a
\* utilization pass before another gc's swap and an open after it; a gc that
\* fails or dies among its renames, with packs that go on in what is left.
LossNeedsOverlap ==
    \A m \in Present \ overlapped : Blocks[m] \subseteq Retrievable

\* "referenced content must survive GC": when all commands are over, each
\* whole manifest's blocks are somewhere in the partition.
ReferencedSurvivesGc ==
    (\A p \in Proc : pc[p] = "idle") =>
        \A m \in Whole : Blocks[m] \subseteq Anywhere

-----------------------------------------------------------------------------
(* The inductive invariant.                                                *)

\* A pack beside a gc may add to active/ and packs/, so the gc knows less of
\* them than one that runs alone (GcPhase): that its live set is among the
\* blocks it copied, then in the staged packs and in packs/ or its backup.
RaceGcPhase(g) ==
    /\ pc[g] \in {"mark", "stage", "copy"} => index[g] \subseteq files["packs"]
    /\ pc[g] \in {"stage", "copy", "clear"} \union Swap =>
         \A m \in Present \ overlapped : Blocks[m] \subseteq live[g]
    /\ pc[g] = "copy" =>
         /\ live[g] \subseteq
               todo[g] \union files["staged active"] \union files["staged packs"]
         /\ files["staged active"] \union files["staged packs"] \subseteq index[g]
    /\ pc[g] \in {"clear", "movePacks", "moveActive", "placePacks"} =>
         live[g] \subseteq files["staged packs"]
    /\ pc[g] \in {"clear", "movePacks", "placeActive", "cleanup"} =>
         live[g] \subseteq files["packs"]
    /\ pc[g] \in {"moveActive", "placePacks"} =>
         live[g] \subseteq files["packs.pre-gc"]

\* A pack that no gc had marked beside is as one that runs alone.
RaceInv ==
    /\ TypeOK
    /\ Overlapping \subseteq overlapped
    /\ overlapped \subseteq Manifest
    /\ ~AllExposed =>
         /\ \A p \in PackProc : man[p] \notin overlapped => PackPhase(p)
         /\ \A g \in GcProc : RaceGcPhase(g)
         /\ LossNeedsOverlap
=============================================================================
