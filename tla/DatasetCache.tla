---------------------------- MODULE DatasetCache ----------------------------
(***************************************************************************)
(* The ranks of a job build its datasets: the order mindspeed_llm's        *)
(* build_generic_dataset and megatron's _build_megatron_datasets_parallel  *)
(* give them, and the files in which one rank leaves the indices of a      *)
(* dataset for the others and for the next launch.                         *)
(*                                                                         *)
(* A launch is u = [ranks, shared, gpus, tp, readers, prefixes, splits]:   *)
(* whether the storage is shared, the devices of a node, the tensor-       *)
(* parallel size, the ranks that read data, the number of data prefixes    *)
(* and of splits.  There is one builder thread, as in the default config,  *)
(* which nothing in the repository changes.                                *)
(***************************************************************************)
EXTENDS Integers, Sequences, FiniteSets

VARIABLES files,    \* of each storage and dataset, the state of its files
          place     \* of each rank, where it is: see BuildStarts

(* description.txt, document_index, sample_index and shuffle_index.        *)
NumFiles == 4

NoFiles == [f \in 1 .. NumFiles |-> "absent"]

Storage(u, r) == IF u.shared THEN 0 ELSE r \div u.gpus

(* As in build_generic_dataset of megatron: rank 0 only.                   *)
MutNeedToBuild(u, r) == r = 0

NeedToBuild(u, r) ==
    IF u.shared THEN r = 0
    ELSE r \in u.readers /\ (u.tp > u.gpus \/ r % u.gpus = 0)

----------------------------------------------------------------------------
(* What a rank does, in order: "barrier" or the dataset it constructs.     *)

Barrier == <<"barrier">>

(* build_generic_dataset.  Ranks that read no data meet the barrier only.  *)
GenericDataset(u, r, dataset) ==
    LET construct == IF r \in u.readers THEN <<dataset>> ELSE << >>
    IN IF NeedToBuild(u, r) THEN construct \o <<Barrier>> ELSE <<Barrier>> \o construct

MegatronDatasets(u, r) ==
    LET Nth(n) == GenericDataset(u, r, <<((n - 1) \div u.splits) + 1,
                                         ((n - 1) % u.splits) + 1>>)
        upto[n \in 0 .. u.prefixes * u.splits] ==
            IF n = 0 THEN << >> ELSE upto[n - 1] \o Nth(n)
    IN upto[u.prefixes * u.splits]

(* A single prefix is built at once.  Several are built by rank 0 before   *)
(* the others, whose barriers are therefore one behind those of rank 0,    *)
(* and then put together: a BlendedDataset has no files of its own unless  *)
(* path_to_cache is set, so only its barriers are left.                    *)
Script(u, r) ==
    IF u.prefixes = 1 THEN MegatronDatasets(u, r)
    ELSE (IF r = 0 THEN MegatronDatasets(u, r) \o <<Barrier>>
          ELSE <<Barrier>> \o MegatronDatasets(u, r))
         \o [s \in 1 .. u.splits |-> Barrier]

(* `todo` is what is left of the script, `met` the barriers behind the     *)
(* rank, `written` counts the files it has opened and closed.              *)
BuildStarts(u) ==
    place' = [r \in u.ranks |->
                 [todo |-> Script(u, r), met |-> 0, written |-> 0,
                  storage |-> Storage(u, r), builds |-> NeedToBuild(u, r)]]

----------------------------------------------------------------------------
Done(r) == place[r].todo = << >>

AtBarrier(r) == ~ Done(r) /\ Head(place[r].todo) = Barrier

Constructing(r) == ~ Done(r) /\ ~ AtBarrier(r)

Advance(r) ==
    place' = [place EXCEPT ![r].todo = Tail(@), ![r].written = 0,
                           ![r].met = IF AtBarrier(r) THEN @ + 1 ELSE @]

(* The barriers rank q has reached, the one it waits at included.          *)
Reached(q) == place[q].met + (IF AtBarrier(q) THEN 1 ELSE 0)

BarrierOpen(r) == AtBarrier(r) /\ \A q \in DOMAIN place : Reached(q) > place[r].met

MeetBarrier(r) == BarrierOpen(r) /\ Advance(r) /\ UNCHANGED files

FilesOf(r) == files[place[r].storage][Head(place[r].todo)]

(* os.path.isfile of each file, whatever is in it.                         *)
CacheHit(r) == \A f \in 1 .. NumFiles : FilesOf(r)[f] # "absent"

(* On a miss the rank that has to writes the files one after another, each *)
(* opened, which empties it, and closed.                                   *)
Building(r) ==
    Constructing(r) /\ place[r].builds /\ (place[r].written > 0 \/ ~ CacheHit(r))

WriteFile(r) ==
    /\ Building(r)
    /\ LET f == (place[r].written \div 2) + 1
           opens == place[r].written % 2 = 0
       IN /\ files' = [files EXCEPT ![place[r].storage][Head(place[r].todo)][f] =
                          IF opens THEN "truncated" ELSE "whole"]
          /\ IF f = NumFiles /\ ~ opens THEN Advance(r)
             ELSE place' = [place EXCEPT ![r].written = @ + 1]

(* Every other rank, and every rank on a hit, loads the three indices.     *)
Loading(r) == Constructing(r) /\ ~ Building(r)

Indices(r) == {FilesOf(r)[f] : f \in 2 .. NumFiles}

Load(r) ==
    /\ Loading(r) /\ Indices(r) = {"whole"}
    /\ Advance(r) /\ UNCHANGED files

Missing(r) == Loading(r) /\ "absent" \in Indices(r)

Unreadable(r) == Loading(r) /\ ~ Missing(r) /\ "truncated" \in Indices(r)

BuildStep(r) == MeetBarrier(r) \/ WriteFile(r) \/ Load(r)

Built == \A r \in DOMAIN place : Done(r)

(* Some rank goes on, or fails.                                            *)
BuildingGoesOn == \E r \in DOMAIN place : Constructing(r) \/ BarrierOpen(r)
=============================================================================
