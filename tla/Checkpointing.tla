----------------------------- MODULE Checkpointing -----------------------------
(***************************************************************************)
(* Checkpoints of a training job, synchronous and asynchronous, with crashes *)
(* and restarts: the save points of train and pretrain                      *)
(* (megatron/training/training.py), save_checkpoint and the tracker file    *)
(* (training/checkpointing.py), and the queue of background saves           *)
(* (core/dist_checkpointing/strategies/async_utils.py) with the steps that  *)
(* finalize one (serialization.py, state_dict_saver.py, checkpointing.py).  *)
(*                                                                          *)
(* A checkpoint is complete when every rank's writer has written its        *)
(* shards, the coordinator its .metadata and rank 0 metadata.json; only     *)
(* then may latest_checkpointed_iteration.txt, the tracker, name it. Ranks  *)
(* keep their queues separately and meet in collectives that are matched by *)
(* order alone, so all have to decide alike what to finalize and when. A    *)
(* crash kills all ranks and their writers; the files stay.                 *)
(***************************************************************************)
EXTENDS Integers, Sequences

CONSTANTS
  Ranks, Rank0,   \* the ranks; rank 0 is the coordinator and writes the tracker
  NumIters,       \* train_iters
  SaveInterval,   \* save_interval
  ExitInterval,   \* exit_interval
  RampUp,         \* iterations before which the number of microbatches grows
  MaxRestarts,    \* bound of the crashes that are followed by a restart
  MaxDeaths,      \* bound of the writers that die
  Configs         \* [async, exit, withData] a job may run with

ASSUME CheckpointingAssumption ==
  /\ Rank0 \in Ranks
  /\ {NumIters, SaveInterval, ExitInterval} \subseteq Nat \ {0}
  /\ RampUp \subseteq 1 .. NumIters - 1
  /\ MaxRestarts \in Nat /\ MaxDeaths \in Nat
  /\ Configs \subseteq [async : BOOLEAN, exit : {"none", "signal", "duration", "interval"},
                       withData : SUBSET Ranks]

VARIABLES
  conf,      \* async_save, the exit condition, the ranks that have shards to write
  rank,      \* rank[r]: program point and local state of rank r
  writer,    \* writer[r][i]: background process of r for the checkpoint of iteration i
  exiting,   \* ranks that have received SIGTERM, or whose clock says it is time
  start,     \* iteration this job started from
  restarts, deaths,
  shards,    \* the files: <<r, i>> for rank r's shards of the checkpoint of i,
  common,    \*   iterations whose directory is not empty (common.pt),
  metadata,  \*   whose .metadata is written,
  config,    \*   whose metadata.json is written,
  tracker    \*   and what the tracker file holds

volatile == <<rank, writer, exiting, start>>
files == <<shards, common, metadata, config, tracker>>
vars == <<conf, volatile, restarts, deaths, files>>

Iterations == 1 .. NumIters
NoFile == 0
Truncated == -1     \* opened for writing, nothing written yet

(* An active request: index of the call and iteration of its checkpoint. *)
Request(idx, i) == [idx |-> idx, iteration |-> i]
NoRequest == Request(-1, 0)

NoWriters == [r \in Ranks |-> [i \in Iterations |-> "none"]]

NewRank(i) ==
  [pc |-> "top", ret |-> "top", iteration |-> i, queue |-> <<>>, call_idx |-> -1,
   call |-> NoRequest, blocking |-> FALSE, flag |-> FALSE]

Init ==
  /\ conf \in Configs
  /\ rank = [r \in Ranks |-> NewRank(0)]
  /\ writer = NoWriters
  /\ exiting = {} /\ start = 0 /\ restarts = 0 /\ deaths = 0
  /\ shards = {} /\ common = {} /\ metadata = {} /\ config = {} /\ tracker = NoFile

-----------------------------------------------------------------------------
(* A collective: all ranks are at the same program point, then leave together. *)
Meet(at) == \A r \in Ranks : rank[r].pc = at

At(s, pc) == [s EXCEPT !.pc = pc]
Local(r, pc) == rank[r].pc = pc
Set(r, s) == rank' = [rank EXCEPT ![r] = s]

(* maybe_finalize_async_save(blocking), which goes on at ret. *)
PollFrom(s, blocking, ret) == [s EXCEPT !.pc = "poll", !.blocking = blocking, !.ret = ret]

(* save_checkpoint, which goes on at ret; rank 0 writes common.pt first. *)
SaveFrom(r, s, ret) == [s EXCEPT !.pc = IF r = Rank0 THEN "common" ELSE "plan", !.ret = ret]

-----------------------------------------------------------------------------
(* The save points of train and pretrain.                                    *)

LoopHead(r) ==
  /\ Local(r, "top")
  /\ Set(r, IF rank[r].iteration < NumIters THEN PollFrom(rank[r], FALSE, "ramp_up")
            ELSE PollFrom(rank[r], TRUE, "after_training"))
  /\ UNCHANGED <<conf, writer, exiting, start, restarts, deaths, files>>

(* A checkpoint before the first iteration with more microbatches. *)
RampUpSave(r) ==
  /\ Local(r, "ramp_up")
  /\ Set(r, IF rank[r].iteration \in RampUp /\ rank[r].iteration # start
            THEN SaveFrom(r, rank[r], "train") ELSE At(rank[r], "train"))
  /\ UNCHANGED <<conf, writer, exiting, start, restarts, deaths, files>>

(* train_step: its collectives keep the ranks in the same iteration. *)
TrainStep ==
  /\ Meet("train")
  /\ rank' = [r \in Ranks |->
       [rank[r] EXCEPT !.pc = IF conf.exit = "signal" THEN "handler" ELSE "interval",
                       !.iteration = @ + 1]]
  /\ UNCHANGED <<conf, writer, exiting, start, restarts, deaths, files>>

(* signals_received: every rank contributes what it has seen by then. *)
ReadSignal(r) ==
  /\ Local(r, "handler")
  /\ Set(r, [rank[r] EXCEPT !.pc = "signals", !.flag = r \in exiting])
  /\ UNCHANGED <<conf, writer, exiting, start, restarts, deaths, files>>

GatherSignals ==
  /\ LET any == \E r \in Ranks : rank[r].flag
     IN  /\ Meet("signals")
         /\ rank' = [r \in Ranks |->
              IF any THEN SaveFrom(r, rank[r], "exit") ELSE At(rank[r], "interval")]
  /\ UNCHANGED <<conf, writer, exiting, start, restarts, deaths, files>>

IsSaveInterval(i) == i % SaveInterval = 0

IntervalSave(r) ==
  /\ Local(r, "interval")
  /\ Set(r, IF IsSaveInterval(rank[r].iteration)
            THEN SaveFrom(r, rank[r], "exit_check") ELSE At(rank[r], "exit_check"))
  /\ UNCHANGED <<conf, writer, exiting, start, restarts, deaths, files>>

(* Exits based on duration and on iterations save only if not saved_checkpoint. *)
SaveAndExit(r) ==
  IF IsSaveInterval(rank[r].iteration) THEN At(rank[r], "exit") ELSE SaveFrom(r, rank[r], "exit")

ExitCheck(r) ==
  /\ Local(r, "exit_check")
  /\ Set(r, IF conf.exit = "duration"
            THEN [rank[r] EXCEPT !.pc = "durations", !.flag = r \in exiting]
            ELSE IF conf.exit = "interval" /\ rank[r].iteration % ExitInterval = 0
            THEN SaveAndExit(r)
            ELSE At(rank[r], "top"))
  /\ UNCHANGED <<conf, writer, exiting, start, restarts, deaths, files>>

(* The all-reduce of done_cuda: the clocks of the ranks differ. *)
AllReduceDone ==
  /\ LET any == \E r \in Ranks : rank[r].flag
     IN  /\ Meet("durations")
         /\ rank' = [r \in Ranks |-> IF any THEN SaveAndExit(r) ELSE At(rank[r], "top")]
  /\ UNCHANGED <<conf, writer, exiting, start, restarts, deaths, files>>

FinalSave(r) ==
  /\ Local(r, "after_training")
  /\ Set(r, IF ~IsSaveInterval(rank[r].iteration)
            THEN SaveFrom(r, rank[r], "exit") ELSE At(rank[r], "exit"))
  /\ UNCHANGED <<conf, writer, exiting, start, restarts, deaths, files>>

(* The last maybe_finalize_async_save(blocking=True), then the process ends. *)
MutExit(r) ==
  /\ Local(r, "exit")
  /\ Set(r, PollFrom(rank[r], FALSE, "done"))
  /\ UNCHANGED <<conf, writer, exiting, start, restarts, deaths, files>>
Exit(r) ==
  /\ Local(r, "exit")
  /\ Set(r, PollFrom(rank[r], TRUE, "done"))
  /\ UNCHANGED <<conf, writer, exiting, start, restarts, deaths, files>>

-----------------------------------------------------------------------------
(* save_checkpoint and dist_checkpointing.save.                              *)

(* "Checkpoint destination directory is not empty" stops rank 0. *)
SaveCommon(r) ==
  /\ Local(r, "common")
  /\ Set(r, At(rank[r], IF rank[r].iteration \in common THEN "raised" ELSE "plan"))
  /\ common' = common \cup {rank[r].iteration}
  /\ UNCHANGED <<conf, writer, exiting, start, restarts, deaths, shards, metadata,
                 config, tracker>>

(* save_state_dict_async_plan: the ranks agree who writes what. *)
Plan ==
  /\ Meet("plan")
  /\ rank' = [r \in Ranks |-> At(rank[r], "start")]
  /\ UNCHANGED <<conf, writer, exiting, start, restarts, deaths, files>>

MutEnqueue(queue, request) == <<request>> \o queue
Enqueue(queue, request) == Append(queue, request)

(* schedule_async_request, or execute_sync: the writer starts. *)
StartWriter(r) ==
  /\ Local(r, "start")
  /\ LET s == rank[r]
         request == Request(s.call_idx + 1, s.iteration)
     IN  /\ writer' = IF r \in conf.withData
                      THEN [writer EXCEPT ![r][s.iteration] = "alive"] ELSE writer
         /\ Set(r, IF conf.async
                   THEN [s EXCEPT !.pc = "saved", !.call_idx = @ + 1,
                                  !.queue = Enqueue(@, request)]
                   ELSE [s EXCEPT !.pc = "join", !.queue = <<request>>])
  /\ UNCHANGED <<conf, exiting, start, restarts, deaths, files>>

(* The barrier at the end of save_checkpoint. *)
SaveReturns ==
  /\ Meet("saved")
  /\ rank' = [r \in Ranks |-> At(rank[r], rank[r].ret)]
  /\ UNCHANGED <<conf, writer, exiting, start, restarts, deaths, files>>

-----------------------------------------------------------------------------
(* maybe_finalize_async_calls: while the queue is not empty ...              *)

(* is_alive of the oldest call is read here, and summed over the ranks later. *)
Poll(r) ==
  /\ Local(r, "poll")
  /\ LET s == rank[r]
     IN  Set(r, IF s.queue = <<>> THEN At(s, s.ret)
                ELSE [s EXCEPT !.pc = "alive",
                               !.flag = writer[r][Head(s.queue).iteration] = "alive"])
  /\ UNCHANGED <<conf, writer, exiting, start, restarts, deaths, files>>

MutStillActive(r) == rank[r].flag
StillActive(r) == \E q \in Ranks : rank[q].flag

AllReduceAlive ==
  /\ Meet("alive")
  /\ rank' = [r \in Ranks |->
       At(rank[r], IF StillActive(r) /\ ~rank[r].blocking THEN rank[r].ret ELSE "join")]
  /\ UNCHANGED <<conf, writer, exiting, start, restarts, deaths, files>>

(* retrieve_write_results: a writer that died has left no results. *)
MutResultsMissing(r, request) == FALSE
ResultsMissing(r, request) == writer[r][request.iteration] = "died"

(* Join the own writer, take the request off the queue, start to finalize it. *)
(* execute_sync has a barrier in between; the next collective follows at once. *)
Join(r) ==
  /\ Local(r, "join")
  /\ LET request == Head(rank[r].queue)
     IN  /\ writer[r][request.iteration] # "alive"
         /\ Set(r, [rank[r] EXCEPT !.pc = IF ResultsMissing(r, request) THEN "raised" ELSE "gather",
                                   !.queue = Tail(@), !.call = request])
  /\ UNCHANGED <<conf, writer, exiting, start, restarts, deaths, files>>

(* save_state_dict_async_finalize: gather the results, write .metadata. *)
GatherResults ==
  /\ Meet("gather")
  /\ rank' = [r \in Ranks |-> At(rank[r], IF r = Rank0 THEN "metadata" ELSE "written")]
  /\ UNCHANGED <<conf, writer, exiting, start, restarts, deaths, files>>

WriteMetadata(r) ==
  /\ Local(r, "metadata")
  /\ metadata' = metadata \cup {rank[r].call.iteration}
  /\ Set(r, At(rank[r], "written"))
  /\ UNCHANGED <<conf, writer, exiting, start, restarts, deaths, shards, common, config,
                 tracker>>

MetadataBarrier ==
  /\ Meet("written")
  /\ rank' = [r \in Ranks |-> At(rank[r], IF r = Rank0 THEN "config" ELSE "configured")]
  /\ UNCHANGED <<conf, writer, exiting, start, restarts, deaths, files>>

(* metadata_finalize_fn *)
WriteConfig(r) ==
  /\ Local(r, "config")
  /\ config' = config \cup {rank[r].call.iteration}
  /\ Set(r, At(rank[r], "configured"))
  /\ UNCHANGED <<conf, writer, exiting, start, restarts, deaths, shards, common, metadata,
                 tracker>>

AfterTracker == IF conf.async THEN "agree" ELSE "saved"

ConfigBarrier ==
  /\ Meet("configured")
  /\ rank' = [r \in Ranks |-> At(rank[r], IF r = Rank0 THEN "tracker" ELSE AfterTracker)]
  /\ UNCHANGED <<conf, writer, exiting, start, restarts, deaths, files>>

(* iter_finalize_fn: open(tracker_filename, 'w'), then write. *)
OpenTracker(r) ==
  /\ Local(r, "tracker")
  /\ tracker' = Truncated
  /\ Set(r, At(rank[r], "write_tracker"))
  /\ UNCHANGED <<conf, writer, exiting, start, restarts, deaths, shards, common, metadata,
                 config>>

WriteTracker(r) ==
  /\ Local(r, "write_tracker")
  /\ tracker' = rank[r].call.iteration
  /\ Set(r, At(rank[r], AfterTracker))
  /\ UNCHANGED <<conf, writer, exiting, start, restarts, deaths, shards, common, metadata,
                 config>>

(* All-reduce of the call index; "Unmatched async calls" stops a rank. *)
AgreeOnCall ==
  /\ LET matched(r) == \A q \in Ranks : rank[q].call.idx <= rank[r].call.idx
     IN  /\ Meet("agree")
         /\ rank' = [r \in Ranks |-> At(rank[r], IF matched(r) THEN "poll" ELSE "raised")]
  /\ UNCHANGED <<conf, writer, exiting, start, restarts, deaths, files>>

-----------------------------------------------------------------------------
(* The environment: writers, signals, clocks, crashes.                       *)

WriterEnds(r, i) ==
  /\ writer[r][i] = "alive"
  /\ \/ /\ writer' = [writer EXCEPT ![r][i] = "done"]
        /\ shards' = shards \cup {<<r, i>>}
        /\ UNCHANGED deaths
     \/ /\ deaths < MaxDeaths /\ deaths' = deaths + 1
        /\ writer' = [writer EXCEPT ![r][i] = "died"]
        /\ UNCHANGED shards
  /\ UNCHANGED <<conf, rank, exiting, start, restarts, common, metadata, config, tracker>>

BeginExiting(r) ==
  /\ conf.exit \in {"signal", "duration"} /\ r \notin exiting
  /\ rank[r].pc \notin {"done", "raised", "stopped"}
  /\ exiting' = exiting \cup {r}
  /\ UNCHANGED <<conf, rank, writer, start, restarts, deaths, files>>

(* A crash at any time, and a new job that loads what the tracker names:      *)
(* nothing if there is no tracker file; an empty one makes read_metadata exit. *)
Restart ==
  /\ restarts < MaxRestarts
  /\ \E r \in Ranks : rank[r].pc # "done"
  /\ restarts' = restarts + 1
  /\ start' = IF tracker = Truncated THEN 0 ELSE tracker
  /\ rank' = [r \in Ranks |-> IF tracker = Truncated THEN At(NewRank(0), "stopped")
                              ELSE NewRank(tracker)]
  /\ writer' = NoWriters
  /\ exiting' = {}
  /\ UNCHANGED <<conf, deaths, files>>

Step(r) ==
  \/ LoopHead(r) \/ RampUpSave(r) \/ ReadSignal(r) \/ IntervalSave(r)
  \/ ExitCheck(r) \/ FinalSave(r) \/ Exit(r)
  \/ SaveCommon(r) \/ StartWriter(r) \/ Poll(r) \/ Join(r)
  \/ WriteMetadata(r) \/ WriteConfig(r) \/ OpenTracker(r) \/ WriteTracker(r)

Collective ==
  \/ TrainStep \/ GatherSignals \/ AllReduceDone \/ Plan \/ SaveReturns \/ AllReduceAlive
  \/ GatherResults \/ MetadataBarrier \/ ConfigBarrier \/ AgreeOnCall

Next ==
  \/ \E r \in Ranks : Step(r) \/ BeginExiting(r)
  \/ Collective
  \/ \E r \in Ranks, i \in Iterations : WriterEnds(r, i)
  \/ Restart

(* Processes keep running, collectives that all ranks have entered complete,  *)
(* writers end; nobody promises signals, crashes or deaths.                   *)
Fairness ==
  /\ \A r \in Ranks : WF_vars(Step(r))
  /\ WF_vars(Collective)
  /\ \A r \in Ranks, i \in Iterations : WF_vars(WriterEnds(r, i))

Spec == Init /\ [][Next]_vars /\ Fairness

-----------------------------------------------------------------------------

CollectivePoints ==
  {"train", "signals", "durations", "plan", "saved", "alive", "gather", "written",
   "configured", "agree"}
LocalPoints ==
  {"top", "ramp_up", "handler", "interval", "exit_check", "after_training", "exit", "common", "start",
   "poll", "join", "metadata", "config", "tracker", "write_tracker"}
EndPoints == {"done", "raised", "stopped"}

Requests == [idx : -1 .. NumIters, iteration : 0 .. NumIters]

(* Type correctness: no job trains past train_iters, and no more requests wait *)
(* than there are iterations to save.                                          *)
TypeOK ==
  /\ conf \in Configs
  /\ rank \in [Ranks -> [pc : CollectivePoints \cup LocalPoints \cup EndPoints,
                         ret : {"top", "ramp_up", "train", "exit_check", "after_training",
                                "exit", "done"},
                         iteration : 0 .. NumIters, queue : Seq(Requests),
                         call_idx : -1 .. NumIters - 1, call : Requests,
                         blocking : BOOLEAN, flag : BOOLEAN]]
  /\ \A r \in Ranks : Len(rank[r].queue) <= NumIters
  /\ writer \in [Ranks -> [Iterations -> {"none", "alive", "done", "died"}]]
  /\ exiting \subseteq Ranks /\ start \in 0 .. NumIters
  /\ restarts \in 0 .. MaxRestarts /\ deaths \in 0 .. MaxDeaths
  /\ shards \subseteq Ranks \X Iterations
  /\ common \subseteq Iterations /\ metadata \subseteq Iterations /\ config \subseteq Iterations
  /\ tracker \in Iterations \cup {NoFile, Truncated}

Complete(i) ==
  /\ \A r \in conf.withData : <<r, i>> \in shards
  /\ i \in common /\ i \in metadata /\ i \in config

(* "metadata.json is written only if the checkpoint is complete", and the     *)
(* tracker names a complete checkpoint: whichever writers died and whenever   *)
(* the job crashed, a restart never loads a partial checkpoint.               *)
OnlyCompleteIsPublished ==
  /\ \A i \in config : Complete(i)
  /\ tracker \in Iterations => Complete(tracker)

(* The tracker never goes back: a job sets it past what it started from, and  *)
(* to the newest checkpoint it has completed, although several saves may be in *)
(* flight. (A job that crashed may have left a newer one, complete but not     *)
(* named.)                                                                     *)
OfThisJob(i) == \E r \in Ranks : writer[r][i] # "none"

TrackerAdvances ==
  [][tracker' # tracker /\ tracker' \in Iterations =>
       /\ tracker' > start
       /\ \A i \in config : OfThisJob(i) => i <= tracker']_vars

(* Ranks that wait in collectives wait in the same one, and for the same      *)
(* request: they never disagree about a save, a finalization or an exit. The  *)
(* state keeps its types.                                                     *)
CollectivesMatch ==
  /\ TypeOK
  /\ \A r, q \in Ranks :
    rank[r].pc \in CollectivePoints /\ rank[q].pc \in CollectivePoints =>
      /\ rank[r].pc = rank[q].pc
      /\ rank[r].iteration = rank[q].iteration
      /\ rank[r].pc \in {"gather", "written", "configured", "agree"} =>
           rank[r].call = rank[q].call

(* A job ends with its last state saved and named by the tracker, although    *)
(* the last saves may still be under way when training ends or when some rank *)
(* receives a signal; an exception stops it only after a crash or the death   *)
(* of a writer.                                                               *)
JobEndsSaved ==
  <>[](\/ \E r \in Ranks : rank[r].pc \in {"raised", "stopped"} /\ restarts + deaths > 0
       \/ \A r \in Ranks : rank[r].pc = "done" /\ tracker = rank[r].iteration)

(* "If the number of microbatches is different from the previous iteration,   *)
(* save a checkpoint."                                                        *)
RampUpSavesCheckpoint ==
  [][\A r \in Ranks : rank[r].pc = "common" /\ rank[r].ret = "train" =>
       rank'[r].pc # "raised"]_vars

=============================================================================
