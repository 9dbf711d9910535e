---------------------------- MODULE Microbatches ----------------------------
(***************************************************************************)
(* The number of microbatches of an iteration, constant or ramped up with  *)
(* the samples consumed (training/microbatches.py), and the number of      *)
(* iterations that train a given number of samples (update_train_iters in  *)
(* training/training.py).                                                  *)
(*                                                                         *)
(* b = [rampup, start, increment, ramp, global] holds the batch sizes; the *)
(* first four come from --rampup-batch-size.  `chunk` is the micro batch   *)
(* size times the data-parallel size.  The code divides in floating point: *)
(* consumed / (ramp / increments) is here consumed * increments \div ramp. *)
(* The two differ only when the quotient is an integer that rounds down,   *)
(* which delays one increment by one iteration.                            *)
(***************************************************************************)
EXTENDS Integers, FiniteSets, FiniteSetsExt

Increments(b) == (b.global - b.start) \div b.increment

(* The constructors' assertions, and the division by the number of         *)
(* increments (and then, by zero samples per increment, in update).        *)
BatchAccepted(b, chunk) ==
    IF b.rampup
    THEN /\ b.global >= b.start /\ (b.global - b.start) % b.increment = 0
         /\ Increments(b) > 0 /\ b.ramp > 0
    ELSE b.global % chunk = 0 /\ b.global >= chunk

(* get_current_global_batch_size() after update(consumed, ...).            *)
GlobalBatchSize(b, consumed) ==
    IF ~ b.rampup \/ consumed > b.ramp
    THEN b.global
    ELSE b.start + ((consumed * Increments(b)) \div b.ramp) * b.increment

(* update() with the consistency check.                                    *)
BatchConsistent(b, consumed, chunk) ==
    b.rampup => GlobalBatchSize(b, consumed) % chunk = 0

NumMicrobatches(b, consumed, chunk) == GlobalBatchSize(b, consumed) \div chunk

(* The samples consumed after n iterations of the ramp-up phase.           *)
RampConsumed(b) ==
    LET after[n \in 0 .. b.ramp + 1] ==
            IF n = 0 THEN 0
            ELSE after[n - 1] + GlobalBatchSize(b, after[n - 1])
    IN after

(* The constant phase gets all the samples, those of the ramp-up included. *)
MutTrainIters(b, train_samples) ==
    IF ~ b.rampup THEN train_samples \div b.global
    ELSE LET after == RampConsumed(b)
             phase == Min({n \in DOMAIN after : after[n] > b.ramp})
         IN phase + train_samples \div b.global

(* update_train_iters, for a job given by its number of samples.           *)
TrainIters(b, train_samples) ==
    IF ~ b.rampup THEN train_samples \div b.global
    ELSE LET after == RampConsumed(b)
             phase == Min({n \in DOMAIN after : after[n] > b.ramp})
         IN phase + (train_samples - after[phase]) \div b.global
=============================================================================
