----------------------------- MODULE Checkpoints -----------------------------
(***************************************************************************)
(* The checkpoint of an epoch (shared/client/src/state/cooldown.rs): the   *)
(* cooldown step extracts the model and spawns a task that writes it to    *)
(* disk, uploads it, announces it and deletes old directories.  That task  *)
(* outlives the step, so the tasks of several epochs may be under way at   *)
(* the same time; the state machine keeps their handles (steps.rs) and the *)
(* run loop forwards what they announce and waits for them at a shutdown   *)
(* (client.rs).  An epoch is a number, a checkpoint the epoch it is of.    *)
(***************************************************************************)
EXTENDS Naturals, Sequences, FiniteSets, SequencesExt

CONSTANTS
    CheckpointEpochs,  \* bound on the number of epochs
    KeepSteps          \* keep_steps of CheckpointConfig

ASSUME CheckpointAssumption ==
    CheckpointEpochs \in Nat /\ KeepSteps \in Nat

VARIABLES
    loopAt,        \* the run loop: in an epoch, in Cooldown, waiting or ended
    cooldowns,     \* the last epoch with a cooldown
    task,          \* the task of each epoch
    handles,       \* pending_upload_handles
    announced,     \* rx_checkpoint
    published,     \* ghost: the checkpoints given to send_checkpoint
    deleteQueue,   \* delete_queue
    dirs,          \* the directories on disk
    undeleted,     \* ghost: the directories whose removal failed
    saves,         \* checkpoint_info: none, without hub_upload, with it
    deletes        \* delete_old_steps

checkpointVars ==
    <<loopAt, cooldowns, task, handles, announced, published, deleteQueue, dirs,
      undeleted, saves, deletes>>

\* What a client is started with.
settings == <<saves, deletes>>

Epochs == 1 .. CheckpointEpochs

TaskStates ==
    {"none", "extracting", "crashed", "unsaved", "writing", "uploading", "cleaning",
     "done", "failed"}

CheckpointTypeOK ==
    /\ loopAt \in {"epoch", "cooldown", "draining", "ended", "error"}
    /\ cooldowns \in 0 .. CheckpointEpochs
    /\ task \in [Epochs -> TaskStates]
    /\ handles \subseteq Epochs
    /\ announced \in Seq(Epochs)
    /\ published \in Seq(Epochs)
    /\ deleteQueue \subseteq Epochs
    /\ Cardinality(deleteQueue) <= KeepSteps
    /\ dirs \subseteq Epochs
    /\ undeleted \subseteq Epochs
    /\ saves \in {"nothing", "locally", "hub"}
    /\ deletes \in BOOLEAN

CheckpointInit ==
    /\ loopAt = "epoch"
    /\ cooldowns = 0
    /\ task = [e \in Epochs |-> "none"]
    /\ handles = {}
    /\ announced = <<>>
    /\ published = <<>>
    /\ deleteQueue = {}
    /\ dirs = {}
    /\ undeleted = {}
    /\ saves \in {"nothing", "locally", "hub"}
    /\ deletes \in BOOLEAN

Finished(e) == task[e] \in {"done", "failed"}

\* Mutant of DoingCheckpoint: a handle is never found to be finished.
DoingCheckpointEver == handles # {}

\* doing_checkpoint
DoingCheckpoint == \E e \in handles : ~Finished(e)

\* The tasks end with the process.
Alive == loopAt \in {"epoch", "cooldown", "draining"}

\* Witness to Cooldown: completed handles are dropped, the extraction starts.
StartCooldown ==
    /\ loopAt = "epoch" /\ cooldowns < CheckpointEpochs
    /\ loopAt' = "cooldown"
    /\ cooldowns' = cooldowns + 1
    /\ task' = [task EXCEPT ![cooldowns + 1] = "extracting"]
    /\ handles' = {e \in handles : ~Finished(e)}
    /\ UNCHANGED <<announced, published, deleteQueue, dirs, undeleted, settings>>

\* The model is extracted and, with a checkpoint_info, the upload task spawned; or
\* the trainer is lost.
Extract(e) ==
    /\ Alive /\ task[e] = "extracting"
    /\ \E end \in {IF saves = "nothing" THEN "unsaved" ELSE "writing", "crashed"} :
          task' = [task EXCEPT ![e] = end]
    /\ UNCHANGED <<loopAt, cooldowns, handles, announced, published, deleteQueue, dirs,
                   undeleted, settings>>

\* The next epoch: CooldownStep::finish waits for the extraction, and has a handle
\* if a task was spawned.
FinishCooldown ==
    /\ loopAt = "cooldown"
    /\ task[cooldowns] # "extracting"
    /\ IF task[cooldowns] = "crashed"
       THEN loopAt' = "error" /\ UNCHANGED handles
       ELSE /\ loopAt' = "epoch"
            /\ handles' = IF task[cooldowns] = "unsaved" THEN handles
                          ELSE handles \union {cooldowns}
    /\ UNCHANGED <<cooldowns, task, announced, published, deleteQueue, dirs, undeleted,
                   settings>>

\* save_tensors_into_safetensors and the extra files; a failure may leave a
\* directory behind.  Without hub_upload there is only the cleaning left.
WriteDir(e) ==
    /\ Alive /\ task[e] = "writing"
    /\ \/ /\ task' = [task EXCEPT ![e] = IF saves = "hub" THEN "uploading" ELSE "cleaning"]
          /\ dirs' = dirs \union {e}
       \/ /\ task' = [task EXCEPT ![e] = "failed"]
          /\ dirs' \in {dirs, dirs \union {e}}
    /\ UNCHANGED <<loopAt, cooldowns, handles, announced, published, deleteQueue, undeleted,
                   settings>>

\* upload_model_repo_async, and the message to the run loop.
Upload(e) ==
    /\ Alive /\ task[e] = "uploading"
    /\ \/ /\ task' = [task EXCEPT ![e] = "cleaning"]
          /\ announced' = Append(announced, e)
       \/ /\ task' = [task EXCEPT ![e] = "failed"]
          /\ UNCHANGED announced
    /\ UNCHANGED <<loopAt, cooldowns, handles, published, deleteQueue, dirs, undeleted,
                   settings>>

\* What the heap pops first, n times.
Oldest(queue, n) == {e \in queue : Cardinality({f \in queue : f < e}) < n}

\* The loop over the queue, under its lock: what is popped has left the queue even
\* if remove_dir_all fails.
TidyDirs(e) ==
    LET queue == deleteQueue \union {e}
        extra == IF Cardinality(queue) > KeepSteps
                 THEN Oldest(queue, Cardinality(queue) - KeepSteps) ELSE {}
    IN  \E kept \in SUBSET extra :
           /\ deleteQueue' = queue \ extra
           /\ dirs' = dirs \ (extra \ kept)
           /\ undeleted' = undeleted \union kept

\* cleanup_dirs, which does nothing without delete_old_steps.
CleanupDirs(e) ==
    /\ Alive /\ task[e] = "cleaning"
    /\ IF deletes THEN TidyDirs(e) ELSE UNCHANGED <<deleteQueue, dirs, undeleted>>
    /\ task' = [task EXCEPT ![e] = "done"]
    /\ UNCHANGED <<loopAt, cooldowns, handles, announced, published, settings>>

SendCheckpoint ==
    /\ announced # <<>>
    /\ published' = Append(published, Head(announced))
    /\ announced' = Tail(announced)
    /\ UNCHANGED <<loopAt, cooldowns, task, handles, deleteQueue, dirs, undeleted, settings>>

\* The branch of the loop on rx_checkpoint.
ForwardCheckpoint == loopAt \in {"epoch", "cooldown"} /\ SendCheckpoint

\* Cancelled: wait_for_checkpoint, or the end.
CancelLoop ==
    /\ loopAt \in {"epoch", "cooldown"}
    /\ loopAt' = IF DoingCheckpoint THEN "draining" ELSE "ended"
    /\ UNCHANGED <<cooldowns, task, handles, announced, published, deleteQueue, dirs,
                   undeleted, settings>>

\* while run.doing_checkpoint(): the next checkpoint, or a look every 10 seconds
DrainCheckpoint == loopAt = "draining" /\ DoingCheckpoint /\ SendCheckpoint

DrainEnds ==
    /\ loopAt = "draining" /\ ~DoingCheckpoint
    /\ loopAt' = "ended"
    /\ UNCHANGED <<cooldowns, task, handles, announced, published, deleteQueue, dirs,
                   undeleted, settings>>

CheckpointTask(e) == Extract(e) \/ WriteDir(e) \/ Upload(e) \/ CleanupDirs(e)

CheckpointNext ==
    \/ StartCooldown \/ FinishCooldown
    \/ \E e \in Epochs : CheckpointTask(e)
    \/ ForwardCheckpoint
    \/ CancelLoop \/ DrainCheckpoint \/ DrainEnds

\* A write and an upload end, in success or in failure, and the loop that waits
\* looks again.
CheckpointFairness ==
    /\ \A e \in Epochs : WF_checkpointVars(CheckpointTask(e))
    /\ WF_checkpointVars(DrainEnds)

CheckpointSpec == CheckpointInit /\ [][CheckpointNext]_checkpointVars /\ CheckpointFairness

-----------------------------------------------------------------------------
(* Properties. *)

\* Whatever order the tasks finish in, the directories of the finished ones that
\* are left are the newest keep_steps ("a best-effort attempt to ensure we get rid
\* of the lowest step number dir") and those whose removal failed, which nobody tries
\* again; without delete_old_steps, all of them.
KeepsNewest ==
    LET done == {e \in Epochs : task[e] = "done"}
        newest == {e \in done : Cardinality({f \in done : f > e}) < KeepSteps}
    IN  /\ dirs \intersect done = IF deletes THEN newest \union undeleted ELSE done
        /\ undeleted \subseteq done \ newest

\* No task deletes the directory that another one is still uploading from ("better
\* than risking having the dir deleted from under us").
UploadsKeepTheirDirectory ==
    \A e \in Epochs : task[e] \in {"uploading", "cleaning"} => e \in dirs

\* No checkpoint is announced twice, and none that was not uploaded: none at all
\* without hub_upload.
PublishedOnce ==
    LET all == published \o announced
    IN  /\ IsInjective(all)
        /\ \A i \in DOMAIN all : task[all[i]] \in {"cleaning", "done"}
        /\ saves # "hub" => all = <<>>

\* A shutdown ends, whether the uploads it waits for succeed or not.
DrainTerminates == loopAt = "draining" ~> loopAt = "ended"

\* However the checkpoint tasks of several epochs overlap, no directory is deleted under
\* an upload, the newest are kept (and what could not be removed), and each checkpoint
\* is announced once.
CheckpointsInv ==
    /\ CheckpointTypeOK
    /\ UploadsKeepTheirDirectory
    /\ KeepsNewest
    /\ PublishedOnce

\* The checkpoint tasks keep their invariant, and a shutdown gets to its end.
CheckpointsCorrect ==
    /\ []CheckpointsInv
    /\ DrainTerminates
=============================================================================
