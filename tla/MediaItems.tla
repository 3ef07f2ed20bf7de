------------------------------ MODULE MediaItems ------------------------------
(***************************************************************************)
(* The images of one owner's collection (an avatar): uploads and deletions *)
(* (modules/media/service.py), the chord of conversions Celery runs for    *)
(* each, the beat task that rescues what a crash left half done and the    *)
(* one that purges what was deleted (tasks/media.py over                   *)
(* media/repository_worker.py).                                            *)
(*                                                                         *)
(* The workers write with plain UPDATEs that neither check nor move the    *)
(* row_version; a request's soft deletion does both.  A task is delivered  *)
(* again when its worker dies; a chord may lose its callback or its tasks. *)
(***************************************************************************)
CONSTANTS
  Items,         \* uploads, by uuid
  Variants,      \* conversions of the collection
  Chords         \* bound: chords in flight

ASSUME MediaAssumption ==
  /\ Variants # {} /\ "original" \notin Variants
  /\ "none" \notin Items

VARIABLES
  item,        \* each row of media.items: absent, live, soft-deleted or purged
  status,      \* status of each
  conversions, \* conversions of each: the variants recorded as done, by name
  bytes,       \* what the object store holds
  upload,      \* where each upload stands
  chord,       \* the chords in flight
  rescue,      \* the row requeue_stuck_media() has read
  hasty,       \* history: rows the rescue acted on although a chord was at work
  leaky        \* history: rows with bytes saved that their record does not name

mediaVars == <<item, status, conversions, bytes, upload, chord,
               rescue, hasty, leaky>>

Original == "original"
NoChord == [m |-> "none", task |-> <<>>]
NoRescue == [m |-> "none", missing |-> {}, old |-> FALSE]
Returned == {"done", "failed", "skipped"}
Finished == {"done", "partial_failure"}
\* The tasks of a chord: one for each variant it converts.
Runs == UNION {[vs -> {"queued", "running"} \union Returned] : vs \in SUBSET Variants}
LiveItems == {m \in Items : item[m] = "live"}

MediaTypeOK ==
  /\ item \in [Items -> {"absent", "live", "deleted", "purged"}]
  /\ status \in [Items -> {"pending", "processing"} \union Finished]
  /\ conversions \in [Items -> SUBSET Variants]
  /\ bytes \in SUBSET (Items \X (Variants \union {Original}))
  /\ upload \in [Items -> {"none", "committed", "over"}]
  /\ chord \in [Chords -> {NoChord} \union [m : Items, task : Runs]]
  /\ rescue \in [m : Items \union {"none"}, missing : SUBSET Variants, old : BOOLEAN]
  /\ hasty \in SUBSET Items /\ leaky \in SUBSET Items

MediaInit ==
  /\ item = [m \in Items |-> "absent"] /\ status = [m \in Items |-> "pending"]
  /\ conversions = [m \in Items |-> {}]
  /\ bytes = {}
  /\ upload = [m \in Items |-> "none"]
  /\ chord = [c \in Chords |-> NoChord]
  /\ rescue = NoRescue
  /\ hasty = {} /\ leaky = {}

rowVars == <<item, status, conversions>>
seen == <<hasty, leaky>>

-----------------------------------------------------------------------------
(* replace_image() and delete_image(). *)

\* The bytes are stored, the row commits, the rows it has listed are soft-deleted,
\* row_version compared; one that another upload commits meanwhile is not listed.
Upload(m) ==
  /\ upload[m] = "none"
  /\ upload' = [upload EXCEPT ![m] = "committed"]
  /\ bytes' = bytes \union {<<m, Original>>}
  /\ \E listed \in SUBSET LiveItems :
       item' = [x \in Items |-> IF x = m THEN "live" ELSE IF x \in listed THEN "deleted" ELSE item[x]]
  /\ UNCHANGED <<status, conversions, chord, rescue, seen>>

\* It fails and deletes the bytes again; a crash before the commit leaves them.
FailUpload(m) ==
  /\ upload[m] = "none"
  /\ upload' = [upload EXCEPT ![m] = "over"]
  /\ bytes' \in {bytes, bytes \union {<<m, Original>>}}
  /\ UNCHANGED <<rowVars, chord, rescue, seen>>

\* delete_image().
DeleteImage ==
  /\ LiveItems # {}
  /\ item' = [x \in Items |-> IF item[x] = "live" THEN "deleted" ELSE item[x]]
  /\ UNCHANGED <<status, conversions, bytes, upload, chord, rescue, seen>>

\* dispatch_conversions() of the variants vs: a chord, or nothing (the broker is
\* down, the process dies: the upload has succeeded all the same).
Sends(m, vs) ==
  \/ UNCHANGED chord
  \/ \E c \in Chords :
       /\ chord[c] = NoChord
       /\ chord' = [chord EXCEPT ![c] = [m |-> m, task |-> [v \in vs |-> "queued"]]]

Dispatch(m) ==
  /\ upload[m] = "committed"
  /\ upload' = [upload EXCEPT ![m] = "over"]
  /\ Sends(m, Variants)
  /\ UNCHANGED <<rowVars, bytes, rescue, seen>>

-----------------------------------------------------------------------------
(* gen_variant() and finalize_conversions(). *)

At(c, v, s) == v \in DOMAIN chord[c].task /\ chord[c].task[v] = s
Goes(c, v, s) == chord' = [chord EXCEPT ![c].task[v] = s]

\* get() finds a live row, mark_processing() moves a pending one.
StartVariant(c, v) ==
  LET m == chord[c].m
  IN  /\ At(c, v, "queued") /\ item[m] = "live"
      /\ Goes(c, v, "running")
      /\ status' = IF status[m] = "pending" THEN [status EXCEPT ![m] = "processing"] ELSE status
      /\ UNCHANGED <<item, conversions, bytes, upload, rescue, seen>>

\* A deleted one is skipped.
SkipDeleted(c, v) ==
  /\ At(c, v, "queued") /\ item[chord[c].m] # "live"
  /\ Goes(c, v, "skipped")
  /\ UNCHANGED <<rowVars, bytes, upload, rescue, seen>>

\* Mutant: the result of a row that was deleted meanwhile is not recorded.
OnlyLive(m) == item[m] = "live"
\* set_conversion(): the UPDATE finds the row by uuid, deleted or not.
Recordable(m) == item[m] # "purged"

SetConversion(m, done) ==
  conversions' = IF Recordable(m) THEN [conversions EXCEPT ![m] = done] ELSE conversions

\* The variant is rendered, stored, and recorded under its key.
Record(c, v) ==
  /\ At(c, v, "running")
  /\ bytes' = bytes \union {<<chord[c].m, v>>}
  /\ SetConversion(chord[c].m, conversions[chord[c].m] \union {v})
  /\ Goes(c, v, "done")
  /\ UNCHANGED <<item, status, upload, rescue, seen>>

\* v is stored and the row does not name it, or no longer.
Leaks(m, v) == leaky' = IF <<m, v>> \in bytes' /\ v \notin conversions'[m] THEN leaky \union {m} ELSE leaky

\* An image or a spec that cannot be used, the last retry: the record loses the
\* name of what an earlier run, or this one, has stored.
RecordFailure(c, v) ==
  LET m == chord[c].m
  IN  /\ At(c, v, "running")
      /\ bytes' \in {bytes, bytes \union {<<m, v>>}}
      /\ SetConversion(m, conversions[m] \ {v})
      /\ Goes(c, v, "failed")
      /\ Leaks(m, v)
      /\ UNCHANGED <<item, status, upload, rescue, hasty>>

\* self.retry(), or the worker dies, before or after the variant is stored: the
\* task is queued again.
TryAgain(c, v) ==
  LET m == chord[c].m
  IN  /\ At(c, v, "running")
      /\ bytes' \in {bytes, bytes \union {<<m, v>>}}
      /\ Goes(c, v, "queued")
      /\ UNCHANGED <<rowVars, upload, rescue, hasty>>
      /\ Leaks(m, v)

\* The worker dies after it recorded a result, before it acknowledged the task.
DieRecorded(c, v) ==
  /\ \E s \in {"done", "failed"} : At(c, v, s)
  /\ Goes(c, v, "queued")
  /\ UNCHANGED <<rowVars, bytes, upload, rescue, hasty, leaky>>

Overall(results) == IF results \subseteq {"done", "skipped"} THEN "done" ELSE "partial_failure"

\* The callback, once every task has returned.
Finalize(c) ==
  LET m == chord[c].m
      results == {chord[c].task[v] : v \in DOMAIN chord[c].task}
  IN  /\ chord[c] # NoChord /\ results \subseteq Returned
      /\ chord' = [chord EXCEPT ![c] = NoChord]
      /\ status' = IF results = {"skipped"} THEN status ELSE [status EXCEPT ![m] = Overall(results)]
      /\ UNCHANGED <<item, conversions, bytes, upload, rescue, seen>>

\* The broker or the result backend loses what is left of a chord.
LoseChord(c) ==
  /\ chord[c] # NoChord
  /\ chord' = [chord EXCEPT ![c] = NoChord]
  /\ UNCHANGED <<rowVars, bytes, upload, rescue, seen>>

-----------------------------------------------------------------------------
(* requeue_stuck_media() and gc_deleted_media(). *)

Unfinished(m) == status[m] \in {"pending", "processing"}

Missing(m) == Variants \ conversions[m]
\* A chord of m is in flight, or about to be dispatched by its upload.
AtWork(m) == upload[m] = "committed" \/ \E c \in Chords : chord[c].m = m

\* list_stuck(): STUCK_IDLE may have passed whatever was written last, and so may
\* STUCK_GIVE_UP_AFTER.
ListStuck(m, old) ==
  /\ rescue = NoRescue
  /\ item[m] = "live" /\ Unfinished(m)
  /\ rescue' = [m |-> m, missing |-> Missing(m), old |-> old]
  /\ UNCHANGED <<rowVars, bytes, upload, chord, seen>>

\* Finished by the status alone, given up, or dispatched again.
Rescue ==
  LET m == rescue.m
      ends == rescue.missing = {} \/ rescue.old
  IN  /\ rescue # NoRescue
      /\ rescue' = NoRescue
      /\ status' = IF ~ends THEN status
                   ELSE [status EXCEPT ![m] = IF rescue.missing = {} THEN "done" ELSE "partial_failure"]
      /\ IF ends THEN UNCHANGED chord ELSE Sends(m, rescue.missing)
      /\ hasty' = IF AtWork(m) \/ ~Unfinished(m) \/ rescue.missing # Missing(m) THEN hasty \union {m} ELSE hasty
      /\ UNCHANGED <<item, conversions, bytes, upload, leaky>>

\* gc_deleted_media(): the bytes the row names, then the row; what it could not
\* finish the next tick does again.  GC_GRACE is a day: a task that has read the
\* row as live is over by then (task_time_limit is ten minutes).
Purge(m) ==
  /\ item[m] = "deleted"
  /\ \A c \in Chords : chord[c].m = m => \A v \in DOMAIN chord[c].task : ~At(c, v, "running")
  /\ bytes' = bytes \ {<<m, k>> : k \in {Original} \union conversions[m]}
  /\ item' = [item EXCEPT ![m] = "purged"]
  /\ status' = [status EXCEPT ![m] = "pending"]
  /\ conversions' = [conversions EXCEPT ![m] = {}]
  /\ UNCHANGED <<upload, chord, rescue, seen>>

-----------------------------------------------------------------------------
Convert(c, v) ==
  \/ StartVariant(c, v) \/ SkipDeleted(c, v) \/ Record(c, v)
  \/ RecordFailure(c, v) \/ TryAgain(c, v) \/ DieRecorded(c, v)

MediaNext ==
  \/ DeleteImage \/ Rescue
  \/ \E m \in Items :
       \/ Upload(m) \/ FailUpload(m) \/ Dispatch(m)
       \/ Purge(m) \/ \E old \in BOOLEAN : ListStuck(m, old)
  \/ \E c \in Chords : Finalize(c) \/ LoseChord(c) \/ \E v \in Variants : Convert(c, v)

MediaSpec == MediaInit /\ [][MediaNext]_mediaVars

-----------------------------------------------------------------------------
(* Properties. *)

(* What the row of an image says is what is in the object store.  tasks/media.py,
   "finalize_conversions joins them into the row's overall status": with no chord
   at work a finished row says done exactly when every variant is there, unless
   the rescue sweep met a chord that was still at work.  And gc_deleted_media: a
   purged image leaves nothing behind, a variant that was finished after the
   deletion included - unless a run was cut off between storing and recording it,
   or a later run's failure was recorded over it.                           *)
RowsMatchTheStore ==
  /\ \A m \in LiveItems \ hasty :
       (status[m] \in Finished /\ ~AtWork(m)) => (status[m] = "done" <=> Missing(m) = {})
  /\ \A m \in Items \ leaky : item[m] = "purged" => \A k \in Variants \union {Original} : <<m, k>> \notin bytes
===============================================================================
