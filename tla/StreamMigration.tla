---------------------------- MODULE StreamMigration ----------------------------
(***************************************************************************)
(* Startup of the pods of one service against one stream whose immutable   *)
(* config has to change: recovery of an interrupted migration, the         *)
(* blue-green migration itself, its rollback, the consumers created at     *)
(* startup and by self-healing, with publishers and consumers at work.     *)
(*                                                                         *)
(* One step is one JetStream API call of a pod, so that the calls of       *)
(* several pods interleave and a pod may die between any two of them.  The *)
(* location pc[p] is the call pod p makes next; an info() whose answer     *)
(* only feeds the call after it is part of that call's step.               *)
(*                                                                         *)
(* The server is external and modelled from how the code relies on it:     *)
(* update() changes the fields it is given and rejects a change of the     *)
(* immutable ones; sourcing copies, in order, the messages its origin      *)
(* still holds, remembers its position, leaves the origin alone and is     *)
(* dead once the origin was deleted (the code's "stale source ref").       *)
(***************************************************************************)
EXTENDS Integers, Sequences, FiniteSets, FiniteSetsExt, Functions

CONSTANTS
  Pods,        \* the instances of the service
  InitServing, \* those already serving the old stream when the deploy begins
  Msgs,        \* messages that publishers may publish, each once
  InitLogs,    \* possible contents of the old stream
  Consuming,   \* BOOLEAN: serving pods ack messages off the stream
  Exclusive,   \* BOOLEAN: explore only what happens while no two pods are about
               \* to write to the streams at the same time
  MaxFaults    \* bound: crashes, failed calls and slow copies explored

ASSUME MigrationAssumption ==
  /\ InitServing \subseteq Pods
  /\ InitLogs \subseteq Seq(Msgs)
  /\ \A log \in InitLogs : IsInjective(log)   \* published once each
  /\ {Consuming, Exclusive} \subseteq BOOLEAN
  /\ MaxFaults \in Nat

VARIABLES
  stream,    \* the stream
  backup,    \* {stream}__migration_backup
  consumer,  \* the durable consumer exists on the stream
  pc,        \* the next API call of each pod
  mem,       \* what each pod read and still uses
  acked,     \* messages whose publish was acknowledged
  consumed,  \* messages a consumer acknowledged
  faults,    \* faults so far
  early      \* history: a pod left its backup behind next to the original

podVars == <<pc, mem, early>>
vars == <<stream, backup, consumer, pc, mem, acked, consumed, faults, early>>

--------------------------------------------------------------------------------
(***************************************************************************)
(* A stream is the log of what it ever stored, the positions still held,   *)
(* the subjects (open: publishes are accepted), and the source with the    *)
(* position reached in it.                                                 *)
(***************************************************************************)
NoStream == [exists |-> FALSE, cfg |-> "none", open |-> FALSE,
             src |-> FALSE, pos |-> 0, log |-> <<>>, live |-> {}]

NewStream == [NoStream EXCEPT !.exists = TRUE, !.cfg = "new", !.open = TRUE]

NoBackup == [exists |-> FALSE, src |-> FALSE, pos |-> 0, fresh |-> FALSE,
             owner |-> "none", log |-> <<>>, live |-> {}]

Messages(s) == Cardinality(s.live)

Holds(s, m) == s.exists /\ \E i \in s.live : s.log[i] = m

\* What a stream with position pos in origin s has yet to copy (its lag).
Lag(s, pos) == {i \in s.live : i > pos}

Store(s, m) == [s EXCEPT !.log = Append(@, m), !.live = @ \cup {Len(s.log) + 1}]

\* A pod's locals: the config to write back, the messages to expect, whether it
\* waited out a peer, and whether restoreFromBackup() was called by migrate().
Blank == [cfg |-> "none", open |-> FALSE, min |-> 0, waited |-> FALSE, migrating |-> FALSE]

Recovering == {"inspect", "resume", "dropBackup"}
Restoring  == {"detachBackup", "attach", "drain", "deleteBackup", "detach"}
TryBlock   == {"quiesce", "count", "backup", "fill", "delete"}
Migrating  == {"snapshot"} \cup TryBlock \cup {"recreate", "rollback", "dropOwn"}
Critical   == Recovering \cup Restoring \cup Migrating \cup {"create", "reopen", "apply"}
Locations  == Critical \cup {"down", "boot", "ensure", "probe", "peerWait",
                             "ready", "serving", "heal"}

MigrationTypeOK ==
  /\ stream.cfg \in {"none", "old", "new"}
  /\ \A s \in {stream, backup} :
       /\ s.log \in Seq(Msgs)
       /\ s.live \subseteq 1 .. Len(s.log)
       /\ {s.exists, s.src} \subseteq BOOLEAN
       /\ s.pos \in Nat
  /\ backup.owner \in Pods \cup {"none"}
  /\ pc \in [Pods -> Locations]
  /\ \A p \in Pods : mem[p].min \in Nat /\ mem[p].cfg \in {"none", "old", "new"}
  /\ acked \subseteq Msgs
  /\ consumed \subseteq acked
  /\ faults \in 0 .. MaxFaults
  /\ {consumer, early, stream.open, backup.fresh} \subseteq BOOLEAN

Init ==
  /\ \E log \in InitLogs :
       /\ stream = [NoStream EXCEPT !.exists = TRUE, !.cfg = "old", !.open = TRUE,
                                    !.log = log, !.live = DOMAIN log]
       /\ acked = Range(log)
  /\ backup = NoBackup
  /\ consumer = (InitServing # {})
  /\ pc = [p \in Pods |-> IF p \in InitServing THEN "serving" ELSE "down"]
  /\ mem = [p \in Pods |-> Blank]
  /\ consumed = {}
  /\ faults = 0
  /\ early = FALSE

--------------------------------------------------------------------------------
\* Pod p continues at location l, in an exclusive run only while no other pod is
\* about to write.
Move(p, l) ==
  /\ pc' = [pc EXCEPT ![p] = l]
  /\ Exclusive /\ l \in Critical => \A q \in Pods \ {p} : pc[q] \notin Critical

\* ... and leaves both streams behind when it goes down before the original is gone.
Goto(p, l) ==
  /\ Move(p, l)
  /\ early' = \/ early
              \/ /\ l = "down" /\ pc[p] \in {"fill", "delete", "rollback", "dropOwn"}
                 /\ backup.exists /\ stream.exists

Keep(p, r) == mem' = [mem EXCEPT ![p] = r]

\* An API call of p rejects: migrate() rolls back while the original still exists;
\* everything else propagates and startup fails.
Fails(p) ==
  IF pc[p] \in TryBlock
  THEN Goto(p, "rollback") /\ UNCHANGED mem
  ELSE Goto(p, "down") /\ Keep(p, Blank)

\* update() with the config p holds is accepted.
UpdateAccepted(p) == stream.exists /\ stream.cfg = mem[p].cfg

ServerRest == <<consumer, acked, consumed, faults>>

(***************************************************************************)
(* recoverInterrupted()                                                    *)
(***************************************************************************)
Boot(p) ==
  /\ pc[p] = "down"
  /\ Goto(p, "boot")
  /\ UNCHANGED <<stream, backup, mem, ServerRest>>

\* Mutant: every backup is taken for a live migration.
ProbeBackupNeverStale(p) ==
  /\ pc[p] = "boot"
  /\ Goto(p, "ensure")
  /\ UNCHANGED <<stream, backup, mem, ServerRest>>

\* No backup, or one young enough to belong to a live peer: nothing to recover.
ProbeBackup(p) ==
  /\ pc[p] = "boot"
  /\ IF ~backup.exists \/ backup.fresh
     THEN Goto(p, "ensure") /\ UNCHANGED mem
     ELSE Goto(p, "inspect") /\ Keep(p, [Blank EXCEPT !.min = Messages(backup)])
  /\ UNCHANGED <<stream, backup, ServerRest>>

\* Mutant: a stream without a source is taken for one that was restored.
InspectDropsBackup(p) ==
  /\ pc[p] = "inspect"
  /\ Goto(p, IF ~stream.exists THEN "resume"
             ELSE IF stream.src THEN "drain"
             ELSE "dropBackup")
  /\ Keep(p, [mem[p] EXCEPT !.cfg = stream.cfg, !.open = stream.open])
  /\ UNCHANGED <<stream, backup, ServerRest>>

\* The stream may be gone, be in the middle of a restore, or hold no source yet.
Inspect(p) ==
  /\ pc[p] = "inspect"
  /\ Goto(p, IF ~stream.exists THEN "resume"
             ELSE IF stream.src THEN "drain"
             ELSE IF mem[p].min = 0 THEN "dropBackup"
             ELSE "detachBackup")
  /\ Keep(p, [mem[p] EXCEPT !.cfg = stream.cfg, !.open = stream.open])
  /\ UNCHANGED <<stream, backup, ServerRest>>

Resume(p) ==
  /\ pc[p] = "resume"
  /\ IF stream.exists
     THEN Fails(p) /\ UNCHANGED stream
     ELSE /\ stream' = NewStream
          /\ Goto(p, IF mem[p].min > 0 THEN "detachBackup" ELSE "dropBackup")
          /\ Keep(p, [mem[p] EXCEPT !.cfg = "new", !.open = TRUE])
  /\ UNCHANGED <<backup, ServerRest>>

DropEmptyBackup(p) ==
  /\ pc[p] = "dropBackup"
  /\ IF backup.exists
     THEN backup' = NoBackup /\ Goto(p, "ensure") /\ Keep(p, Blank)
     ELSE Fails(p) /\ UNCHANGED backup
  /\ UNCHANGED <<stream, ServerRest>>

(***************************************************************************)
(* restoreFromBackup()                                                     *)
(***************************************************************************)
\* Count the backup and clear its own source.
DetachBackup(p) ==
  /\ pc[p] = "detachBackup"
  /\ IF backup.exists
     THEN /\ backup' = [backup EXCEPT !.src = FALSE]
          /\ Goto(p, "attach")
          /\ Keep(p, [mem[p] EXCEPT !.min = Messages(backup)])
     ELSE Fails(p) /\ UNCHANGED backup
  /\ UNCHANGED <<stream, ServerRest>>

AttachSource(p) ==
  /\ pc[p] = "attach"
  /\ IF UpdateAccepted(p)
     THEN /\ stream' = [stream EXCEPT !.open = mem[p].open, !.src = TRUE,
                                      !.pos = IF stream.src THEN @ ELSE 0]
          /\ Goto(p, "drain")
          /\ UNCHANGED mem
     ELSE Fails(p) /\ UNCHANGED stream
  /\ UNCHANGED <<backup, ServerRest>>

Restored(p) ==
  /\ stream.exists /\ stream.src /\ backup.exists
  /\ Lag(backup, stream.pos) = {}
  /\ Messages(stream) >= mem[p].min

\* Mutant: the lag of the source is not looked at.
DrainIgnoresLag(p) ==
  /\ pc[p] = "drain"
  /\ stream.exists /\ stream.src /\ backup.exists
  /\ Goto(p, "deleteBackup")
  /\ UNCHANGED <<stream, backup, mem, ServerRest>>

\* Mutant: the source is detached before the backup is deleted, by the drain step.
DrainDetachesFirst(p) ==
  /\ pc[p] = "drain"
  /\ Restored(p)
  /\ stream' = [stream EXCEPT !.src = FALSE]
  /\ Goto(p, "deleteBackup")
  /\ UNCHANGED <<backup, mem, ServerRest>>

\* waitForSourceDrained() of the stream returns.
Drain(p) ==
  /\ pc[p] = "drain"
  /\ Restored(p)
  /\ Goto(p, "deleteBackup")
  /\ UNCHANGED <<stream, backup, mem, ServerRest>>

DeleteBackup(p) ==
  /\ pc[p] = "deleteBackup"
  /\ IF backup.exists
     THEN backup' = NoBackup /\ Goto(p, "detach") /\ UNCHANGED mem
     ELSE Fails(p) /\ UNCHANGED backup
  /\ UNCHANGED <<stream, ServerRest>>

DetachSource(p) ==
  /\ pc[p] = "detach"
  /\ IF UpdateAccepted(p)
     THEN /\ stream' = [stream EXCEPT !.open = mem[p].open, !.src = FALSE]
          /\ Goto(p, IF mem[p].migrating THEN "ready" ELSE "ensure")
          /\ Keep(p, Blank)
     ELSE Fails(p) /\ UNCHANGED stream
  /\ UNCHANGED <<backup, ServerRest>>

--------------------------------------------------------------------------------
(***************************************************************************)
(* ensureStream() and handleExistingStream(), destructive migration on.    *)
(***************************************************************************)
EnsureStream(p) ==
  /\ pc[p] = "ensure"
  /\ Goto(p, IF ~stream.exists THEN "create"
             ELSE IF stream.cfg = "old" THEN "probe"
             ELSE IF ~stream.open THEN "reopen"
             ELSE "ready")
  /\ UNCHANGED <<stream, backup, mem, ServerRest>>

CreateStream(p) ==
  /\ pc[p] = "create"
  /\ IF stream.exists
     THEN Fails(p) /\ UNCHANGED stream
     ELSE stream' = NewStream /\ Goto(p, "ready") /\ UNCHANGED mem
  /\ UNCHANGED <<backup, ServerRest>>

\* The desired config is written: after a mutable difference (the subjects), or by
\* migrate() when a peer did the migration.
UpdateStream(p) ==
  /\ pc[p] \in {"reopen", "apply"}
  /\ IF stream.exists /\ stream.cfg = "new"
     THEN stream' = [stream EXCEPT !.open = TRUE] /\ Goto(p, "ready") /\ Keep(p, Blank)
     ELSE Fails(p) /\ UNCHANGED stream
  /\ UNCHANGED <<backup, ServerRest>>

(***************************************************************************)
(* migrate()                                                               *)
(***************************************************************************)
\* waitOutPeerMigration(): look for a backup, wait until it is gone or give up.
ProbePeer(p) ==
  /\ pc[p] = "probe"
  /\ Goto(p, IF backup.exists THEN "peerWait" ELSE "snapshot")
  /\ UNCHANGED <<stream, backup, mem, ServerRest>>

PeerClears(p) ==
  /\ pc[p] = "peerWait"
  /\ ~backup.exists
  /\ Goto(p, "snapshot")
  /\ Keep(p, [mem[p] EXCEPT !.waited = TRUE])
  /\ UNCHANGED <<stream, backup, ServerRest>>

PeerWaitTimesOut(p) ==
  /\ pc[p] = "peerWait"
  /\ backup.exists
  /\ Fails(p)
  /\ UNCHANGED <<stream, backup, ServerRest>>

\* info(): the config that quiesce and rollback write back.  A stream that is gone by
\* now is created: ensureStream() catches the StreamNotFound of migrate() too.
Snapshot(p) ==
  /\ pc[p] = "snapshot"
  /\ CASE ~stream.exists -> Goto(p, "create") /\ Keep(p, Blank)
       [] stream.exists /\ mem[p].waited /\ stream.cfg = "new" ->
            Goto(p, "apply") /\ UNCHANGED mem
       [] OTHER ->
            /\ Goto(p, "quiesce")
            /\ Keep(p, [mem[p] EXCEPT !.cfg = stream.cfg, !.open = stream.open])
  /\ UNCHANGED <<stream, backup, ServerRest>>

\* Mutant: Phase 1 leaves the subjects in place.
QuiesceSkipped(p) ==
  /\ pc[p] = "quiesce"
  /\ Goto(p, "count")
  /\ UNCHANGED <<stream, backup, mem, ServerRest>>

\* Phase 1: drop the subjects.
Quiesce(p) ==
  /\ pc[p] = "quiesce"
  /\ IF UpdateAccepted(p)
     THEN stream' = [stream EXCEPT !.open = FALSE] /\ Goto(p, "count") /\ UNCHANGED mem
     ELSE Fails(p) /\ UNCHANGED stream
  /\ UNCHANGED <<backup, ServerRest>>

\* drainedCount
Count(p) ==
  /\ pc[p] = "count"
  /\ IF stream.exists
     THEN /\ Keep(p, [mem[p] EXCEPT !.min = Messages(stream)])
          /\ Goto(p, IF Messages(stream) > 0 THEN "backup" ELSE "delete")
     ELSE Fails(p)
  /\ UNCHANGED <<stream, backup, ServerRest>>

\* Phase 2: a backup sourcing the original, stamped with the time.  The server
\* refuses a second one, and one that would form a sourcing cycle with a stream
\* that still names the backup as its source.
CreateBackup(p) ==
  /\ pc[p] = "backup"
  /\ IF backup.exists \/ stream.src
     THEN Fails(p) /\ UNCHANGED backup
     ELSE /\ backup' = [NoBackup EXCEPT !.exists = TRUE, !.src = TRUE,
                                        !.fresh = TRUE, !.owner = p]
          /\ Goto(p, "fill")
          /\ UNCHANGED mem
  /\ UNCHANGED <<stream, ServerRest>>

Filled(p) ==
  /\ backup.exists /\ backup.src /\ stream.exists
  /\ Lag(stream, backup.pos) = {}
  /\ Messages(backup) >= mem[p].min

\* waitForSourceDrained() of the backup returns.
Fill(p) ==
  /\ pc[p] = "fill"
  /\ Filled(p)
  /\ Goto(p, "delete")
  /\ UNCHANGED <<stream, backup, mem, ServerRest>>

\* waitForSourceDrained() gives up: because the condition it polls for can no longer
\* come true, or because the copy is slow (a fault).
CopyTimesOut(p) ==
  /\ \/ pc[p] = "fill" /\ ~Filled(p)
     \/ pc[p] = "drain" /\ ~Restored(p)
  /\ LET slow == \/ pc[p] = "fill" /\ backup.src /\ Lag(stream, backup.pos) # {}
                 \/ pc[p] = "drain" /\ backup.exists /\ stream.src /\ Lag(backup, stream.pos) # {}
     IN  faults' = IF slow THEN faults + 1 ELSE faults
  /\ faults' <= MaxFaults
  /\ Fails(p)
  /\ UNCHANGED <<stream, backup, consumer, acked, consumed>>

\* The stream goes, with its consumers and the sourcing from it.
Gone ==
  /\ stream' = NoStream
  /\ consumer' = FALSE
  /\ backup' = [backup EXCEPT !.src = FALSE]

\* Phase 3.
DeleteStream(p) ==
  /\ pc[p] = "delete"
  /\ IF stream.exists
     THEN Gone /\ Goto(p, "recreate") /\ UNCHANGED mem
     ELSE Fails(p) /\ UNCHANGED <<stream, consumer, backup>>
  /\ UNCHANGED <<acked, consumed, faults>>

\* The desired config carries the subjects, so publishes are accepted from here on.
Recreate(p) ==
  /\ pc[p] = "recreate"
  /\ IF stream.exists
     THEN Fails(p) /\ UNCHANGED stream
     ELSE /\ stream' = NewStream
          /\ IF mem[p].min > 0
             THEN /\ Goto(p, "detachBackup")
                  /\ Keep(p, [mem[p] EXCEPT !.cfg = "new", !.open = TRUE, !.migrating = TRUE])
             ELSE Goto(p, "ready") /\ Keep(p, Blank)
  /\ UNCHANGED <<backup, ServerRest>>

\* rollbackBeforeDelete(): first the subjects; if that fails the backup is kept.
Rollback(p) ==
  /\ pc[p] = "rollback"
  /\ IF UpdateAccepted(p)
     THEN stream' = [stream EXCEPT !.open = mem[p].open] /\ Goto(p, "dropOwn") /\ UNCHANGED mem
     ELSE Fails(p) /\ UNCHANGED stream
  /\ UNCHANGED <<backup, ServerRest>>

\* ... then whatever backup is there; the original error propagates.
DropOwnBackup(p) ==
  /\ pc[p] = "dropOwn"
  /\ backup' = NoBackup
  /\ Move(p, "down")
  /\ Keep(p, Blank)
  /\ UNCHANGED <<stream, early, ServerRest>>

--------------------------------------------------------------------------------
(***************************************************************************)
(* Consumers.                                                              *)
(***************************************************************************)
\* Mutant: startup leaves a missing consumer to self-healing.
StartConsumingDefers(p) ==
  /\ pc[p] = "ready"
  /\ Goto(p, "serving")
  /\ UNCHANGED <<stream, backup, mem, ServerRest>>

\* ensureConsumer(): the startup path does not look for a backup.
StartConsuming(p) ==
  /\ pc[p] = "ready"
  /\ IF stream.exists
     THEN consumer' = TRUE /\ Goto(p, "serving") /\ UNCHANGED mem
     ELSE Fails(p) /\ UNCHANGED consumer
  /\ UNCHANGED <<stream, backup, acked, consumed, faults>>

\* recoverConsumer() after the consumer vanished: assertNoMigrationInProgress(),
HealCheck(p) ==
  /\ pc[p] = "serving"
  /\ ~consumer
  /\ ~backup.exists
  /\ Goto(p, "heal")
  /\ UNCHANGED <<stream, backup, mem, ServerRest>>

\* then info() and create; a missing stream sends it back to the retry loop.
HealCreate(p) ==
  /\ pc[p] = "heal"
  /\ consumer' = (consumer \/ stream.exists)
  /\ Goto(p, "serving")
  /\ UNCHANGED <<stream, backup, mem, acked, consumed, faults>>

Consume(p) ==
  /\ Consuming
  /\ pc[p] = "serving"
  /\ consumer /\ stream.exists
  /\ stream.live # {}
  /\ LET i == Min(stream.live)
     IN  /\ stream' = [stream EXCEPT !.live = @ \ {i}]
         /\ consumed' = consumed \cup {stream.log[i]}
  /\ UNCHANGED <<backup, consumer, podVars, acked, faults>>

(***************************************************************************)
(* The rest of the world.                                                  *)
(***************************************************************************)
\* A publish is stored and acknowledged, or (no subject) rejected.
Publish(m) ==
  /\ m \notin acked
  /\ stream.exists /\ stream.open
  /\ stream' = Store(stream, m)
  /\ acked' = acked \cup {m}
  /\ UNCHANGED <<backup, consumer, podVars, consumed, faults>>

\* Server-side sourcing, one message at a time.
SourceIntoBackup ==
  /\ backup.exists /\ backup.src /\ stream.exists
  /\ Lag(stream, backup.pos) # {}
  /\ LET i == Min(Lag(stream, backup.pos))
     IN  backup' = [Store(backup, stream.log[i]) EXCEPT !.pos = i]
  /\ UNCHANGED <<stream, podVars, ServerRest>>

SourceIntoStream ==
  /\ stream.exists /\ stream.src /\ backup.exists
  /\ Lag(backup, stream.pos) # {}
  /\ LET i == Min(Lag(backup, stream.pos))
     IN  stream' = [Store(stream, backup.log[i]) EXCEPT !.pos = i]
  /\ UNCHANGED <<backup, podVars, ServerRest>>

\* ACTIVE_MIGRATION_GRACE_MS passes.  A migration that is still running is faster.
BackupAges ==
  /\ backup.exists /\ backup.fresh
  /\ pc[backup.owner] \notin Critical
  /\ backup' = [backup EXCEPT !.fresh = FALSE]
  /\ UNCHANGED <<stream, podVars, ServerRest>>

\* The process dies, or an API call outside migrate()'s try block fails.
Crash(p) ==
  /\ pc[p] # "down"
  /\ faults < MaxFaults
  /\ faults' = faults + 1
  /\ Goto(p, "down")
  /\ Keep(p, Blank)
  /\ UNCHANGED <<stream, backup, consumer, acked, consumed>>

\* An API call inside the try block fails, the delete perhaps after the server
\* carried it out.
CallFails(p) ==
  /\ pc[p] \in TryBlock
  /\ faults < MaxFaults
  /\ faults' = faults + 1
  /\ Fails(p)
  /\ \/ UNCHANGED <<stream, consumer, backup>>
     \/ pc[p] = "delete" /\ Gone
  /\ UNCHANGED <<acked, consumed>>

--------------------------------------------------------------------------------
Recover(p) == ProbeBackup(p) \/ Inspect(p) \/ Resume(p) \/ DropEmptyBackup(p)
Restore(p) == \/ DetachBackup(p) \/ AttachSource(p) \/ Drain(p)
              \/ DeleteBackup(p) \/ DetachSource(p)
Ensure(p)  == EnsureStream(p) \/ CreateStream(p) \/ UpdateStream(p) \/ StartConsuming(p)
Migrate(p) == \/ ProbePeer(p) \/ PeerClears(p) \/ PeerWaitTimesOut(p) \/ Snapshot(p)
              \/ Quiesce(p) \/ Count(p) \/ CreateBackup(p) \/ Fill(p)
              \/ DeleteStream(p) \/ Recreate(p) \/ Rollback(p) \/ DropOwnBackup(p)
Heal(p)    == HealCheck(p) \/ HealCreate(p)

Startup(p) == Boot(p) \/ Recover(p) \/ Restore(p) \/ Ensure(p) \/ Migrate(p)

Next ==
  \/ \E p \in Pods :
       \/ Startup(p) \/ CopyTimesOut(p) \/ Heal(p)
       \/ Consume(p) \/ Crash(p) \/ CallFails(p)
  \/ \E m \in Msgs : Publish(m)
  \/ SourceIntoBackup
  \/ SourceIntoStream
  \/ BackupAges

Spec == Init /\ [][Next]_vars

\* Fairness: a pod makes its next call and is started again after a failure, the
\* server copies, time passes.  A wait ends one way or the other.
Fairness ==
  /\ \A p \in Pods : WF_vars(Startup(p) \/ CopyTimesOut(p)) /\ WF_vars(Heal(p))
  /\ WF_vars(SourceIntoBackup)
  /\ WF_vars(SourceIntoStream)
  /\ WF_vars(BackupAges)

FairSpec == Spec /\ Fairness

--------------------------------------------------------------------------------
Safe(m) == Holds(stream, m) \/ Holds(backup, m) \/ m \in consumed

\* "an acked publish after this point cannot be lost" (stream-migration.ts), "never
\* an ack for a message that later disappears" (docs/guides/stream-migration.md):
\* through crashes, rollbacks, lost replies and recovery every acknowledged message
\* is in the stream, in the backup or consumed.  It holds while one pod writes at a
\* time and fails when two pods start together.
AckedSurvives == \A m \in acked : Safe(m)

\* Recovery is re-runnable ("backup without an attached source can only mean the
\* restore never started", stream-migration.ts): one migration at a time, resumed as
\* often as it is interrupted after the original was deleted, restores no message
\* twice.
RestoresOnce ==
  ~early /\ consumed = {} =>
    \A i, j \in stream.live : stream.log[i] = stream.log[j] => i = j

\* A backup that nobody is filling or restoring any more, as its age tells.
Stranded == backup.exists /\ ~backup.fresh

\* The backup is cleaned up, and every acknowledged message is in the stream.
Resumed == ~backup.exists /\ \A m \in acked : Holds(stream, m)

\* The stream still has to be migrated and names a backup that was deleted as its
\* source: a crash before the original was deleted, and another one between the two
\* last calls of its recovery.
Entangled == stream.cfg = "old" /\ stream.src /\ ~backup.exists

\* "a stranded backup is restored into the stream ..., then cleaned up"
\* (docs/guides/stream-migration.md), as far as the code keeps it: once a start finds
\* a backup older than the 90 s of ACTIVE_MIGRATION_GRACE_MS, that backup is restored
\* in the end and deleted, whatever fails meanwhile, and the stream comes back with
\* the new config and accepts publishes, unless it is entangled.  Nothing is said of a
\* start within the 90 s, which takes its own backup for a peer's and restores nothing,
\* and it fails when a pod that serves the stream acks messages while they are sourced
\* back: the count waitForSourceDrained() waits for is then out of reach, at every start.
StreamComesBack ==
  /\ <>[](Entangled \/ (stream.exists /\ stream.cfg = "new" /\ stream.open))
  /\ \A p \in Pods : (pc[p] = "boot" /\ Stranded) ~> Resumed

\* "Consumers are recreated automatically after migration by each pod's startup
\* sequence or self-healing" (docs/guides/stream-migration.md): a consumer that went
\* with its stream comes back, and self-healing waiting for the backup to disappear
\* does not wait for ever.
ConsumptionResumes == ~consumer ~> consumer

================================================================================
