----------------------------- MODULE MigrationProofs -----------------------------
(***************************************************************************)
(* Why a migration loses nothing and restores nothing twice, for any pods, *)
(* messages, logs and faults, while one pod writes at a time (Exclusive).  *)
(*                                                                         *)
(* What is acknowledged moves from the stream to the backup and back.  The *)
(* invariant says of each of the two copies how far it got (BackupInv,     *)
(* RestoreInv), and of each location of a pod what the pod may rely on     *)
(* there: before each of the four calls that delete a stream or a backup,  *)
(* that the other one has it all.                                          *)
(***************************************************************************)
EXTENDS StreamMigration, TLAPS, FiniteSetTheorems, WellFoundedInduction

\* The records of the two streams and of the pods.
StreamRecord == [exists : BOOLEAN, cfg : {"none", "old", "new"}, open : BOOLEAN, src : BOOLEAN,
                 pos : Nat, log : Seq(Msgs), live : SUBSET Nat]
BackupRecord == [exists : BOOLEAN, src : BOOLEAN, pos : Nat, fresh : BOOLEAN,
                 owner : Pods \cup {"none"}, log : Seq(Msgs), live : SUBSET Nat]
Memory == [cfg : {"none", "old", "new"}, open : BOOLEAN, min : Nat, waited : BOOLEAN,
           migrating : BOOLEAN]

RecordInv ==
  /\ stream \in StreamRecord /\ stream.live \subseteq 1 .. Len(stream.log)
  /\ backup \in BackupRecord /\ backup.live \subseteq 1 .. Len(backup.log)
  /\ mem \in [Pods -> Memory]
  /\ pc \in [Pods -> Locations]
  /\ acked \subseteq Msgs
  /\ consumed \subseteq acked
  /\ faults \in 0 .. MaxFaults
  /\ {consumer, early} \subseteq BOOLEAN

\* A stream that is not there is empty, and what a stream holds was acknowledged.
HeldInv ==
  /\ ~stream.exists => ~stream.src /\ stream.live = {}
  /\ ~backup.exists => ~backup.src /\ backup.live = {}
  /\ \A i \in stream.live : stream.log[i] \in acked
  /\ \A i \in backup.live : backup.log[i] \in acked

TypeInv == RecordInv /\ HeldInv

\* One pod at a time is about to write.
OneWriter == \A p, q \in Pods : pc[p] \in Critical /\ pc[q] \in Critical => p = q

\* The stream alone has everything.
Kept == \A m \in acked : Holds(stream, m) \/ m \in consumed

\* A backup that is filled: it has what the stream held up to its position, and the
\* stream is the original.
BackupInv ==
  backup.exists /\ backup.src =>
    /\ stream.exists /\ ~stream.src
    /\ backup.pos <= Len(stream.log)
    /\ \A i \in stream.live : i <= backup.pos => Holds(backup, stream.log[i])
    /\ Kept

\* A stream that is restored: it has, or had, what the backup holds up to its position.
RestoreInv ==
  stream.exists /\ stream.src /\ backup.exists =>
    /\ stream.pos <= Len(backup.log)
    /\ \A i \in backup.live :
         i <= stream.pos => Holds(stream, backup.log[i]) \/ backup.log[i] \in consumed

\* What a pod relies on where it stands.
PodInv(p) ==
  /\ pc[p] \in {"snapshot", "quiesce", "count", "backup", "detach"} => ~backup.exists
  /\ pc[p] \in TryBlock \cup {"rollback"} /\ stream.exists => Kept
  /\ pc[p] = "backup" => stream.exists
  /\ pc[p] = "dropOwn" => stream.exists /\ Kept
  /\ pc[p] \in {"count", "backup", "fill", "delete"} => ~stream.open
  /\ pc[p] = "delete" /\ stream.exists =>
       \/ stream.live = {} /\ ~backup.exists
       \/ backup.exists /\ backup.src /\ Lag(stream, backup.pos) = {}
  /\ pc[p] = "dropBackup" => mem[p].min = 0
  /\ pc[p] \in Recovering /\ mem[p].min = 0 => backup.src \/ backup.live = {}
  /\ pc[p] = "attach" => ~backup.src
  /\ pc[p] = "deleteBackup" =>
       stream.exists /\ stream.src /\ ~backup.src /\ Lag(backup, stream.pos) = {}

PodsInv == \A p \in Pods : PodInv(p)

\* What the two copies are to each other, and every acknowledged message in one of them.
CopiesInv == BackupInv /\ RestoreInv /\ AckedSurvives

SurviveInv == OneWriter /\ CopiesInv /\ PodsInv

\* Where a pod is responsible for a backup that still copies the stream.
Filling == {"fill", "delete", "rollback", "dropOwn"}

\* No backup was left behind next to the original, and nothing was consumed.
Calm == ~early /\ consumed = {}

NoTwice(s) == \A i, j \in s.live : s.log[i] = s.log[j] => i = j

\* While a backup copies the stream its pod is there, and it holds what the stream
\* holds up to its position; detached, it shares with the stream only what the stream
\* copied back from it.
OnceInv ==
  Calm => /\ backup.src => \E p \in Pods : pc[p] \in Filling
          /\ NoTwice(stream) /\ NoTwice(backup)
          /\ backup.src =>
               \A j \in backup.live :
                 \E i \in stream.live : i <= backup.pos /\ stream.log[i] = backup.log[j]
          /\ backup.exists /\ ~backup.src =>
               \A i \in stream.live, j \in backup.live :
                 stream.log[i] = backup.log[j] => stream.src /\ j <= stream.pos

--------------------------------------------------------------------------------
(***************************************************************************)
(* The operators of the model.                                             *)
(***************************************************************************)
\* A set of numbers that is not empty has a least one.
LEMMA MinIsLeast ==
  ASSUME NEW S \in SUBSET Nat, S # {}
  PROVE  Min(S) \in S /\ \A i \in S : Min(S) <= i
<1> DEFINE R == {ss \in Nat \X Nat : ss[1] < ss[2]}
<1>1. OpToRel(<, Nat) = R
  BY DEF OpToRel
<1>2. IsWellFoundedOn(R, Nat)
  BY <1>1, NatLessThanWellFounded
<1>3. \A x, y \in Nat : y < x => <<y, x>> \in R
  OBVIOUS
<1> HIDE DEF R
<1>4. \E x \in S : \A y \in S : ~(<<y, x>> \in R)
  BY <1>2, WFMin
<1>5. PICK x \in S : \A y \in S : ~(<<y, x>> \in R)
  BY <1>4
<1>6. \A y \in S : y \in Nat /\ x \in Nat /\ ~(y < x)
  BY <1>3, <1>5
<1>7. \A y \in S : x <= y
  BY <1>6
<1> QED BY <1>7 DEF Min

\* A set of positions counts 0 when it is empty only.
LEMMA CountOfPositions ==
  ASSUME NEW n \in Nat, NEW S \in SUBSET (1 .. n)
  PROVE  Cardinality(S) \in Nat /\ (Cardinality(S) = 0 <=> S = {})
<1>1. IsFiniteSet(1 .. n)
  BY FS_Interval
<1>2. IsFiniteSet(S)
  BY <1>1, FS_Subset
<1> QED BY <1>2, FS_CardinalityType, FS_EmptySet

--------------------------------------------------------------------------------
(***************************************************************************)
(* Types.                                                                  *)
(***************************************************************************)
LEMMA GotoType ==
  ASSUME RecordInv, NEW p \in Pods, NEW l \in Locations, Goto(p, l)
  PROVE  pc' = [pc EXCEPT ![p] = l] /\ pc' \in [Pods -> Locations] /\ early' \in BOOLEAN
<1>1. pc' = [pc EXCEPT ![p] = l] /\ pc' \in [Pods -> Locations]
  BY DEF Goto, Move, RecordInv
<1>2. early' \in BOOLEAN
  BY DEF Goto
<1> QED BY <1>1, <1>2

LEMMA MemoryType == Blank \in Memory /\ \A n \in Nat : [Blank EXCEPT !.min = n] \in Memory
BY DEF Blank, Memory

\* What the streams' fields are.
LEMMA StreamTypes ==
  ASSUME RecordInv
  PROVE  /\ {stream.exists, stream.open, stream.src} \subseteq BOOLEAN
         /\ stream.cfg \in {"none", "old", "new"} /\ stream.pos \in Nat
         /\ stream.log \in Seq(Msgs) /\ stream.live \in SUBSET Nat
         /\ {backup.exists, backup.src, backup.fresh} \subseteq BOOLEAN
         /\ backup.pos \in Nat /\ backup.log \in Seq(Msgs) /\ backup.live \in SUBSET Nat
BY DEF RecordInv, StreamRecord, BackupRecord

LEMMA FailsType ==
  ASSUME RecordInv, NEW p \in Pods, Fails(p)
  PROVE  /\ pc' = [pc EXCEPT ![p] = IF pc[p] \in TryBlock THEN "rollback" ELSE "down"]
         /\ pc' \in [Pods -> Locations] /\ early' \in BOOLEAN
         /\ mem' \in [Pods -> Memory]
<1>1. {"rollback", "down"} \subseteq Locations
  BY DEF Locations, Critical, Migrating
<1>2. CASE pc[p] \in TryBlock
  BY <1>1, <1>2, GotoType DEF Fails, RecordInv
<1>3. CASE pc[p] \notin TryBlock
  BY <1>1, <1>3, GotoType, MemoryType DEF Fails, RecordInv, Keep
<1> QED BY <1>2, <1>3

LEMMA CountType ==
  ASSUME RecordInv
  PROVE  /\ Messages(stream) \in Nat /\ Messages(backup) \in Nat
         /\ Messages(stream) = 0 <=> stream.live = {}
         /\ Messages(backup) = 0 <=> backup.live = {}
<1>1. Len(stream.log) \in Nat /\ Len(backup.log) \in Nat
  BY StreamTypes
<1> QED BY <1>1, CountOfPositions DEF RecordInv, Messages

\* Calls that only look, or write to neither stream.
Looks(p) ==
  \/ Boot(p) \/ ProbeBackup(p) \/ Inspect(p) \/ Drain(p) \/ EnsureStream(p)
  \/ ProbePeer(p) \/ PeerClears(p) \/ PeerWaitTimesOut(p) \/ Snapshot(p) \/ Count(p)
  \/ Fill(p) \/ CopyTimesOut(p) \/ StartConsuming(p) \/ Heal(p) \/ Crash(p)

LEMMA LooksType ==
  ASSUME RecordInv, NEW p \in Pods, Looks(p)
  PROVE  RecordInv' /\ UNCHANGED <<stream, backup, acked, consumed>>
<1> USE DEF Looks
<1>0. /\ Locations = Critical \cup {"down", "boot", "ensure", "probe", "peerWait", "ready",
                                    "serving", "heal"}
      /\ {"inspect", "resume", "dropBackup", "detachBackup", "attach", "drain", "deleteBackup",
          "detach", "snapshot", "quiesce", "count", "backup", "fill", "delete", "recreate",
          "rollback", "dropOwn", "create", "reopen", "apply"} \subseteq Critical
  BY DEF Locations, Critical, Recovering, Restoring, Migrating, TryBlock
<1>1. UNCHANGED <<stream, backup, acked, consumed>>
  BY DEF Boot, ProbeBackup, Inspect, Drain, EnsureStream, ProbePeer, PeerClears, PeerWaitTimesOut,
         Snapshot, Count, Fill, CopyTimesOut, StartConsuming, Heal, HealCheck, HealCreate, Crash,
         ServerRest
<1>2. faults' \in 0 .. MaxFaults
  <2>1. faults' = faults \/ (faults' = faults + 1 /\ faults' <= MaxFaults)
    BY MigrationAssumption
       DEF RecordInv, Boot, ProbeBackup, Inspect, Drain, EnsureStream, ProbePeer, PeerClears,
           PeerWaitTimesOut, Snapshot, Count, Fill, CopyTimesOut, StartConsuming, Heal, HealCheck,
           HealCreate, Crash, ServerRest
  <2> QED BY <2>1, MigrationAssumption DEF RecordInv
<1>3. consumer' \in BOOLEAN
  <2>1. consumer' = consumer \/ consumer' = TRUE \/ consumer' = (consumer \/ stream.exists)
    BY DEF Boot, ProbeBackup, Inspect, Drain, EnsureStream, ProbePeer, PeerClears, PeerWaitTimesOut,
           Snapshot, Count, Fill, CopyTimesOut, StartConsuming, Heal, HealCheck, HealCreate, Crash,
           ServerRest
  <2> QED BY <2>1 DEF RecordInv
<1>4. \/ Fails(p)
      \/ /\ mem' \in [Pods -> Memory]
         /\ \E l \in Locations : Goto(p, l)
  <2> USE MemoryType, StreamTypes DEF RecordInv, Keep
  <2>1. CASE Boot(p) \/ Drain(p) \/ EnsureStream(p) \/ ProbePeer(p) \/ Fill(p) \/ Heal(p)
    BY <1>0, <2>1 DEF Boot, Drain, EnsureStream, ProbePeer, Fill, Heal, HealCheck, HealCreate
  <2>2. CASE ProbeBackup(p)
    BY <1>0, <2>2, CountType DEF ProbeBackup
  <2>3. CASE Inspect(p)
    <3>1. [mem[p] EXCEPT !.cfg = stream.cfg, !.open = stream.open] \in Memory
      BY DEF Memory
    <3>2. \E l \in Locations : Goto(p, l)
      BY <1>0, <2>3 DEF Inspect
    <3> QED BY <2>3, <3>1, <3>2 DEF Inspect
  <2>4. CASE Snapshot(p)
    <3>1. [mem[p] EXCEPT !.cfg = stream.cfg, !.open = stream.open] \in Memory
      BY DEF Memory
    <3> QED BY <1>0, <2>4, <3>1 DEF Snapshot
  <2>5. CASE Count(p)
    <3>1. [mem[p] EXCEPT !.min = Messages(stream)] \in Memory
      BY CountType DEF Memory
    <3> QED BY <1>0, <2>5, <3>1 DEF Count
  <2>7. CASE PeerClears(p) \/ Crash(p)
    <3>1. [mem[p] EXCEPT !.waited = TRUE] \in Memory
      BY DEF Memory
    <3> QED BY <1>0, <2>7, <3>1 DEF PeerClears, Crash
  <2>6. CASE PeerWaitTimesOut(p) \/ CopyTimesOut(p) \/ StartConsuming(p)
    BY <1>0, <2>6 DEF PeerWaitTimesOut, CopyTimesOut, StartConsuming
  <2> QED BY <2>1, <2>2, <2>3, <2>4, <2>5, <2>6, <2>7
<1>5. pc' \in [Pods -> Locations] /\ early' \in BOOLEAN /\ mem' \in [Pods -> Memory]
  BY <1>4, GotoType, FailsType
<1> QED BY <1>1, <1>2, <1>3, <1>5 DEF RecordInv

\* Calls that write to the stream or the backup.
WritesStream(p) ==
  \/ Resume(p) \/ AttachSource(p) \/ DetachSource(p) \/ CreateStream(p) \/ UpdateStream(p)
  \/ Quiesce(p) \/ Recreate(p) \/ Rollback(p)
WritesBackup(p) ==
  \/ DropEmptyBackup(p) \/ DetachBackup(p) \/ DeleteBackup(p) \/ CreateBackup(p) \/ DropOwnBackup(p)
Deletes(p) == DeleteStream(p) \/ CallFails(p)

LEMMA FreshTypes ==
  /\ NewStream \in StreamRecord /\ NewStream.live = {} /\ NewStream.log = <<>>
  /\ NoStream \in StreamRecord /\ NoStream.live = {} /\ NoStream.log = <<>>
  /\ NoBackup \in BackupRecord /\ NoBackup.live = {} /\ NoBackup.log = <<>>
<1>1. /\ NoStream \in StreamRecord /\ NoStream.live = {} /\ NoStream.log = <<>>
      /\ NoBackup \in BackupRecord /\ NoBackup.live = {} /\ NoBackup.log = <<>>
  BY DEF NoStream, NoBackup, StreamRecord, BackupRecord
<1>2. NewStream \in StreamRecord /\ NewStream.live = {} /\ NewStream.log = <<>>
  BY <1>1 DEF NewStream, StreamRecord
<1> QED BY <1>1, <1>2

LEMMA WriterPods ==
  ASSUME RecordInv, NEW p \in Pods, WritesStream(p) \/ WritesBackup(p) \/ Deletes(p)
  PROVE  pc' \in [Pods -> Locations] /\ early' \in BOOLEAN /\ mem' \in [Pods -> Memory]
<1>0. {"inspect", "resume", "dropBackup", "detachBackup", "attach", "drain", "deleteBackup",
       "detach", "snapshot", "quiesce", "count", "backup", "fill", "delete", "recreate",
       "rollback", "dropOwn", "create", "reopen", "apply", "ensure", "ready", "down"} \subseteq Locations
  BY DEF Locations, Critical, Recovering, Restoring, Migrating, TryBlock
<1> USE MemoryType, StreamTypes DEF RecordInv, Keep
<1>1. CASE WritesStream(p)
  <2>1. [mem[p] EXCEPT !.cfg = "new", !.open = TRUE] \in Memory
        /\ [mem[p] EXCEPT !.cfg = "new", !.open = TRUE, !.migrating = TRUE] \in Memory
    BY DEF Memory
  <2>2. Fails(p) \/ (mem' \in [Pods -> Memory] /\ \E l \in Locations : Goto(p, l))
    BY <1>0, <1>1, <2>1 DEF WritesStream, Resume, AttachSource, DetachSource, CreateStream, UpdateStream,
                            Quiesce, Recreate, Rollback
  <2> QED BY <2>2, FailsType, GotoType
<1>2. CASE DropOwnBackup(p)
  <2>1. early' = early
    BY <1>2 DEF DropOwnBackup
  <2> QED BY <1>0, <1>2, <2>1 DEF DropOwnBackup, Move
<1>3. CASE WritesBackup(p) /\ ~DropOwnBackup(p)
  <2>1. [mem[p] EXCEPT !.min = Messages(backup)] \in Memory
    BY CountType DEF Memory
  <2>2. Fails(p) \/ (mem' \in [Pods -> Memory] /\ \E l \in Locations : Goto(p, l))
    BY <1>0, <1>3, <2>1 DEF WritesBackup, DropEmptyBackup, DetachBackup, DeleteBackup, CreateBackup
  <2> QED BY <2>2, FailsType, GotoType
<1>4. CASE Deletes(p)
  <2>1. Fails(p) \/ (mem' \in [Pods -> Memory] /\ \E l \in Locations : Goto(p, l))
    BY <1>0, <1>4 DEF Deletes, DeleteStream, CallFails
  <2> QED BY <2>1, FailsType, GotoType
<1> QED BY <1>1, <1>2, <1>3, <1>4

\* What such a call makes of the two streams.
LEMMA WritesStreamEffect ==
  ASSUME RecordInv, NEW p \in Pods, WritesStream(p)
  PROVE  /\ UNCHANGED <<backup, consumer, acked, consumed, faults>>
         /\ \/ stream' = stream
            \/ ~stream.exists /\ stream' = NewStream
            \/ \E o, b \in BOOLEAN, q \in Nat :
                 stream.exists /\ stream' = [stream EXCEPT !.open = o, !.src = b, !.pos = q]
<1> USE StreamTypes
<1>1. UNCHANGED <<backup, consumer, acked, consumed, faults>>
  BY DEF WritesStream, Resume, AttachSource, DetachSource, CreateStream, UpdateStream, Quiesce, Recreate,
         Rollback, ServerRest
<1>2. CASE Resume(p) \/ CreateStream(p) \/ Recreate(p)
  BY <1>1, <1>2 DEF Resume, CreateStream, Recreate
<1>3. CASE AttachSource(p) \/ DetachSource(p) \/ UpdateStream(p) \/ Quiesce(p) \/ Rollback(p)
  <2> DEFINE Config(o, b, q) == [stream EXCEPT !.open = o, !.src = b, !.pos = q]
  <2>1. mem[p].open \in BOOLEAN
    BY DEF RecordInv, Memory
  <2>2. /\ \A o \in BOOLEAN : [stream EXCEPT !.open = o] = Config(o, stream.src, stream.pos)
        /\ \A o, b \in BOOLEAN : [stream EXCEPT !.open = o, !.src = b] = Config(o, b, stream.pos)
    BY DEF RecordInv, StreamRecord
  <2>3. \/ stream' = stream
        \/ \E o, b \in BOOLEAN, q \in Nat : stream.exists /\ stream' = Config(o, b, q)
    <3>1. CASE AttachSource(p)
      <4>1. (IF stream.src THEN stream.pos ELSE 0) \in Nat
        OBVIOUS
      <4>2. \/ stream' = stream
            \/ stream.exists /\ stream' = Config(mem[p].open, TRUE, IF stream.src THEN stream.pos ELSE 0)
        BY <3>1 DEF AttachSource, UpdateAccepted
      <4> HIDE DEF Config
      <4> QED BY <2>1, <4>1, <4>2
    <3>2. CASE DetachSource(p)
      <4>1. \/ stream' = stream
            \/ stream.exists /\ stream' = Config(mem[p].open, FALSE, stream.pos)
        BY <2>1, <2>2, <3>2 DEF DetachSource, UpdateAccepted
      <4> HIDE DEF Config
      <4> QED BY <2>1, <4>1
    <3>3. CASE UpdateStream(p) \/ Quiesce(p) \/ Rollback(p)
      <4>1. \/ stream' = stream
            \/ \E o \in BOOLEAN : stream.exists /\ stream' = [stream EXCEPT !.open = o]
        BY <2>1, <3>3 DEF UpdateStream, Quiesce, Rollback, UpdateAccepted
      <4> HIDE DEF Config
      <4> QED BY <2>2, <4>1
    <3> QED BY <1>3, <3>1, <3>2, <3>3
  <2> QED BY <1>1, <2>3
<1> QED BY <1>2, <1>3 DEF WritesStream

\* ... of the backup: it goes, a new one is there, or its source is cleared.
LEMMA WritesBackupEffect ==
  ASSUME RecordInv, NEW p \in Pods, WritesBackup(p)
  PROVE  /\ UNCHANGED <<stream, consumer, acked, consumed, faults>>
         /\ \/ backup' = backup
            \/ backup' = NoBackup
            \/ backup' = [backup EXCEPT !.src = FALSE]
            \/ /\ ~backup.exists /\ ~stream.src
               /\ backup' = [NoBackup EXCEPT !.exists = TRUE, !.src = TRUE, !.fresh = TRUE, !.owner = p]
BY StreamTypes
   DEF WritesBackup, DropEmptyBackup, DetachBackup, DeleteBackup, CreateBackup, DropOwnBackup, ServerRest

\* ... and of both, by the delete.
LEMMA DeletesEffect ==
  ASSUME NEW p \in Pods, Deletes(p)
  PROVE  /\ UNCHANGED <<acked, consumed>>
         /\ faults' = faults \/ (faults < MaxFaults /\ faults' = faults + 1)
         /\ \/ UNCHANGED <<stream, backup, consumer>>
            \/ /\ pc[p] = "delete" /\ stream' = NoStream /\ consumer' = FALSE
               /\ backup' = [backup EXCEPT !.src = FALSE]
BY DEF Deletes, DeleteStream, CallFails, Gone

\* The steps of Next, by what they write.
LEMMA NextByEffect ==
  ASSUME [Next]_vars
  PROVE  \/ \E p \in Pods : Looks(p) \/ WritesStream(p) \/ WritesBackup(p) \/ Deletes(p) \/ Consume(p)
         \/ \E m \in Msgs : Publish(m)
         \/ SourceIntoBackup \/ SourceIntoStream \/ BackupAges \/ UNCHANGED vars
BY DEF Next, Startup, Recover, Restore, Ensure, Migrate, Looks, WritesStream, WritesBackup, Deletes

\* What a stream makes of a message that is copied or published.
LEMMA StoreInStream ==
  ASSUME RecordInv, NEW m \in Msgs, NEW q \in Nat, NEW r,
         r = Store(stream, m) \/ r = [Store(stream, m) EXCEPT !.pos = q]
  PROVE  LET n == Len(stream.log) + 1
         IN /\ r \in StreamRecord
            /\ n \in Nat /\ r.live = stream.live \cup {n} /\ r.live \subseteq 1 .. Len(r.log)
            /\ Len(r.log) = n /\ r.log[n] = m /\ \A i \in stream.live : i < n /\ r.log[i] = stream.log[i]
            /\ r.exists = stream.exists /\ r.src = stream.src /\ r.open = stream.open
            /\ r.pos = (IF r = Store(stream, m) THEN stream.pos ELSE q)
<1>1. stream \in StreamRecord /\ stream.live \subseteq 1 .. Len(stream.log)
  BY DEF RecordInv
<1> DEFINE n == Len(stream.log) + 1
           log == Append(stream.log, m)
<1>2. /\ log \in Seq(Msgs) /\ n \in Nat /\ Len(log) = n /\ log[n] = m
      /\ \A i \in stream.live : i < n /\ log[i] = stream.log[i]
  BY <1>1, StreamTypes
<1>3. stream.live \cup {n} \in SUBSET Nat /\ stream.live \cup {n} \subseteq 1 .. n
  BY <1>1, <1>2, StreamTypes
<1> HIDE DEF n, log
<1>4. Store(stream, m) = [stream EXCEPT !.log = log, !.live = @ \cup {n}]
  BY DEF Store, n, log
<1>5. /\ Store(stream, m) \in StreamRecord
      /\ Store(stream, m).live = stream.live \cup {n} /\ Store(stream, m).log = log
      /\ Store(stream, m).exists = stream.exists /\ Store(stream, m).src = stream.src
      /\ Store(stream, m).pos = stream.pos /\ Store(stream, m).open = stream.open
  BY <1>1, <1>2, <1>3, <1>4 DEF StreamRecord
<1> DEFINE s == Store(stream, m)
<1>6. s \in StreamRecord
  BY <1>5
<1> HIDE DEF s
<1>7. [s EXCEPT !.pos = q] \in StreamRecord
  BY <1>6 DEF StreamRecord
<1>8. /\ [s EXCEPT !.pos = q].live = s.live /\ [s EXCEPT !.pos = q].log = s.log
      /\ [s EXCEPT !.pos = q].exists = s.exists /\ [s EXCEPT !.pos = q].src = s.src
      /\ [s EXCEPT !.pos = q].open = s.open /\ [s EXCEPT !.pos = q].pos = q
  BY <1>6 DEF StreamRecord
<1>9. /\ r \in StreamRecord /\ r.live = stream.live \cup {n} /\ r.log = log
      /\ r.exists = stream.exists /\ r.src = stream.src /\ r.open = stream.open
      /\ r.pos = (IF r = s THEN stream.pos ELSE q)
  BY <1>5, <1>6, <1>7, <1>8 DEF s
<1> QED BY <1>2, <1>3, <1>9 DEF n, s

LEMMA StoreInBackup ==
  ASSUME RecordInv, NEW m \in Msgs, NEW q \in Nat, NEW r,
         r = Store(backup, m) \/ r = [Store(backup, m) EXCEPT !.pos = q]
  PROVE  LET n == Len(backup.log) + 1
         IN /\ r \in BackupRecord
            /\ n \in Nat /\ r.live = backup.live \cup {n} /\ r.live \subseteq 1 .. Len(r.log)
            /\ Len(r.log) = n /\ r.log[n] = m /\ \A i \in backup.live : i < n /\ r.log[i] = backup.log[i]
            /\ r.exists = backup.exists /\ r.src = backup.src
            /\ r.pos = (IF r = Store(backup, m) THEN backup.pos ELSE q)
<1>1. backup \in BackupRecord /\ backup.live \subseteq 1 .. Len(backup.log)
  BY DEF RecordInv
<1> DEFINE n == Len(backup.log) + 1
           log == Append(backup.log, m)
<1>2. /\ log \in Seq(Msgs) /\ n \in Nat /\ Len(log) = n /\ log[n] = m
      /\ \A i \in backup.live : i < n /\ log[i] = backup.log[i]
  BY <1>1, StreamTypes
<1>3. backup.live \cup {n} \in SUBSET Nat /\ backup.live \cup {n} \subseteq 1 .. n
  BY <1>1, <1>2, StreamTypes
<1> HIDE DEF n, log
<1>4. Store(backup, m) = [backup EXCEPT !.log = log, !.live = @ \cup {n}]
  BY DEF Store, n, log
<1>5. /\ Store(backup, m) \in BackupRecord
      /\ Store(backup, m).live = backup.live \cup {n} /\ Store(backup, m).log = log
      /\ Store(backup, m).exists = backup.exists /\ Store(backup, m).src = backup.src
      /\ Store(backup, m).pos = backup.pos
  BY <1>1, <1>2, <1>3, <1>4 DEF BackupRecord
<1> DEFINE s == Store(backup, m)
<1>6. s \in BackupRecord
  BY <1>5
<1> HIDE DEF s
<1>7. [s EXCEPT !.pos = q] \in BackupRecord
  BY <1>6 DEF BackupRecord
<1>8. /\ [s EXCEPT !.pos = q].live = s.live /\ [s EXCEPT !.pos = q].log = s.log
      /\ [s EXCEPT !.pos = q].exists = s.exists /\ [s EXCEPT !.pos = q].src = s.src
      /\ [s EXCEPT !.pos = q].pos = q
  BY <1>6 DEF BackupRecord
<1>9. /\ r \in BackupRecord /\ r.live = backup.live \cup {n} /\ r.log = log
      /\ r.exists = backup.exists /\ r.src = backup.src
      /\ r.pos = (IF r = s THEN backup.pos ELSE q)
  BY <1>5, <1>6, <1>7, <1>8 DEF s
<1> QED BY <1>2, <1>3, <1>9 DEF n, s

\* The next message that sourcing copies: the first one it has not passed.
LEMMA NextCopied ==
  ASSUME RecordInv, NEW s, s = stream \/ s = backup, NEW pos \in Nat, Lag(s, pos) # {}
  PROVE  LET i == Min(Lag(s, pos))
         IN /\ i \in s.live /\ i \in Nat /\ i > pos /\ i <= Len(s.log) /\ s.log[i] \in Msgs
            /\ \A j \in s.live : j <= i => j <= pos \/ j = i
<1>1. s.live \subseteq 1 .. Len(s.log) /\ s.log \in Seq(Msgs) /\ Len(s.log) \in Nat
  BY StreamTypes DEF RecordInv
<1>2. Lag(s, pos) \in SUBSET Nat
  BY <1>1 DEF Lag
<1>3. Min(Lag(s, pos)) \in Lag(s, pos) /\ \A j \in Lag(s, pos) : Min(Lag(s, pos)) <= j
  BY <1>2, MinIsLeast
<1> DEFINE i == Min(Lag(s, pos))
<1> HIDE DEF i
<1>4. i \in Lag(s, pos) /\ \A j \in Lag(s, pos) : i <= j
  BY <1>3 DEF i
<1>5. i \in s.live /\ i > pos /\ i \in 1 .. Len(s.log)
  BY <1>1, <1>4 DEF Lag
<1>6. s.log[i] \in Msgs
  BY <1>1, <1>5
<1>7. \A j \in s.live : j <= i => j <= pos \/ j = i
  BY <1>1, <1>4, <1>5 DEF Lag
<1> QED BY <1>5, <1>6, <1>7, <1>1 DEF i

LEMMA SourceIntoBackupEffect ==
  ASSUME RecordInv, SourceIntoBackup
  PROVE  /\ UNCHANGED <<stream, consumer, pc, mem, early, acked, consumed, faults>>
         /\ backup.exists /\ backup.src /\ stream.exists
         /\ \E i \in stream.live, n \in Nat :
              /\ i > backup.pos /\ i <= Len(stream.log) /\ stream.log[i] \in Msgs
              /\ \A j \in stream.live : j <= i => j <= backup.pos \/ j = i
              /\ backup' \in BackupRecord /\ backup'.exists /\ backup'.src /\ backup'.pos = i
              /\ n = Len(backup.log) + 1 /\ Len(backup'.log) = n /\ backup'.log[n] = stream.log[i]
              /\ backup'.live = backup.live \cup {n} /\ backup'.live \subseteq 1 .. n
              /\ \A j \in backup.live : j < n /\ backup'.log[j] = backup.log[j]
<1>1. /\ backup.pos \in Nat /\ Lag(stream, backup.pos) # {}
      /\ backup.exists /\ backup.src /\ stream.exists
      /\ UNCHANGED <<stream, consumer, pc, mem, early, acked, consumed, faults>>
  BY StreamTypes DEF SourceIntoBackup, podVars, ServerRest
<1> DEFINE i == Min(Lag(stream, backup.pos))
           n == Len(backup.log) + 1
<1>2. backup' = [Store(backup, stream.log[i]) EXCEPT !.pos = i]
  BY DEF SourceIntoBackup
<1>3. /\ i \in stream.live /\ i \in Nat /\ i > backup.pos /\ i <= Len(stream.log)
      /\ stream.log[i] \in Msgs /\ \A j \in stream.live : j <= i => j <= backup.pos \/ j = i
  BY <1>1, NextCopied
<1> HIDE DEF i
<1>4. PICK m \in Msgs : m = stream.log[i]
  BY <1>3
<1>5. backup' = [Store(backup, m) EXCEPT !.pos = i]
  BY <1>2, <1>4
<1>6. /\ backup' \in BackupRecord /\ n \in Nat /\ Len(backup'.log) = n /\ backup'.log[n] = m
      /\ backup'.live = backup.live \cup {n} /\ backup'.live \subseteq 1 .. Len(backup'.log)
      /\ \A j \in backup.live : j < n /\ backup'.log[j] = backup.log[j]
      /\ backup'.exists = backup.exists /\ backup'.src = backup.src
  BY <1>3, <1>5, StoreInBackup
<1>7. backup'.pos = i
  BY <1>3, <1>5, StoreInBackup
<1> HIDE DEF n
<1> QED BY <1>1, <1>3, <1>4, <1>6, <1>7 DEF n

LEMMA SourceIntoStreamEffect ==
  ASSUME RecordInv, SourceIntoStream
  PROVE  /\ UNCHANGED <<backup, consumer, pc, mem, early, acked, consumed, faults>>
         /\ stream.exists /\ stream.src /\ backup.exists
         /\ \E i \in backup.live, n \in Nat :
              /\ i > stream.pos /\ i <= Len(backup.log) /\ backup.log[i] \in Msgs
              /\ \A j \in backup.live : j <= i => j <= stream.pos \/ j = i
              /\ stream' \in StreamRecord /\ stream'.exists /\ stream'.src /\ stream'.pos = i
              /\ stream'.open = stream.open
              /\ n = Len(stream.log) + 1 /\ Len(stream'.log) = n /\ stream'.log[n] = backup.log[i]
              /\ stream'.live = stream.live \cup {n} /\ stream'.live \subseteq 1 .. n
              /\ \A j \in stream.live : j < n /\ stream'.log[j] = stream.log[j]
<1>1. /\ stream.pos \in Nat /\ Lag(backup, stream.pos) # {}
      /\ stream.exists /\ stream.src /\ backup.exists
      /\ UNCHANGED <<backup, consumer, pc, mem, early, acked, consumed, faults>>
  BY StreamTypes DEF SourceIntoStream, podVars, ServerRest
<1> DEFINE i == Min(Lag(backup, stream.pos))
           n == Len(stream.log) + 1
<1>2. stream' = [Store(stream, backup.log[i]) EXCEPT !.pos = i]
  BY DEF SourceIntoStream
<1>3. /\ i \in backup.live /\ i \in Nat /\ i > stream.pos /\ i <= Len(backup.log)
      /\ backup.log[i] \in Msgs /\ \A j \in backup.live : j <= i => j <= stream.pos \/ j = i
  BY <1>1, NextCopied
<1> HIDE DEF i
<1>4. PICK m \in Msgs : m = backup.log[i]
  BY <1>3
<1>5. stream' = [Store(stream, m) EXCEPT !.pos = i]
  BY <1>2, <1>4
<1>6. /\ stream' \in StreamRecord /\ n \in Nat /\ Len(stream'.log) = n /\ stream'.log[n] = m
      /\ stream'.live = stream.live \cup {n} /\ stream'.live \subseteq 1 .. Len(stream'.log)
      /\ \A j \in stream.live : j < n /\ stream'.log[j] = stream.log[j]
      /\ stream'.exists = stream.exists /\ stream'.src = stream.src /\ stream'.open = stream.open
  BY <1>3, <1>5, StoreInStream
<1>7. stream'.pos = i
  BY <1>3, <1>5, StoreInStream
<1> HIDE DEF n
<1> QED BY <1>1, <1>3, <1>4, <1>6, <1>7 DEF n

LEMMA PublishEffect ==
  ASSUME RecordInv, NEW m \in Msgs, Publish(m)
  PROVE  /\ UNCHANGED <<backup, consumer, pc, mem, early, consumed, faults>>
         /\ m \notin acked /\ acked' = acked \cup {m} /\ stream.exists /\ stream.open
         /\ \E n \in Nat :
              /\ stream' \in StreamRecord /\ stream'.exists /\ stream'.open
              /\ stream'.src = stream.src /\ stream'.pos = stream.pos
              /\ n = Len(stream.log) + 1 /\ Len(stream'.log) = n /\ stream'.log[n] = m
              /\ stream'.live = stream.live \cup {n} /\ stream'.live \subseteq 1 .. n
              /\ \A j \in stream.live : j < n /\ stream'.log[j] = stream.log[j]
<1>1. /\ UNCHANGED <<backup, consumer, pc, mem, early, consumed, faults>>
      /\ m \notin acked /\ acked' = acked \cup {m} /\ stream.exists /\ stream.open
      /\ stream' = Store(stream, m)
  BY DEF Publish, podVars
<1> DEFINE n == Len(stream.log) + 1
<1> HIDE DEF n
<1>2. ASSUME NEW q \in Nat
      PROVE  /\ stream' \in StreamRecord /\ n \in Nat /\ Len(stream'.log) = n /\ stream'.log[n] = m
             /\ stream'.live = stream.live \cup {n} /\ stream'.live \subseteq 1 .. Len(stream'.log)
             /\ \A j \in stream.live : j < n /\ stream'.log[j] = stream.log[j]
             /\ stream'.exists = stream.exists /\ stream'.src = stream.src
             /\ stream'.open = stream.open /\ stream'.pos = stream.pos
  <2>1. PICK r : r = stream'
    OBVIOUS
  <2>2. r = Store(stream, m) \/ r = [Store(stream, m) EXCEPT !.pos = q]
    BY <1>1, <2>1
  <2>3. /\ r \in StreamRecord
        /\ n \in Nat /\ r.live = stream.live \cup {n} /\ r.live \subseteq 1 .. Len(r.log)
        /\ Len(r.log) = n /\ r.log[n] = m /\ \A i \in stream.live : i < n /\ r.log[i] = stream.log[i]
        /\ r.exists = stream.exists /\ r.src = stream.src /\ r.open = stream.open
        /\ r.pos = (IF r = Store(stream, m) THEN stream.pos ELSE q)
    BY <2>2, StoreInStream DEF n
  <2> QED BY <1>1, <2>1, <2>3
<1> QED BY <1>1, <1>2, StreamTypes DEF n

LEMMA ConsumeEffect ==
  ASSUME RecordInv, NEW p \in Pods, Consume(p)
  PROVE  /\ UNCHANGED <<backup, consumer, podVars, acked, faults>>
         /\ stream.exists
         /\ \E i \in stream.live : /\ stream' = [stream EXCEPT !.live = @ \ {i}]
                                   /\ consumed' = consumed \cup {stream.log[i]}
<1>1. Min(stream.live) \in stream.live
  BY StreamTypes, MinIsLeast DEF Consume
<1> QED BY <1>1 DEF Consume

\* Every step keeps the records typed.
LEMMA TypeStep ==
  ASSUME TypeInv, [Next]_vars
  PROVE  TypeInv'
<1> USE DEF TypeInv
<1>1. ASSUME NEW p \in Pods, Looks(p) PROVE TypeInv'
  BY <1>1, LooksType DEF HeldInv
<1>2. ASSUME NEW p \in Pods, WritesStream(p) PROVE TypeInv'
  <2>1. /\ UNCHANGED <<backup, consumer, acked, consumed, faults>>
        /\ \/ stream' = stream
           \/ ~stream.exists /\ stream' = NewStream
           \/ \E o, b \in BOOLEAN, q \in Nat :
                stream.exists /\ stream' = [stream EXCEPT !.open = o, !.src = b, !.pos = q]
    BY <1>2, WritesStreamEffect
  <2>2. stream' \in StreamRecord /\ stream'.live \subseteq 1 .. Len(stream'.log)
    BY <2>1, FreshTypes DEF RecordInv, StreamRecord
  <2>3. \/ stream'.live = {} /\ stream'.exists
        \/ stream'.live = stream.live /\ stream'.log = stream.log
           /\ (stream' = stream \/ stream'.exists)
    BY <2>1, FreshTypes DEF RecordInv, StreamRecord, NewStream, NoStream
  <2>4. HeldInv'
    BY <2>1, <2>3 DEF HeldInv
  <2> QED BY <1>2, <2>1, <2>2, <2>4, WriterPods DEF RecordInv
<1>3. ASSUME NEW p \in Pods, WritesBackup(p) PROVE TypeInv'
  <2>1. /\ UNCHANGED <<stream, consumer, acked, consumed, faults>>
        /\ \/ backup' = backup
           \/ backup' = NoBackup
           \/ backup' = [backup EXCEPT !.src = FALSE]
           \/ backup' = [NoBackup EXCEPT !.exists = TRUE, !.src = TRUE, !.fresh = TRUE, !.owner = p]
    BY <1>3, WritesBackupEffect
  <2>2. backup' \in BackupRecord /\ backup'.live \subseteq 1 .. Len(backup'.log)
    BY <2>1, FreshTypes DEF RecordInv, BackupRecord
  <2>3. \/ backup'.live = {} /\ (backup'.exists \/ ~backup'.src)
        \/ /\ backup'.live = backup.live /\ backup'.log = backup.log /\ backup'.exists = backup.exists
           /\ (backup' = backup \/ ~backup'.src)
    BY <2>1, FreshTypes DEF RecordInv, BackupRecord, NoBackup
  <2>4. HeldInv'
    BY <2>1, <2>3 DEF HeldInv
  <2> QED BY <1>3, <2>1, <2>2, <2>4, WriterPods DEF RecordInv
<1>4. ASSUME NEW p \in Pods, Deletes(p) PROVE TypeInv'
  <2>1. faults' \in 0 .. MaxFaults
    <3>1. faults' = faults \/ (faults < MaxFaults /\ faults' = faults + 1)
      BY <1>4, DeletesEffect
    <3> QED BY <3>1, MigrationAssumption DEF RecordInv
  <2>2. /\ UNCHANGED <<acked, consumed>>
        /\ \/ UNCHANGED <<stream, backup, consumer>>
           \/ stream' = NoStream /\ consumer' = FALSE /\ backup' = [backup EXCEPT !.src = FALSE]
    BY <1>4, DeletesEffect
  <2>3. /\ stream' \in StreamRecord /\ stream'.live \subseteq 1 .. Len(stream'.log)
        /\ backup' \in BackupRecord /\ backup'.live \subseteq 1 .. Len(backup'.log)
        /\ backup'.live = backup.live /\ backup'.log = backup.log /\ backup'.exists = backup.exists
        /\ (backup' = backup \/ ~backup'.src)
        /\ (stream' = stream \/ (stream'.live = {} /\ ~stream'.src))
    <3>1. CASE UNCHANGED <<stream, backup, consumer>>
      BY <3>1 DEF RecordInv
    <3>2. CASE stream' = NoStream /\ backup' = [backup EXCEPT !.src = FALSE]
      <4>1. /\ backup' \in BackupRecord /\ backup'.live = backup.live /\ backup'.log = backup.log
            /\ backup'.exists = backup.exists /\ ~backup'.src
        BY <3>2 DEF RecordInv, BackupRecord
      <4>2. stream' \in StreamRecord /\ stream'.live = {} /\ stream'.log = <<>> /\ ~stream'.src
        BY <3>2, FreshTypes DEF NoStream
      <4> QED BY <4>1, <4>2 DEF RecordInv
    <3> QED BY <2>2, <3>1, <3>2
  <2>4. HeldInv'
    BY <2>2, <2>3 DEF HeldInv
  <2>5. consumer' \in BOOLEAN
    BY <2>2 DEF RecordInv
  <2> QED BY <1>4, <2>1, <2>2, <2>3, <2>4, <2>5, WriterPods DEF RecordInv
<1>5. ASSUME NEW p \in Pods, Consume(p) PROVE TypeInv'
  <2>1. PICK i \in stream.live : /\ stream' = [stream EXCEPT !.live = @ \ {i}]
                                 /\ consumed' = consumed \cup {stream.log[i]}
    BY <1>5, ConsumeEffect
  <2>2. /\ stream' \in StreamRecord /\ stream'.live = stream.live \ {i}
        /\ stream'.log = stream.log /\ stream'.src = stream.src
    BY <2>1, StreamTypes DEF RecordInv, StreamRecord
  <2>3. stream.log[i] \in acked
    BY <2>1 DEF HeldInv
  <2>4. UNCHANGED <<backup, consumer, pc, mem, early, acked, faults>> /\ stream.exists
    BY <1>5, ConsumeEffect DEF podVars
  <2>5. stream'.exists
    BY <2>1, <2>4 DEF RecordInv, StreamRecord
  <2>6. HeldInv'
    BY <2>2, <2>4, <2>5 DEF HeldInv
  <2> QED BY <2>1, <2>2, <2>3, <2>4, <2>6 DEF RecordInv
<1>6. ASSUME NEW m \in Msgs, Publish(m) PROVE TypeInv'
  <2>1. acked' = acked \cup {m} /\ UNCHANGED <<backup, consumer, pc, mem, early, consumed, faults>>
    BY <1>6, PublishEffect
  <2>2. PICK n \in Nat :
          /\ stream' \in StreamRecord /\ stream'.exists /\ Len(stream'.log) = n /\ stream'.log[n] = m
          /\ stream'.live = stream.live \cup {n} /\ stream'.live \subseteq 1 .. n
          /\ \A j \in stream.live : stream'.log[j] = stream.log[j]
    BY <1>6, PublishEffect
  <2>3. \A j \in stream'.live : stream'.log[j] \in acked'
    BY <2>1, <2>2 DEF HeldInv
  <2>4. HeldInv'
    BY <2>1, <2>2, <2>3 DEF HeldInv
  <2> QED BY <2>1, <2>2, <2>4 DEF RecordInv
<1>7. CASE SourceIntoBackup
  <2>1. UNCHANGED <<stream, consumer, pc, mem, early, acked, consumed, faults>>
    BY <1>7, SourceIntoBackupEffect
  <2>2. PICK i \in stream.live, n \in Nat :
          /\ backup' \in BackupRecord /\ backup'.exists /\ Len(backup'.log) = n
          /\ backup'.log[n] = stream.log[i]
          /\ backup'.live = backup.live \cup {n} /\ backup'.live \subseteq 1 .. n
          /\ \A j \in backup.live : backup'.log[j] = backup.log[j]
    BY <1>7, SourceIntoBackupEffect
  <2>3. \A j \in backup'.live : backup'.log[j] \in acked
    BY <2>2 DEF HeldInv
  <2>4. HeldInv'
    BY <2>1, <2>2, <2>3 DEF HeldInv
  <2> QED BY <2>1, <2>2, <2>4 DEF RecordInv
<1>8. CASE SourceIntoStream
  <2>1. UNCHANGED <<backup, consumer, pc, mem, early, acked, consumed, faults>>
    BY <1>8, SourceIntoStreamEffect
  <2>2. PICK i \in backup.live, n \in Nat :
          /\ stream' \in StreamRecord /\ stream'.exists /\ Len(stream'.log) = n
          /\ stream'.log[n] = backup.log[i]
          /\ stream'.live = stream.live \cup {n} /\ stream'.live \subseteq 1 .. n
          /\ \A j \in stream.live : stream'.log[j] = stream.log[j]
    BY <1>8, SourceIntoStreamEffect
  <2>3. \A j \in stream'.live : stream'.log[j] \in acked
    BY <2>2 DEF HeldInv
  <2>4. HeldInv'
    BY <2>1, <2>2, <2>3 DEF HeldInv
  <2> QED BY <2>1, <2>2, <2>4 DEF RecordInv
<1>9. CASE BackupAges
  <2>1. backup' = [backup EXCEPT !.fresh = FALSE]
        /\ UNCHANGED <<stream, consumer, pc, mem, early, acked, consumed, faults>>
    BY <1>9 DEF BackupAges, podVars, ServerRest
  <2>2. /\ backup' \in BackupRecord /\ backup'.exists = backup.exists /\ backup'.src = backup.src
        /\ backup'.live = backup.live /\ backup'.log = backup.log
    BY <2>1 DEF RecordInv, BackupRecord
  <2> QED BY <2>1, <2>2 DEF RecordInv, HeldInv
<1>10. CASE UNCHANGED vars
  BY <1>10 DEF vars, RecordInv, HeldInv
<1> QED BY <1>1, <1>2, <1>3, <1>4, <1>5, <1>6, <1>7, <1>8, <1>9, <1>10, NextByEffect

--------------------------------------------------------------------------------
(***************************************************************************)
(* Nothing acknowledged is lost.                                           *)
(***************************************************************************)
\* A call moves the pod that makes it and no other, and writes to the streams only
\* where the pod is about to.
LEMMA PodMoves ==
  ASSUME RecordInv, NEW p \in Pods, Looks(p) \/ WritesStream(p) \/ WritesBackup(p) \/ Deletes(p)
  PROVE  /\ \E l : Move(p, l)
         /\ \A q \in Pods \ {p} : mem'[q] = mem[q]
         /\ Looks(p) \/ pc[p] \in Critical
<1>0. {"inspect", "resume", "dropBackup", "detachBackup", "attach", "drain", "deleteBackup",
       "detach", "snapshot", "quiesce", "count", "backup", "fill", "delete", "recreate",
       "rollback", "dropOwn", "create", "reopen", "apply"} \subseteq Critical
  BY DEF Critical, Recovering, Restoring, Migrating, TryBlock
<1> USE DEF RecordInv, Fails, Goto, Keep
<1>1. CASE Looks(p)
  BY <1>1 DEF Looks, Boot, ProbeBackup, Inspect, Drain, EnsureStream, ProbePeer, PeerClears,
              PeerWaitTimesOut, Snapshot, Count, Fill, CopyTimesOut, StartConsuming, Heal, HealCheck,
              HealCreate, Crash
<1>2. CASE WritesStream(p)
  BY <1>0, <1>2 DEF WritesStream, Resume, AttachSource, DetachSource, CreateStream, UpdateStream,
                    Quiesce, Recreate, Rollback
<1>3. CASE WritesBackup(p)
  BY <1>0, <1>3 DEF WritesBackup, DropEmptyBackup, DetachBackup, DeleteBackup, CreateBackup,
                    DropOwnBackup
<1>4. CASE Deletes(p)
  BY <1>0, <1>4 DEF Deletes, DeleteStream, CallFails, TryBlock
<1> QED BY <1>1, <1>2, <1>3, <1>4

\* The exclusive run keeps one writer.
LEMMA OneWriterStep ==
  ASSUME Exclusive, RecordInv, OneWriter, [Next]_vars
  PROVE  OneWriter'
<1>1. ASSUME NEW p \in Pods, Looks(p) \/ WritesStream(p) \/ WritesBackup(p) \/ Deletes(p)
      PROVE  OneWriter'
  <2>1. PICK l : Move(p, l)
    BY <1>1, PodMoves
  <2>2. /\ pc' = [pc EXCEPT ![p] = l]
        /\ l \in Critical => \A q \in Pods \ {p} : pc[q] \notin Critical
    BY <2>1 DEF Move
  <2>3. \A q \in Pods : pc'[q] = IF q = p THEN l ELSE pc[q]
    BY <2>2 DEF RecordInv
  <2> QED BY <2>2, <2>3 DEF OneWriter
<1>2. pc' = pc => OneWriter'
  BY DEF OneWriter
<1>3. CASE \E p \in Pods : Consume(p)
  BY <1>2, <1>3 DEF Consume, podVars
<1>4. CASE \/ \E m \in Msgs : Publish(m)
           \/ SourceIntoBackup \/ SourceIntoStream \/ BackupAges \/ UNCHANGED vars
  BY <1>2, <1>4 DEF Publish, SourceIntoBackup, SourceIntoStream, BackupAges, podVars, vars
<1> QED BY <1>1, <1>3, <1>4, NextByEffect

\* The other pods rely on nothing that a call of p changes: either p only looked, or
\* none of them is about to write.
LEMMA OthersKeep ==
  ASSUME TypeInv, OneWriter, PodsInv, NEW p \in Pods,
         Looks(p) \/ WritesStream(p) \/ WritesBackup(p) \/ Deletes(p)
  PROVE  /\ \A q \in Pods \ {p} : PodInv(q)'
         /\ \A q \in Pods \ {p} : pc'[q] = pc[q]
<1>1. /\ \E l : Move(p, l)
      /\ \A q \in Pods \ {p} : mem'[q] = mem[q]
      /\ Looks(p) \/ pc[p] \in Critical
  BY PodMoves DEF TypeInv
<1>2. \A q \in Pods \ {p} : pc'[q] = pc[q]
  BY <1>1 DEF Move, TypeInv, RecordInv
<1>3. ASSUME NEW q \in Pods \ {p} PROVE PodInv(q)'
  <2>1. pc'[q] = pc[q] /\ mem'[q] = mem[q]
    BY <1>1, <1>2
  <2>2. CASE pc[q] \notin Critical
    <3>1. pc'[q] \notin Critical
      BY <2>1, <2>2
    <3> QED BY <3>1 DEF PodInv, Critical, Recovering, Restoring, Migrating, TryBlock
  <2>3. CASE Looks(p)
    <3>1. UNCHANGED <<stream, backup, acked, consumed>>
      BY <2>3, LooksType DEF TypeInv
    <3>2. PodInv(q)
      BY DEF PodsInv
    <3> QED BY <2>1, <3>1, <3>2 DEF PodInv, Kept, Holds, Lag
  <2>4. pc[q] \notin Critical \/ Looks(p)
    BY <1>1 DEF OneWriter
  <2> QED BY <2>2, <2>3, <2>4
<1> QED BY <1>2, <1>3

\* Where the pod itself gets to.
LEMMA FailsTo ==
  ASSUME RecordInv, NEW p \in Pods, Fails(p)
  PROVE  pc'[p] = (IF pc[p] \in TryBlock THEN "rollback" ELSE "down")
BY FailsType DEF RecordInv

\* Looking keeps what was known, and what the pod read is what it relies on.
LEMMA LooksSurvive ==
  ASSUME TypeInv, SurviveInv, NEW p \in Pods, Looks(p)
  PROVE  CopiesInv' /\ PodInv(p)'
<1>1. UNCHANGED <<stream, backup, acked, consumed>>
  BY LooksType DEF TypeInv
<1>2. CopiesInv' /\ Kept' = Kept
  BY <1>1 DEF SurviveInv, CopiesInv, BackupInv, RestoreInv, AckedSurvives, Safe, Kept, Holds
<1>3. PodInv(p) /\ (~backup.exists => Kept)
  BY DEF SurviveInv, CopiesInv, PodsInv, AckedSurvives, Safe, Kept, Holds
<1>4. pc \in [Pods -> Locations] /\ mem \in [Pods -> Memory]
  BY DEF TypeInv, RecordInv
<1> SUFFICES PodInv(p)'
  BY <1>2
<1> USE DEF Goto, Move, Keep
<1>5. CASE \/ Boot(p) \/ EnsureStream(p) \/ PeerWaitTimesOut(p) \/ StartConsuming(p) \/ Heal(p)
           \/ Crash(p)
  <2>1. pc'[p] \in {"down", "boot", "ensure", "probe", "peerWait", "ready", "serving", "heal",
                    "create", "reopen"}
    BY <1>4, <1>5 DEF Boot, EnsureStream, PeerWaitTimesOut, StartConsuming, Heal, HealCheck, HealCreate,
                      Crash, Fails, TryBlock
  <2> QED BY <2>1 DEF PodInv, TryBlock, Recovering
<1>6. CASE ProbeBackup(p)
  <2>0. [Blank EXCEPT !.min = Messages(backup)].min = Messages(backup)
    BY DEF Blank
  <2>1. \/ pc'[p] = "ensure"
        \/ pc'[p] = "inspect" /\ mem'[p].min = Messages(backup)
    BY <1>4, <1>6, <2>0 DEF ProbeBackup
  <2>2. CASE pc'[p] = "inspect" /\ mem'[p].min = Messages(backup)
    <3>1. mem'[p].min = 0 => backup'.live = {}
      BY <1>1, <2>2, CountType DEF TypeInv
    <3> QED BY <2>2, <3>1 DEF PodInv, TryBlock, Recovering
  <2> QED BY <2>1, <2>2 DEF PodInv, TryBlock, Recovering
<1>7. CASE Inspect(p)
  <2>1. /\ pc[p] = "inspect" /\ mem'[p].min = mem[p].min
        /\ \/ pc'[p] \in {"resume", "drain", "detachBackup"}
           \/ pc'[p] = "dropBackup" /\ mem[p].min = 0
    BY <1>4, <1>7 DEF Inspect, Memory
  <2>2. mem'[p].min = 0 => backup'.src \/ backup'.live = {}
    BY <1>1, <1>3, <2>1 DEF PodInv, Recovering
  <2>3. CASE pc'[p] = "resume"
    BY <2>2, <2>3 DEF PodInv, TryBlock, Recovering
  <2>4. CASE pc'[p] = "dropBackup" /\ mem[p].min = 0
    BY <2>1, <2>2, <2>4 DEF PodInv, TryBlock, Recovering
  <2> QED BY <2>1, <2>3, <2>4 DEF PodInv, TryBlock, Recovering
<1>8. CASE Drain(p)
  <2>1. /\ pc'[p] = "deleteBackup" /\ stream.exists /\ stream.src /\ backup.exists
        /\ Lag(backup, stream.pos) = {}
    BY <1>4, <1>8 DEF Drain, Restored
  <2>2. ~backup.src
    BY <2>1 DEF SurviveInv, CopiesInv, BackupInv
  <2> QED BY <1>1, <2>1, <2>2 DEF PodInv, TryBlock, Recovering, Lag
<1>9. CASE ProbePeer(p) \/ PeerClears(p)
  <2>1. pc'[p] = "peerWait" \/ (pc'[p] = "snapshot" /\ ~backup.exists)
    BY <1>4, <1>9 DEF ProbePeer, PeerClears
  <2> QED BY <1>1, <2>1 DEF PodInv, TryBlock, Recovering
<1>10. CASE Snapshot(p)
  <2>1. pc[p] = "snapshot" /\ pc'[p] \in {"create", "apply", "quiesce"}
    BY <1>4, <1>10 DEF Snapshot, Fails, TryBlock
  <2>2. ~backup.exists /\ Kept
    BY <1>3, <2>1 DEF PodInv
  <2>3. CASE pc'[p] = "quiesce"
    BY <1>1, <1>2, <2>2, <2>3 DEF PodInv, TryBlock, Recovering
  <2> QED BY <2>1, <2>3 DEF PodInv, TryBlock, Recovering
<1>11. CASE Count(p)
  <2>1. /\ pc[p] = "count" /\ pc[p] \in TryBlock
        /\ \/ pc'[p] = "rollback"
           \/ pc'[p] = "backup" /\ stream.exists
           \/ pc'[p] = "delete" /\ stream.exists /\ ~(Messages(stream) > 0)
    BY <1>4, <1>11 DEF Count, Fails, TryBlock
  <2>2. ~backup.exists /\ ~stream.open /\ (stream.exists => Kept)
    BY <1>3, <2>1 DEF PodInv
  <2>3. CASE pc'[p] = "rollback"
    BY <1>1, <1>2, <2>2, <2>3 DEF PodInv, TryBlock, Recovering
  <2>4. CASE pc'[p] = "backup" /\ stream.exists
    BY <1>1, <1>2, <2>2, <2>4 DEF PodInv, TryBlock, Recovering
  <2>5. CASE pc'[p] = "delete" /\ stream.exists /\ ~(Messages(stream) > 0)
    <3>1. stream.live = {}
      BY <2>5, CountType DEF TypeInv
    <3> QED BY <1>1, <1>2, <2>2, <2>5, <3>1 DEF PodInv, TryBlock, Recovering
  <2> QED BY <2>1, <2>3, <2>4, <2>5
<1>12. CASE Fill(p)
  <2>1. /\ pc[p] = "fill" /\ pc'[p] = "delete" /\ backup.exists /\ backup.src
        /\ Lag(stream, backup.pos) = {}
    BY <1>4, <1>12 DEF Fill, Filled
  <2>2. ~stream.open /\ (stream.exists => Kept)
    BY <1>3, <2>1 DEF PodInv, TryBlock
  <2> QED BY <1>1, <1>2, <2>1, <2>2 DEF PodInv, TryBlock, Recovering, Lag
<1>13. CASE CopyTimesOut(p)
  <2>1. \/ pc[p] = "fill" /\ pc'[p] = "rollback"
        \/ pc'[p] = "down"
    BY <1>4, <1>13 DEF CopyTimesOut, Fails, TryBlock
  <2>2. CASE pc[p] = "fill" /\ pc'[p] = "rollback"
    <3>1. stream.exists => Kept
      BY <1>3, <2>2 DEF PodInv, TryBlock
    <3> QED BY <1>1, <1>2, <2>2, <3>1 DEF PodInv, TryBlock, Recovering
  <2> QED BY <2>1, <2>2 DEF PodInv, TryBlock, Recovering
<1> QED BY <1>5, <1>6, <1>7, <1>8, <1>9, <1>10, <1>11, <1>12, <1>13 DEF Looks

\* A call that fails leaves the streams alone and the pod goes down, or rolls back.
LEMMA FailedCall ==
  ASSUME TypeInv, SurviveInv, NEW p \in Pods, Fails(p), UNCHANGED <<stream, backup, acked, consumed>>
  PROVE  CopiesInv' /\ PodInv(p)'
<1>1. CopiesInv' /\ Kept' = Kept
  BY DEF SurviveInv, CopiesInv, BackupInv, RestoreInv, AckedSurvives, Safe, Kept, Holds
<1>2. PodInv(p)
  BY DEF SurviveInv, PodsInv
<1>3. pc'[p] = IF pc[p] \in TryBlock THEN "rollback" ELSE "down"
  BY FailsTo DEF TypeInv
<1>4. CASE pc[p] \in TryBlock
  <2>1. stream'.exists => Kept'
    BY <1>1, <1>2, <1>4 DEF PodInv
  <2> QED BY <1>1, <1>3, <1>4, <2>1 DEF PodInv, TryBlock, Recovering
<1>5. CASE pc[p] \notin TryBlock
  BY <1>1, <1>3, <1>5 DEF PodInv, TryBlock, Recovering
<1> QED BY <1>4, <1>5

\* A new stream takes the place of none.
LEMMA NewStreamCopies ==
  ASSUME TypeInv, SurviveInv, ~stream.exists, stream' = NewStream, UNCHANGED <<backup, acked, consumed>>
  PROVE  CopiesInv'
<1>1. stream'.exists /\ ~stream'.src
  BY DEF NewStream, NoStream
<1>2. ~(backup.exists /\ backup.src)
  BY DEF SurviveInv, CopiesInv, BackupInv
<1>3. AckedSurvives'
  BY DEF SurviveInv, CopiesInv, AckedSurvives, Safe, Holds
<1> QED BY <1>1, <1>2, <1>3 DEF CopiesInv, BackupInv, RestoreInv

\* The subjects are written: the stream holds what it held.
LEMMA SubjectsCopies ==
  ASSUME TypeInv, SurviveInv, NEW o \in BOOLEAN, stream' = [stream EXCEPT !.open = o],
         UNCHANGED <<backup, acked, consumed>>
  PROVE  CopiesInv' /\ Kept' = Kept /\ stream'.exists = stream.exists /\ stream'.open = o
<1>1. /\ stream'.exists = stream.exists /\ stream'.src = stream.src /\ stream'.pos = stream.pos
      /\ stream'.live = stream.live /\ stream'.log = stream.log /\ stream'.open = o
  BY DEF TypeInv, RecordInv, StreamRecord
<1> QED BY <1>1 DEF SurviveInv, CopiesInv, BackupInv, RestoreInv, AckedSurvives, Safe, Kept, Holds

\* Writing the stream's config, or creating it.
LEMMA WritesStreamSurvive ==
  ASSUME TypeInv, SurviveInv, NEW p \in Pods, WritesStream(p)
  PROVE  CopiesInv' /\ PodInv(p)'
<1>1. UNCHANGED <<backup, acked, consumed>>
  BY WritesStreamEffect DEF TypeInv
<1>2. /\ PodInv(p) /\ CopiesInv /\ stream \in StreamRecord
      /\ pc \in [Pods -> Locations] /\ mem \in [Pods -> Memory] /\ mem[p].open \in BOOLEAN
  BY DEF SurviveInv, PodsInv, TypeInv, RecordInv, Memory
<1>3. CASE Fails(p) /\ stream' = stream
  BY <1>1, <1>3, FailedCall
<1> USE DEF Goto, Move, Keep
<1>4. CASE Resume(p) /\ ~stream.exists
  <2>1. CopiesInv'
    BY <1>1, <1>4, NewStreamCopies DEF Resume
  <2>2. [mem[p] EXCEPT !.cfg = "new", !.open = TRUE].min = mem[p].min /\ mem[p].min \in Nat
    BY <1>2 DEF Memory
  <2>3. /\ pc[p] = "resume" /\ mem' = [mem EXCEPT ![p] = [mem[p] EXCEPT !.cfg = "new", !.open = TRUE]]
        /\ pc' = [pc EXCEPT ![p] = IF mem[p].min > 0 THEN "detachBackup" ELSE "dropBackup"]
    BY <1>4 DEF Resume
  <2>4. /\ pc[p] = "resume" /\ mem'[p].min = mem[p].min
        /\ pc'[p] = "detachBackup" \/ (pc'[p] = "dropBackup" /\ mem[p].min = 0)
    BY <1>2, <2>2, <2>3
  <2>5. mem[p].min = 0 => backup'.src \/ backup'.live = {}
    BY <1>1, <1>2, <2>4 DEF PodInv, Recovering
  <2> QED BY <2>1, <2>4, <2>5 DEF PodInv, TryBlock, Recovering
<1>5. CASE (CreateStream(p) \/ Recreate(p)) /\ ~stream.exists
  <2>1. CopiesInv'
    BY <1>1, <1>5, NewStreamCopies DEF CreateStream, Recreate
  <2>2. pc'[p] = "ready" \/ pc'[p] = "detachBackup"
    BY <1>2, <1>5 DEF CreateStream, Recreate
  <2> QED BY <2>1, <2>2 DEF PodInv, TryBlock, Recovering
<1>6. CASE AttachSource(p) /\ UpdateAccepted(p)
  <2>1. pc[p] = "attach" /\ pc'[p] = "drain" /\ stream.exists
        /\ stream' = [stream EXCEPT !.open = mem[p].open, !.src = TRUE,
                                    !.pos = IF stream.src THEN stream.pos ELSE 0]
    BY <1>2, <1>6 DEF AttachSource, UpdateAccepted
  <2>2. /\ stream'.exists = stream.exists /\ stream'.live = stream.live /\ stream'.log = stream.log
        /\ stream'.pos = IF stream.src THEN stream.pos ELSE 0
    BY <1>2, <2>1 DEF StreamRecord
  <2>3. ~backup.src
    BY <1>2, <2>1 DEF PodInv
  <2>4. \A i \in backup.live : i > 0
    BY DEF TypeInv, RecordInv
  <2>5. 0 <= Len(backup.log) /\ \A i \in backup.live : ~(i <= 0)
    BY <2>4, StreamTypes DEF TypeInv
  <2>6. RestoreInv'
    BY <1>1, <1>2, <2>1, <2>2, <2>5 DEF CopiesInv, RestoreInv, Holds
  <2>7. BackupInv' /\ AckedSurvives'
    BY <1>1, <1>2, <2>2, <2>3 DEF CopiesInv, BackupInv, AckedSurvives, Safe, Holds
  <2> QED BY <2>1, <2>6, <2>7 DEF CopiesInv, PodInv, TryBlock, Recovering
<1>7. CASE DetachSource(p) /\ UpdateAccepted(p)
  <2>1. pc[p] = "detach" /\ pc'[p] \in {"ready", "ensure"} /\ stream.exists
        /\ stream' = [stream EXCEPT !.open = mem[p].open, !.src = FALSE]
    BY <1>2, <1>7 DEF DetachSource, UpdateAccepted
  <2>2. /\ stream'.exists = stream.exists /\ stream'.live = stream.live /\ stream'.log = stream.log
    BY <1>2, <2>1 DEF StreamRecord
  <2>3. ~backup.exists
    BY <1>2, <2>1 DEF PodInv
  <2>4. BackupInv' /\ RestoreInv' /\ AckedSurvives'
    BY <1>1, <1>2, <2>2, <2>3 DEF CopiesInv, BackupInv, RestoreInv, AckedSurvives, Safe, Holds
  <2> QED BY <2>1, <2>4 DEF CopiesInv, PodInv, TryBlock, Recovering
<1>8. CASE UpdateStream(p) /\ stream.exists /\ stream.cfg = "new"
  <2>1. pc'[p] = "ready" /\ stream' = [stream EXCEPT !.open = TRUE]
    BY <1>2, <1>8 DEF UpdateStream
  <2>2. CopiesInv'
    BY <1>1, <2>1, SubjectsCopies
  <2> QED BY <2>1, <2>2 DEF PodInv, TryBlock, Recovering
<1>9. CASE Quiesce(p) /\ UpdateAccepted(p)
  <2>1. pc[p] = "quiesce" /\ pc'[p] = "count" /\ stream.exists
        /\ stream' = [stream EXCEPT !.open = FALSE]
    BY <1>2, <1>9 DEF Quiesce, UpdateAccepted
  <2>2. CopiesInv' /\ Kept' = Kept /\ ~stream'.open
    BY <1>1, <2>1, SubjectsCopies
  <2>3. Kept /\ ~backup.exists
    BY <1>2, <2>1 DEF PodInv, TryBlock
  <2> QED BY <1>1, <2>1, <2>2, <2>3 DEF PodInv, TryBlock, Recovering
<1>10. CASE Rollback(p) /\ UpdateAccepted(p)
  <2>1. pc[p] = "rollback" /\ pc'[p] = "dropOwn" /\ stream.exists
        /\ stream' = [stream EXCEPT !.open = mem[p].open]
    BY <1>2, <1>10 DEF Rollback, UpdateAccepted
  <2>2. CopiesInv' /\ Kept' = Kept /\ stream'.exists = stream.exists
    BY <1>1, <1>2, <2>1, SubjectsCopies
  <2>3. Kept
    BY <1>2, <2>1 DEF PodInv
  <2> QED BY <2>1, <2>2, <2>3 DEF PodInv, TryBlock, Recovering
<1>11. \/ Fails(p) /\ stream' = stream
       \/ Resume(p) /\ ~stream.exists
       \/ (CreateStream(p) \/ Recreate(p)) /\ ~stream.exists
       \/ (AttachSource(p) \/ DetachSource(p) \/ Quiesce(p) \/ Rollback(p)) /\ UpdateAccepted(p)
       \/ UpdateStream(p) /\ stream.exists /\ stream.cfg = "new"
  BY DEF WritesStream, Resume, CreateStream, Recreate, AttachSource, DetachSource, Quiesce, Rollback,
         UpdateStream
<1> QED BY <1>3, <1>4, <1>5, <1>6, <1>7, <1>8, <1>9, <1>10, <1>11

\* Writing the backup: a new one copies the stream; one that goes holds nothing that is
\* not also in the stream or consumed.
LEMMA WritesBackupSurvive ==
  ASSUME TypeInv, SurviveInv, NEW p \in Pods, WritesBackup(p)
  PROVE  CopiesInv' /\ PodInv(p)'
<1>1. UNCHANGED <<stream, acked, consumed>>
  BY WritesBackupEffect DEF TypeInv
<1>2. /\ PodInv(p) /\ CopiesInv /\ backup \in BackupRecord
      /\ pc \in [Pods -> Locations] /\ mem \in [Pods -> Memory]
  BY DEF SurviveInv, PodsInv, TypeInv, RecordInv
<1>3. CASE Fails(p) /\ backup' = backup
  BY <1>1, <1>3, FailedCall
<1> USE DEF Goto, Move, Keep
<1>4. ASSUME backup' = NoBackup, \A m \in acked : Holds(backup, m) => Holds(stream, m) \/ m \in consumed
      PROVE  CopiesInv' /\ ~backup'.exists
  <2>1. ~backup'.exists
    BY <1>4 DEF NoBackup
  <2>2. AckedSurvives'
    BY <1>1, <1>2, <1>4 DEF CopiesInv, AckedSurvives, Safe, Holds
  <2> QED BY <2>1, <2>2 DEF CopiesInv, BackupInv, RestoreInv
<1>5. CASE DropEmptyBackup(p) /\ backup.exists
  <2>1. pc[p] = "dropBackup" /\ pc'[p] = "ensure" /\ backup' = NoBackup
    BY <1>2, <1>5 DEF DropEmptyBackup
  <2>2. backup.src \/ backup.live = {}
    BY <1>2, <2>1 DEF PodInv, Recovering
  <2>3. \A m \in acked : Holds(backup, m) => Holds(stream, m) \/ m \in consumed
    BY <1>2, <1>5, <2>2 DEF CopiesInv, BackupInv, Kept, Holds
  <2>4. CopiesInv'
    BY <1>4, <2>1, <2>3
  <2> QED BY <2>1, <2>4 DEF PodInv, TryBlock, Recovering
<1>6. CASE DetachBackup(p) /\ backup.exists
  <2>1. pc'[p] = "attach" /\ backup' = [backup EXCEPT !.src = FALSE]
    BY <1>2, <1>6 DEF DetachBackup
  <2>2. /\ backup'.exists = backup.exists /\ backup'.live = backup.live /\ backup'.log = backup.log
        /\ ~backup'.src
    BY <1>2, <2>1 DEF BackupRecord
  <2>3. BackupInv' /\ RestoreInv' /\ AckedSurvives'
    BY <1>1, <1>2, <2>2 DEF CopiesInv, BackupInv, RestoreInv, AckedSurvives, Safe, Holds
  <2> QED BY <2>1, <2>2, <2>3 DEF CopiesInv, PodInv, TryBlock, Recovering
<1>7. CASE DeleteBackup(p) /\ backup.exists
  <2>1. pc[p] = "deleteBackup" /\ pc'[p] = "detach" /\ backup' = NoBackup
    BY <1>2, <1>7 DEF DeleteBackup
  <2>2. stream.exists /\ stream.src /\ Lag(backup, stream.pos) = {}
    BY <1>2, <2>1 DEF PodInv
  <2>3. \A i \in backup.live : i <= stream.pos
    BY <2>2, StreamTypes DEF Lag, TypeInv
  <2>4. \A m \in acked : Holds(backup, m) => Holds(stream, m) \/ m \in consumed
    BY <1>2, <1>7, <2>2, <2>3 DEF CopiesInv, RestoreInv, Holds
  <2>5. CopiesInv' /\ ~backup'.exists
    BY <1>4, <2>1, <2>4
  <2> QED BY <2>1, <2>5 DEF PodInv, TryBlock, Recovering
<1>8. CASE CreateBackup(p) /\ ~(backup.exists \/ stream.src)
  <2>1. /\ pc[p] = "backup" /\ pc'[p] = "fill"
        /\ backup' = [NoBackup EXCEPT !.exists = TRUE, !.src = TRUE, !.fresh = TRUE, !.owner = p]
    BY <1>2, <1>8 DEF CreateBackup
  <2>2. backup'.exists /\ backup'.pos = 0 /\ backup'.live = {}
    BY <2>1 DEF NoBackup
  <2>3. stream.exists /\ Kept /\ ~stream.open
    BY <1>2, <2>1 DEF PodInv, TryBlock
  <2>4. 0 <= Len(stream.log) /\ \A i \in stream.live : ~(i <= 0)
    BY StreamTypes DEF TypeInv, RecordInv
  <2>5. Kept' = Kept
    BY <1>1 DEF Kept, Holds
  <2>6. BackupInv'
    BY <1>1, <1>8, <2>2, <2>3, <2>4, <2>5 DEF BackupInv
  <2>7. RestoreInv' /\ AckedSurvives'
    BY <1>1, <1>8, <2>2, <2>3, <2>5 DEF RestoreInv, AckedSurvives, Safe, Kept, Holds
  <2> QED BY <1>1, <2>1, <2>3, <2>5, <2>6, <2>7 DEF CopiesInv, PodInv, TryBlock, Recovering
<1>9. CASE DropOwnBackup(p)
  <2>1. pc[p] = "dropOwn" /\ pc'[p] = "down" /\ backup' = NoBackup
    BY <1>2, <1>9 DEF DropOwnBackup
  <2>2. Kept
    BY <1>2, <2>1 DEF PodInv
  <2>3. CopiesInv'
    BY <1>4, <2>1, <2>2 DEF Kept
  <2> QED BY <2>1, <2>3 DEF PodInv, TryBlock, Recovering
<1>10. \/ Fails(p) /\ backup' = backup
       \/ (DropEmptyBackup(p) \/ DetachBackup(p) \/ DeleteBackup(p)) /\ backup.exists
       \/ CreateBackup(p) /\ ~(backup.exists \/ stream.src)
       \/ DropOwnBackup(p)
  BY DEF WritesBackup, DropEmptyBackup, DetachBackup, DeleteBackup, CreateBackup
<1> QED BY <1>3, <1>5, <1>6, <1>7, <1>8, <1>9, <1>10

\* The delete: the backup has it all, or there was nothing left to keep.
LEMMA DeletesSurvive ==
  ASSUME TypeInv, SurviveInv, NEW p \in Pods, Deletes(p)
  PROVE  CopiesInv' /\ PodInv(p)'
<1>1. UNCHANGED <<acked, consumed>>
  BY DeletesEffect
<1>2. /\ PodInv(p) /\ CopiesInv /\ backup \in BackupRecord /\ pc \in [Pods -> Locations]
  BY DEF SurviveInv, PodsInv, TypeInv, RecordInv
<1>3. CASE Fails(p) /\ UNCHANGED <<stream, backup>>
  BY <1>1, <1>3, FailedCall
<1>4. CASE /\ pc[p] = "delete" /\ pc'[p] \in {"recreate", "rollback"}
           /\ stream' = NoStream /\ backup' = [backup EXCEPT !.src = FALSE]
  <2>1. /\ backup'.exists = backup.exists /\ backup'.live = backup.live /\ backup'.log = backup.log
        /\ ~backup'.src /\ ~stream'.exists
    BY <1>2, <1>4 DEF BackupRecord, NoStream
  <2>2. stream.exists => \/ stream.live = {}
                         \/ backup.exists /\ backup.src /\ Lag(stream, backup.pos) = {}
    BY <1>2, <1>4 DEF PodInv
  <2>3. stream.exists => \A i \in stream.live : Holds(backup, stream.log[i])
    <3>1. CASE backup.exists /\ backup.src /\ Lag(stream, backup.pos) = {}
      <4>1. \A i \in stream.live : i <= backup.pos
        BY <3>1, StreamTypes DEF Lag, TypeInv
      <4> QED BY <1>2, <3>1, <4>1 DEF CopiesInv, BackupInv
    <3> QED BY <2>2, <3>1
  <2>4. \A m \in acked : Holds(stream, m) => Holds(backup, m)
    BY <2>3 DEF Holds
  <2>5. AckedSurvives'
    BY <1>1, <1>2, <2>1, <2>4 DEF CopiesInv, AckedSurvives, Safe, Holds
  <2>6. CopiesInv'
    BY <2>1, <2>5 DEF CopiesInv, BackupInv, RestoreInv
  <2> QED BY <1>4, <2>1, <2>6 DEF PodInv, TryBlock, Recovering
<1>5. \/ Fails(p) /\ UNCHANGED <<stream, backup>>
      \/ /\ pc[p] = "delete" /\ pc'[p] \in {"recreate", "rollback"}
         /\ stream' = NoStream /\ backup' = [backup EXCEPT !.src = FALSE]
  <2>1. CASE DeleteStream(p)
    BY <1>2, <2>1 DEF DeleteStream, Gone, Goto, Move
  <2>2. CASE CallFails(p)
    <3>1. pc[p] \in TryBlock /\ Fails(p)
      BY <2>2 DEF CallFails
    <3>2. pc'[p] = "rollback"
      BY <3>1, FailsTo DEF TypeInv
    <3> QED BY <2>2, <3>1, <3>2 DEF CallFails, Gone
  <2> QED BY <2>1, <2>2 DEF Deletes
<1> QED BY <1>3, <1>4, <1>5

\* What the server and the publishers do.  A message more in the stream, or in the
\* backup that is filled, takes nothing away.
LEMMA PublishSurvive ==
  ASSUME TypeInv, SurviveInv, NEW m \in Msgs, Publish(m)
  PROVE  CopiesInv' /\ PodsInv'
<1>1. /\ UNCHANGED <<backup, pc, mem, consumed>>
      /\ acked' = acked \cup {m} /\ stream.exists /\ stream.open
  BY PublishEffect DEF TypeInv
<1>2. PICK n \in Nat :
        /\ stream'.exists /\ stream'.src = stream.src /\ stream'.pos = stream.pos
        /\ n = Len(stream.log) + 1 /\ Len(stream'.log) = n /\ stream'.log[n] = m
        /\ stream'.live = stream.live \cup {n}
        /\ \A j \in stream.live : j < n /\ stream'.log[j] = stream.log[j]
  BY PublishEffect DEF TypeInv
<1>3. \A x : Holds(stream, x) => Holds(stream, x)'
  BY <1>2 DEF Holds
<1>4. Holds(stream, m)'
  BY <1>2 DEF Holds
<1>5. CopiesInv /\ PodsInv
  BY DEF SurviveInv
<1>6. (Kept => Kept') /\ AckedSurvives'
  BY <1>1, <1>3, <1>4, <1>5 DEF Kept, CopiesInv, AckedSurvives, Safe, Holds
<1>7. BackupInv'
  <2>1. SUFFICES ASSUME backup.exists, backup.src PROVE BackupInv'
    BY <1>1 DEF BackupInv
  <2>2. /\ ~stream.src /\ backup.pos <= Len(stream.log) /\ Kept
        /\ \A i \in stream.live : i <= backup.pos => Holds(backup, stream.log[i])
    BY <1>5, <2>1 DEF CopiesInv, BackupInv
  <2>3. backup.pos <= Len(stream'.log) /\ ~(n <= backup.pos)
    BY <1>2, <2>2, StreamTypes DEF TypeInv
  <2>4. \A i \in stream'.live : i <= backup.pos => Holds(backup, stream'.log[i])
    BY <1>2, <2>2, <2>3
  <2> QED BY <1>1, <1>2, <1>6, <2>2, <2>3, <2>4 DEF BackupInv, Holds
<1>8. RestoreInv'
  BY <1>1, <1>2, <1>3, <1>5 DEF CopiesInv, RestoreInv, Holds
<1>9. ASSUME NEW q \in Pods PROVE PodInv(q)'
  <2>1. PodInv(q)
    BY <1>5 DEF PodsInv
  <2>2. pc[q] \notin {"count", "backup", "fill", "delete"}
    BY <1>1, <2>1 DEF PodInv
  <2> QED BY <1>1, <1>2, <1>6, <2>1, <2>2 DEF PodInv, Lag
<1> QED BY <1>6, <1>7, <1>8, <1>9 DEF CopiesInv, PodsInv

LEMMA SourceIntoBackupSurvive ==
  ASSUME TypeInv, SurviveInv, SourceIntoBackup
  PROVE  CopiesInv' /\ PodsInv'
<1>1. /\ UNCHANGED <<stream, pc, mem, acked, consumed>>
      /\ backup.exists /\ backup.src /\ stream.exists
  BY SourceIntoBackupEffect DEF TypeInv
<1>2. PICK i \in stream.live, n \in Nat :
        /\ i > backup.pos /\ i <= Len(stream.log)
        /\ \A j \in stream.live : j <= i => j <= backup.pos \/ j = i
        /\ backup'.exists /\ backup'.src /\ backup'.pos = i
        /\ backup'.log[n] = stream.log[i] /\ backup'.live = backup.live \cup {n}
        /\ \A j \in backup.live : backup'.log[j] = backup.log[j]
  BY SourceIntoBackupEffect DEF TypeInv
<1>3. (\A x : Holds(backup, x) => Holds(backup, x)') /\ Holds(backup', stream.log[i])
  BY <1>2 DEF Holds
<1>4. CopiesInv /\ PodsInv
  BY DEF SurviveInv
<1>5. ~stream.src /\ Kept /\ \A j \in stream.live : j <= backup.pos => Holds(backup, stream.log[j])
  BY <1>1, <1>4 DEF CopiesInv, BackupInv
<1>6. Kept' = Kept /\ AckedSurvives'
  BY <1>1, <1>3, <1>4 DEF Kept, CopiesInv, AckedSurvives, Safe, Holds
<1>7. \A j \in stream.live : j <= i => Holds(backup', stream.log[j])
  BY <1>2, <1>3, <1>5 DEF Holds
<1>8. BackupInv'
  BY <1>1, <1>2, <1>5, <1>6, <1>7 DEF BackupInv, Holds
<1>9. RestoreInv'
  BY <1>1, <1>5 DEF RestoreInv
<1>10. ASSUME NEW q \in Pods PROVE PodInv(q)'
  <2>1. PodInv(q)
    BY <1>4 DEF PodsInv
  <2>2. Lag(stream, i) \subseteq Lag(stream, backup.pos)
    BY <1>2, StreamTypes DEF Lag, TypeInv
  <2> QED BY <1>1, <1>2, <1>6, <2>1, <2>2 DEF PodInv, Lag
<1> QED BY <1>6, <1>8, <1>9, <1>10 DEF CopiesInv, PodsInv

LEMMA SourceIntoStreamSurvive ==
  ASSUME TypeInv, SurviveInv, SourceIntoStream
  PROVE  CopiesInv' /\ PodsInv'
<1>1. /\ UNCHANGED <<backup, pc, mem, acked, consumed>>
      /\ stream.exists /\ stream.src /\ backup.exists
  BY SourceIntoStreamEffect DEF TypeInv
<1>2. PICK i \in backup.live, n \in Nat :
        /\ i > stream.pos /\ i <= Len(backup.log)
        /\ \A j \in backup.live : j <= i => j <= stream.pos \/ j = i
        /\ stream'.exists /\ stream'.src /\ stream'.pos = i /\ stream'.open = stream.open
        /\ stream'.log[n] = backup.log[i] /\ stream'.live = stream.live \cup {n}
        /\ \A j \in stream.live : stream'.log[j] = stream.log[j]
  BY SourceIntoStreamEffect DEF TypeInv
<1>3. (\A x : Holds(stream, x) => Holds(stream, x)') /\ Holds(stream', backup.log[i])
  BY <1>2 DEF Holds
<1>4. CopiesInv /\ PodsInv
  BY DEF SurviveInv
<1>5. /\ ~backup.src
      /\ \A j \in backup.live : j <= stream.pos => Holds(stream, backup.log[j]) \/ backup.log[j] \in consumed
  BY <1>1, <1>4 DEF CopiesInv, BackupInv, RestoreInv
<1>6. (Kept => Kept') /\ AckedSurvives'
  BY <1>1, <1>3, <1>4 DEF Kept, CopiesInv, AckedSurvives, Safe, Holds
<1>7. \A j \in backup.live : j <= i => Holds(stream', backup.log[j]) \/ backup.log[j] \in consumed
  BY <1>2, <1>3, <1>5 DEF Holds
<1>8. RestoreInv'
  BY <1>1, <1>2, <1>7 DEF RestoreInv, Holds
<1>9. BackupInv'
  BY <1>1, <1>5 DEF BackupInv
<1>10. ASSUME NEW q \in Pods PROVE PodInv(q)'
  <2>1. PodInv(q)
    BY <1>4 DEF PodsInv
  <2>2. Lag(backup, i) \subseteq Lag(backup, stream.pos)
    BY <1>2, StreamTypes DEF Lag, TypeInv
  <2>3. pc[q] # "delete"
    BY <1>1, <1>5, <2>1 DEF PodInv
  <2> QED BY <1>1, <1>2, <1>6, <2>1, <2>2, <2>3 DEF PodInv, Lag
<1> QED BY <1>6, <1>8, <1>9, <1>10 DEF CopiesInv, PodsInv

\* What a consumer takes out of the stream is consumed.
LEMMA ConsumeSurvive ==
  ASSUME TypeInv, SurviveInv, NEW p \in Pods, Consume(p)
  PROVE  CopiesInv' /\ PodsInv'
<1>1. UNCHANGED <<backup, pc, mem, acked>> /\ stream.exists
  BY ConsumeEffect DEF podVars, TypeInv
<1>2. PICK k \in stream.live : stream' = [stream EXCEPT !.live = @ \ {k}]
                               /\ consumed' = consumed \cup {stream.log[k]}
  BY ConsumeEffect DEF TypeInv
<1>3. /\ stream'.exists /\ stream'.live = stream.live \ {k} /\ stream'.log = stream.log
      /\ stream'.src = stream.src /\ stream'.pos = stream.pos /\ stream'.open = stream.open
  BY <1>1, <1>2 DEF TypeInv, RecordInv, StreamRecord
<1>4. \A x : Holds(stream, x) \/ x \in consumed => Holds(stream', x) \/ x \in consumed'
  BY <1>2, <1>3 DEF Holds
<1>5. CopiesInv /\ PodsInv
  BY DEF SurviveInv
<1>6. (Kept => Kept') /\ AckedSurvives'
  BY <1>1, <1>2, <1>4, <1>5 DEF Kept, CopiesInv, AckedSurvives, Safe, Holds
<1>7. BackupInv'
  BY <1>1, <1>3, <1>5, <1>6 DEF CopiesInv, BackupInv, Holds
<1>8. RestoreInv'
  BY <1>1, <1>3, <1>4, <1>5 DEF CopiesInv, RestoreInv, Holds
<1>9. ASSUME NEW q \in Pods PROVE PodInv(q)'
  <2>1. PodInv(q)
    BY <1>5 DEF PodsInv
  <2> QED BY <1>1, <1>3, <1>6, <2>1 DEF PodInv, Lag
<1> QED BY <1>6, <1>7, <1>8, <1>9 DEF CopiesInv, PodsInv

\* A pod's call.
LEMMA CallSurvive ==
  ASSUME TypeInv, SurviveInv, NEW p \in Pods,
         Looks(p) \/ WritesStream(p) \/ WritesBackup(p) \/ Deletes(p)
  PROVE  CopiesInv' /\ PodsInv'
<1>1. CopiesInv' /\ PodInv(p)'
  BY LooksSurvive, WritesStreamSurvive, WritesBackupSurvive, DeletesSurvive
<1>2. \A q \in Pods \ {p} : PodInv(q)'
  BY OthersKeep DEF SurviveInv
<1> QED BY <1>1, <1>2 DEF PodsInv

\* Every step keeps the two copies and what the pods rely on.
LEMMA SurviveStep ==
  ASSUME Exclusive, TypeInv, SurviveInv, [Next]_vars
  PROVE  SurviveInv'
<1>1. OneWriter'
  BY OneWriterStep DEF TypeInv, SurviveInv
<1>2. CASE \E p \in Pods : Looks(p) \/ WritesStream(p) \/ WritesBackup(p) \/ Deletes(p)
  BY <1>1, <1>2, CallSurvive DEF SurviveInv
<1>3. CASE \E p \in Pods : Consume(p)
  BY <1>1, <1>3, ConsumeSurvive DEF SurviveInv
<1>4. CASE \E m \in Msgs : Publish(m)
  BY <1>1, <1>4, PublishSurvive DEF SurviveInv
<1>5. CASE SourceIntoBackup
  BY <1>1, <1>5, SourceIntoBackupSurvive DEF SurviveInv
<1>6. CASE SourceIntoStream
  BY <1>1, <1>6, SourceIntoStreamSurvive DEF SurviveInv
<1>7. CASE BackupAges
  <2>1. /\ UNCHANGED <<stream, pc, mem, acked, consumed>>
        /\ backup' = [backup EXCEPT !.fresh = FALSE]
    BY <1>7 DEF BackupAges, podVars, ServerRest
  <2>2. /\ backup'.exists = backup.exists /\ backup'.src = backup.src /\ backup'.pos = backup.pos
        /\ backup'.live = backup.live /\ backup'.log = backup.log
    BY <2>1 DEF TypeInv, RecordInv, BackupRecord
  <2>3. CopiesInv'
    BY <2>1, <2>2 DEF SurviveInv, CopiesInv, BackupInv, RestoreInv, AckedSurvives, Safe, Kept, Holds
  <2>4. PodsInv'
    BY <2>1, <2>2 DEF SurviveInv, PodsInv, PodInv, Kept, Holds, Lag
  <2> QED BY <1>1, <2>3, <2>4 DEF SurviveInv
<1>8. CASE UNCHANGED vars
  BY <1>1, <1>8 DEF vars, SurviveInv, CopiesInv, BackupInv, RestoreInv, AckedSurvives, Safe, PodsInv,
                    PodInv, Kept, Holds, Lag
<1> QED BY <1>2, <1>3, <1>4, <1>5, <1>6, <1>7, <1>8, NextByEffect

--------------------------------------------------------------------------------
(***************************************************************************)
(* Nothing is restored twice.                                              *)
(***************************************************************************)
\* A step never makes calm of what was not.
LEMMA CalmBefore ==
  ASSUME TypeInv, [Next]_vars, Calm'
  PROVE  Calm
<1> USE DEF Fails, Goto
<1>1. ASSUME NEW p \in Pods, Looks(p) PROVE Calm
  <2>1. early => early'
    BY <1>1 DEF Looks, Boot, ProbeBackup, Inspect, Drain, EnsureStream, ProbePeer, PeerClears,
                PeerWaitTimesOut, Snapshot, Count, Fill, CopyTimesOut, StartConsuming, Heal, HealCheck,
                HealCreate, Crash
  <2> QED BY <1>1, <2>1, LooksType DEF Calm, TypeInv
<1>2. ASSUME NEW p \in Pods, WritesStream(p) PROVE Calm
  <2>1. early => early'
    BY <1>2 DEF WritesStream, Resume, AttachSource, DetachSource, CreateStream, UpdateStream, Quiesce,
                Recreate, Rollback
  <2> QED BY <1>2, <2>1, WritesStreamEffect DEF Calm, TypeInv
<1>3. ASSUME NEW p \in Pods, WritesBackup(p) PROVE Calm
  <2>1. early => early'
    BY <1>3 DEF WritesBackup, DropEmptyBackup, DetachBackup, DeleteBackup, CreateBackup, DropOwnBackup
  <2> QED BY <1>3, <2>1, WritesBackupEffect DEF Calm, TypeInv
<1>4. ASSUME NEW p \in Pods, Deletes(p) PROVE Calm
  <2>1. early => early'
    BY <1>4 DEF Deletes, DeleteStream, CallFails
  <2> QED BY <1>4, <2>1, DeletesEffect DEF Calm
<1>5. ASSUME NEW p \in Pods, Consume(p) PROVE Calm
  BY <1>5 DEF Calm, Consume, podVars
<1>6. CASE \/ \E m \in Msgs : Publish(m)
           \/ SourceIntoBackup \/ SourceIntoStream \/ BackupAges \/ UNCHANGED vars
  BY <1>6 DEF Calm, Publish, SourceIntoBackup, SourceIntoStream, BackupAges, podVars, ServerRest, vars
<1> QED BY <1>1, <1>2, <1>3, <1>4, <1>5, <1>6, NextByEffect

\* The pod of a backup that copies leaves it behind, or lets go of it.
LEMMA Leaves ==
  ASSUME TypeInv, SurviveInv, NEW p \in Pods, pc[p] \in Filling, backup.src, ~early',
         Looks(p) \/ WritesStream(p) \/ WritesBackup(p) \/ Deletes(p)
  PROVE  pc'[p] \in Filling \/ ~backup'.src
<1>1. pc \in [Pods -> Locations] /\ backup \in BackupRecord
  BY DEF TypeInv, RecordInv
<1>2. backup.exists /\ stream.exists
  BY DEF TypeInv, HeldInv, SurviveInv, CopiesInv, BackupInv
<1>3. \A l : Goto(p, l) => pc'[p] = l /\ l # "down"
  BY <1>1, <1>2 DEF Goto, Move, Filling
<1>4. Fails(p) => pc'[p] \in Filling
  BY <1>3 DEF Fails, Filling
<1>5. CASE Looks(p)
  <2>1. Fill(p) \/ CopyTimesOut(p) \/ Crash(p)
    BY <1>5 DEF Looks, Boot, ProbeBackup, Inspect, Drain, EnsureStream, ProbePeer, PeerClears,
                PeerWaitTimesOut, Snapshot, Count, StartConsuming, Heal, HealCheck, HealCreate, Filling
  <2> QED BY <1>3, <1>4, <2>1 DEF Fill, CopyTimesOut, Crash, Filling
<1>6. CASE WritesStream(p)
  <2>1. Rollback(p)
    BY <1>6 DEF WritesStream, Resume, AttachSource, DetachSource, CreateStream, UpdateStream, Quiesce,
                Recreate, Filling
  <2> QED BY <1>3, <1>4, <2>1 DEF Rollback, Filling
<1>7. CASE WritesBackup(p)
  <2>1. DropOwnBackup(p)
    BY <1>7 DEF WritesBackup, DropEmptyBackup, DetachBackup, DeleteBackup, CreateBackup, Filling
  <2> QED BY <2>1 DEF DropOwnBackup, NoBackup
<1>8. CASE Deletes(p)
  <2>1. Fails(p) \/ ~backup'.src
    BY <1>1, <1>8 DEF Deletes, DeleteStream, CallFails, Gone, BackupRecord
  <2> QED BY <1>4, <2>1
<1> QED BY <1>5, <1>6, <1>7, <1>8

\* So while a backup copies, its pod is there.
LEMMA FillerStays ==
  ASSUME TypeInv, SurviveInv, OnceInv, NEW p \in Pods, Calm, Calm', backup.src,
         Looks(p) \/ WritesStream(p) \/ WritesBackup(p) \/ Deletes(p)
  PROVE  ~backup'.src \/ \E q \in Pods : pc'[q] \in Filling
<1>1. PICK q \in Pods : pc[q] \in Filling
  BY DEF OnceInv
<1>2. CASE q = p
  BY <1>1, <1>2, Leaves DEF Calm
<1>3. CASE q # p
  <2>1. pc'[q] = pc[q]
    BY <1>3, OthersKeep DEF SurviveInv
  <2> QED BY <1>1, <2>1
<1> QED BY <1>2, <1>3

\* A pod that writes is that pod.
LEMMA FillerWrites ==
  ASSUME SurviveInv, OnceInv, NEW p \in Pods, pc[p] \in Critical, Calm, backup.src
  PROVE  pc[p] \in Filling
<1>1. PICK q \in Pods : pc[q] \in Filling
  BY DEF OnceInv
<1>2. pc[q] \in Critical
  BY <1>1 DEF Filling, Critical, Migrating, TryBlock
<1> QED BY <1>1, <1>2 DEF SurviveInv, OneWriter

\* Looking, and calls that fail.
LEMMA SameStreamsOnce ==
  ASSUME TypeInv, SurviveInv, OnceInv, NEW p \in Pods, Calm, Calm', UNCHANGED <<stream, backup>>,
         Looks(p) \/ WritesStream(p) \/ WritesBackup(p) \/ Deletes(p)
  PROVE  OnceInv'
<1>1. backup.src => \E q \in Pods : pc'[q] \in Filling
  BY FillerStays
<1> QED BY <1>1 DEF OnceInv, NoTwice

LEMMA WritesStreamOnce ==
  ASSUME TypeInv, SurviveInv, OnceInv, NEW p \in Pods, Calm, Calm', WritesStream(p)
  PROVE  OnceInv'
<1>1. UNCHANGED backup
  BY WritesStreamEffect DEF TypeInv
<1>2. /\ PodInv(p) /\ CopiesInv /\ stream \in StreamRecord
  BY DEF SurviveInv, PodsInv, TypeInv, RecordInv
<1>3. backup.src => \E q \in Pods : pc'[q] \in Filling
  BY <1>1, FillerStays
<1>4. CASE stream' = stream
  BY <1>1, <1>4, SameStreamsOnce
<1>5. CASE ~stream.exists /\ stream' = NewStream
  <2>1. stream'.live = {}
    BY <1>5, FreshTypes
  <2>2. ~backup.src
    BY <1>2, <1>5 DEF CopiesInv, BackupInv, TypeInv, HeldInv
  <2> QED BY <1>1, <2>1, <2>2 DEF OnceInv, NoTwice
<1>6. ASSUME stream'.live = stream.live, stream'.log = stream.log,
             stream.src => stream'.src /\ stream'.pos = stream.pos
      PROVE  OnceInv'
  BY <1>1, <1>3, <1>6 DEF OnceInv, NoTwice
<1>7. CASE \E o \in BOOLEAN : stream' = [stream EXCEPT !.open = o]
  <2>1. stream'.live = stream.live /\ stream'.log = stream.log
        /\ stream'.src = stream.src /\ stream'.pos = stream.pos
    BY <1>2, <1>7 DEF StreamRecord
  <2> QED BY <1>6, <2>1
<1>8. CASE AttachSource(p) /\ UpdateAccepted(p)
  <2>1. stream' = [stream EXCEPT !.open = mem[p].open, !.src = TRUE,
                                 !.pos = IF stream.src THEN stream.pos ELSE 0]
    BY <1>8 DEF AttachSource
  <2>2. stream'.live = stream.live /\ stream'.log = stream.log
        /\ stream'.src /\ (stream.src => stream'.pos = stream.pos)
    BY <1>2, <2>1 DEF StreamRecord
  <2> QED BY <1>6, <2>2
<1>9. CASE DetachSource(p) /\ UpdateAccepted(p)
  <2>1. pc[p] = "detach" /\ stream' = [stream EXCEPT !.open = mem[p].open, !.src = FALSE]
    BY <1>9 DEF DetachSource
  <2>2. stream'.live = stream.live /\ stream'.log = stream.log
    BY <1>2, <2>1 DEF StreamRecord
  <2>3. ~backup.exists
    BY <1>2, <2>1 DEF PodInv
  <2> QED BY <1>1, <1>3, <2>2, <2>3 DEF OnceInv, NoTwice
<1>10. \/ stream' = stream
       \/ ~stream.exists /\ stream' = NewStream
       \/ \E o \in BOOLEAN : stream' = [stream EXCEPT !.open = o]
       \/ (AttachSource(p) \/ DetachSource(p)) /\ UpdateAccepted(p)
  <2>1. mem[p].open \in BOOLEAN
    BY DEF TypeInv, RecordInv, Memory
  <2> QED BY <2>1 DEF WritesStream, Resume, CreateStream, Recreate, AttachSource, DetachSource, Quiesce,
                      Rollback, UpdateStream
<1> QED BY <1>4, <1>5, <1>7, <1>8, <1>9, <1>10

LEMMA WritesBackupOnce ==
  ASSUME TypeInv, SurviveInv, OnceInv, NEW p \in Pods, Calm, Calm', WritesBackup(p)
  PROVE  OnceInv'
<1>1. UNCHANGED stream
  BY WritesBackupEffect DEF TypeInv
<1>2. backup \in BackupRecord /\ pc \in [Pods -> Locations]
  BY DEF TypeInv, RecordInv
<1>3. CASE backup' = backup
  BY <1>1, <1>3, SameStreamsOnce
<1>4. CASE backup' = NoBackup
  <2>1. backup'.live = {} /\ ~backup'.src /\ ~backup'.exists
    BY <1>4 DEF NoBackup
  <2> QED BY <1>1, <2>1 DEF OnceInv, NoTwice
<1>5. CASE DetachBackup(p) /\ backup' = [backup EXCEPT !.src = FALSE]
  <2>1. /\ backup'.exists = backup.exists /\ backup'.live = backup.live /\ backup'.log = backup.log
        /\ ~backup'.src
    BY <1>2, <1>5 DEF BackupRecord
  <2>2. pc[p] = "detachBackup" /\ pc[p] \in Critical
    BY <1>5 DEF DetachBackup, Critical, Restoring
  <2>3. ~backup.src
    BY <2>2, FillerWrites DEF Filling
  <2> QED BY <1>1, <2>1, <2>3 DEF OnceInv, NoTwice
<1>6. CASE /\ pc' = [pc EXCEPT ![p] = "fill"]
           /\ backup' = [NoBackup EXCEPT !.exists = TRUE, !.src = TRUE, !.fresh = TRUE, !.owner = p]
  <2>1. backup'.live = {} /\ backup'.src
    BY <1>6 DEF NoBackup
  <2>2. pc'[p] \in Filling
    BY <1>2, <1>6 DEF Filling
  <2> QED BY <1>1, <2>1, <2>2 DEF OnceInv, NoTwice
<1>7. \/ backup' = backup \/ backup' = NoBackup
      \/ DetachBackup(p) /\ backup' = [backup EXCEPT !.src = FALSE]
      \/ /\ pc' = [pc EXCEPT ![p] = "fill"]
         /\ backup' = [NoBackup EXCEPT !.exists = TRUE, !.src = TRUE, !.fresh = TRUE, !.owner = p]
  BY DEF WritesBackup, DropEmptyBackup, DetachBackup, DeleteBackup, CreateBackup, DropOwnBackup, Goto, Move
<1> QED BY <1>3, <1>4, <1>5, <1>6, <1>7

LEMMA DeletesOnce ==
  ASSUME TypeInv, SurviveInv, OnceInv, NEW p \in Pods, Calm, Calm', Deletes(p)
  PROVE  OnceInv'
<1>1. CASE UNCHANGED <<stream, backup>>
  BY <1>1, SameStreamsOnce
<1>2. CASE stream' = NoStream /\ backup' = [backup EXCEPT !.src = FALSE]
  <2>1. /\ backup'.exists = backup.exists /\ backup'.live = backup.live /\ backup'.log = backup.log
        /\ ~backup'.src
    BY <1>2 DEF TypeInv, RecordInv, BackupRecord
  <2>2. stream'.live = {}
    BY <1>2, FreshTypes
  <2> QED BY <2>1, <2>2 DEF OnceInv, NoTwice
<1> QED BY <1>1, <1>2, DeletesEffect

\* A message is published once, so it is not one the streams hold.
LEMMA PublishOnce ==
  ASSUME TypeInv, SurviveInv, OnceInv, NEW m \in Msgs, Calm, Calm', Publish(m)
  PROVE  OnceInv'
<1>1. UNCHANGED <<backup, pc>> /\ m \notin acked
  BY PublishEffect DEF TypeInv
<1>2. PICK n \in Nat :
        /\ stream'.src = stream.src /\ stream'.pos = stream.pos
        /\ stream'.log[n] = m /\ stream'.live = stream.live \cup {n}
        /\ \A j \in stream.live : j < n /\ stream'.log[j] = stream.log[j]
  BY PublishEffect DEF TypeInv
<1>3. /\ \A j \in stream.live : stream'.log[j] # m
      /\ \A j \in backup.live : backup.log[j] # m
  BY <1>1, <1>2 DEF TypeInv, HeldInv
<1>4. NoTwice(stream')
  BY <1>2, <1>3 DEF OnceInv, NoTwice
<1>5. backup.src => \A j \in backup.live :
                      \E i \in stream'.live : i <= backup.pos /\ stream'.log[i] = backup.log[j]
  BY <1>2 DEF OnceInv
<1>6. backup.exists /\ ~backup.src =>
        \A i \in stream'.live, j \in backup.live :
          stream'.log[i] = backup.log[j] => stream'.src /\ j <= stream'.pos
  BY <1>2, <1>3 DEF OnceInv
<1> QED BY <1>1, <1>4, <1>5, <1>6 DEF OnceInv, NoTwice

\* What the backup copies next it did not copy yet.
LEMMA SourceIntoBackupOnce ==
  ASSUME TypeInv, SurviveInv, OnceInv, Calm, Calm', SourceIntoBackup
  PROVE  OnceInv'
<1>1. UNCHANGED <<stream, pc>> /\ backup.src /\ backup.pos \in Nat
  BY SourceIntoBackupEffect, StreamTypes DEF TypeInv
<1>2. PICK i \in stream.live, n \in Nat :
        /\ i > backup.pos /\ backup'.src /\ backup'.pos = i
        /\ backup'.log[n] = stream.log[i] /\ backup'.live = backup.live \cup {n}
        /\ \A j \in backup.live : backup'.log[j] = backup.log[j]
  BY SourceIntoBackupEffect DEF TypeInv
<1>3. stream.live \subseteq Nat
  BY StreamTypes DEF TypeInv
<1>4. \A j \in backup.live : \E k \in stream.live : k <= backup.pos /\ stream.log[k] = backup.log[j]
  BY <1>1 DEF OnceInv
<1>5. \A j \in backup.live : backup.log[j] # stream.log[i]
  BY <1>1, <1>2, <1>3, <1>4 DEF OnceInv, NoTwice
<1>6. NoTwice(backup')
  BY <1>2, <1>5 DEF OnceInv, NoTwice
<1>7. \A j \in backup'.live : \E k \in stream.live : k <= i /\ stream.log[k] = backup'.log[j]
  BY <1>1, <1>2, <1>3, <1>4
<1> QED BY <1>1, <1>2, <1>6, <1>7 DEF OnceInv, NoTwice

\* What the stream copies next it does not hold.
LEMMA SourceIntoStreamOnce ==
  ASSUME TypeInv, SurviveInv, OnceInv, Calm, Calm', SourceIntoStream
  PROVE  OnceInv'
<1>1. UNCHANGED <<backup, pc>> /\ stream.exists /\ stream.src /\ backup.exists /\ stream.pos \in Nat
  BY SourceIntoStreamEffect, StreamTypes DEF TypeInv
<1>2. PICK i \in backup.live, n \in Nat :
        /\ i > stream.pos /\ stream'.src /\ stream'.pos = i
        /\ stream'.log[n] = backup.log[i] /\ stream'.live = stream.live \cup {n}
        /\ \A j \in stream.live : stream'.log[j] = stream.log[j]
  BY SourceIntoStreamEffect DEF TypeInv
<1>3. backup.live \subseteq Nat
  BY StreamTypes DEF TypeInv
<1>4. ~backup.src
  BY <1>1 DEF SurviveInv, CopiesInv, BackupInv
<1>5. \A k \in stream.live, j \in backup.live : stream.log[k] = backup.log[j] => j <= stream.pos
  BY <1>1, <1>4 DEF OnceInv
<1>6. \A k \in stream.live : stream.log[k] # backup.log[i]
  BY <1>1, <1>2, <1>3, <1>5
<1>7. NoTwice(stream')
  BY <1>2, <1>6 DEF OnceInv, NoTwice
<1>8. \A k \in stream'.live, j \in backup.live : stream'.log[k] = backup.log[j] => j <= i
  BY <1>1, <1>2, <1>3, <1>5 DEF OnceInv, NoTwice
<1> QED BY <1>1, <1>2, <1>4, <1>7, <1>8 DEF OnceInv, NoTwice

\* Every step restores at most what is missing.
LEMMA OnceStep ==
  ASSUME TypeInv, SurviveInv, OnceInv, [Next]_vars
  PROVE  OnceInv'
<1>1. SUFFICES ASSUME Calm' PROVE OnceInv'
  BY DEF OnceInv
<1>2. Calm
  BY <1>1, CalmBefore
<1>3. ASSUME NEW p \in Pods, Looks(p) PROVE OnceInv'
  <2>1. UNCHANGED <<stream, backup>>
    BY <1>3, LooksType DEF TypeInv
  <2> QED BY <1>1, <1>2, <1>3, <2>1, SameStreamsOnce
<1>4. CASE \E p \in Pods : Looks(p) \/ WritesStream(p) \/ WritesBackup(p) \/ Deletes(p)
  BY <1>1, <1>2, <1>3, <1>4, WritesStreamOnce, WritesBackupOnce, DeletesOnce
<1>5. CASE \E p \in Pods : Consume(p)
  <2>1. consumed' # {}
    BY <1>5 DEF Consume
  <2> QED BY <1>1, <2>1 DEF Calm
<1>6. CASE (\E m \in Msgs : Publish(m)) \/ SourceIntoBackup \/ SourceIntoStream
  BY <1>1, <1>2, <1>6, PublishOnce, SourceIntoBackupOnce, SourceIntoStreamOnce
<1>7. CASE BackupAges
  <2>1. UNCHANGED <<stream, pc>> /\ backup' = [backup EXCEPT !.fresh = FALSE]
    BY <1>7 DEF BackupAges, podVars, ServerRest
  <2>2. /\ backup'.exists = backup.exists /\ backup'.src = backup.src /\ backup'.pos = backup.pos
        /\ backup'.live = backup.live /\ backup'.log = backup.log
    BY <2>1 DEF TypeInv, RecordInv, BackupRecord
  <2> QED BY <1>1, <1>2, <2>1, <2>2 DEF OnceInv, NoTwice
<1>8. CASE UNCHANGED vars
  BY <1>1, <1>2, <1>8 DEF vars, OnceInv, NoTwice
<1> QED BY <1>4, <1>5, <1>6, <1>7, <1>8, NextByEffect

--------------------------------------------------------------------------------
(***************************************************************************)
(* The theorems.                                                           *)
(***************************************************************************)
LEMMA InitHolds ==
  ASSUME Init
  PROVE  TypeInv /\ SurviveInv /\ OnceInv
<1>1. PICK log \in InitLogs :
        /\ stream = [NoStream EXCEPT !.exists = TRUE, !.cfg = "old", !.open = TRUE,
                                     !.log = log, !.live = DOMAIN log]
        /\ acked = Range(log)
  BY DEF Init
<1>2. log \in Seq(Msgs) /\ IsInjective(log)
  BY <1>1, MigrationAssumption
<1>3. DOMAIN log = 1 .. Len(log) /\ Len(log) \in Nat /\ \A i \in DOMAIN log : log[i] \in Msgs
  BY <1>2
<1>4. /\ stream.exists /\ stream.open /\ ~stream.src /\ stream.log = log /\ stream.live = 1 .. Len(log)
      /\ stream \in StreamRecord
  <2>1. DOMAIN log = 1 .. Len(log) /\ DOMAIN log \in SUBSET Nat
    BY <1>3
  <2> DEFINE held == DOMAIN log
  <2> HIDE DEF held
  <2>2. stream = [NoStream EXCEPT !.exists = TRUE, !.cfg = "old", !.open = TRUE,
                                  !.log = log, !.live = held]
    BY <1>1 DEF held
  <2>3. held \in SUBSET Nat
    BY <2>1 DEF held
  <2>4. /\ stream.exists /\ stream.open /\ ~stream.src /\ stream.log = log /\ stream.live = held
        /\ stream \in StreamRecord
    BY <1>2, <2>2, <2>3 DEF NoStream, StreamRecord
  <2> QED BY <2>1, <2>4 DEF held
<1>5. backup = NoBackup /\ ~backup.exists /\ ~backup.src /\ backup.live = {} /\ backup \in BackupRecord
      /\ backup.live \subseteq 1 .. Len(backup.log)
  BY FreshTypes DEF Init, NoBackup
<1>6. \A p \in Pods : pc[p] \in {"serving", "down"}
  BY DEF Init
<1>7. \A i \in stream.live : stream.log[i] \in acked
  BY <1>1, <1>3, <1>4 DEF Range
<1>8. acked \subseteq Msgs
  BY <1>1, <1>3 DEF Range
<1>9. TypeInv
  <2>1. pc \in [Pods -> Locations]
    BY DEF Init, Locations
  <2>2. mem \in [Pods -> Memory] /\ {consumer, early} \subseteq BOOLEAN
    BY MemoryType DEF Init
  <2>3. faults \in 0 .. MaxFaults
    BY MigrationAssumption DEF Init
  <2>4. consumed \subseteq acked
    BY DEF Init
  <2> QED BY <1>4, <1>5, <1>7, <1>8, <2>1, <2>2, <2>3, <2>4 DEF TypeInv, RecordInv, HeldInv
<1>10. SurviveInv
  <2>1. OneWriter
    BY <1>6 DEF OneWriter, Critical, Recovering, Restoring, Migrating, TryBlock
  <2>2. AckedSurvives
    BY <1>1, <1>3, <1>4 DEF AckedSurvives, Safe, Holds, Range
  <2>3. CopiesInv
    BY <1>4, <1>5, <2>2 DEF CopiesInv, BackupInv, RestoreInv
  <2>4. PodsInv
    BY <1>6 DEF PodsInv, PodInv, TryBlock, Recovering
  <2> QED BY <2>1, <2>3, <2>4 DEF SurviveInv
<1>11. OnceInv
  <2>1. NoTwice(stream)
    BY <1>2, <1>3, <1>4 DEF NoTwice, IsInjective
  <2>2. NoTwice(backup)
    BY <1>5 DEF NoTwice
  <2> QED BY <1>5, <2>1, <2>2 DEF OnceInv
<1> QED BY <1>9, <1>10, <1>11

\* The streams, the pods and their memory stay of their types; a stream that is gone
\* holds nothing, and nothing that was not acknowledged is held.
THEOREM MigrationTypeInvariant == Spec => []TypeInv
<1>1. Init => TypeInv
  BY InitHolds
<1>2. TypeInv /\ [Next]_vars => TypeInv'
  BY TypeStep
<1> QED BY <1>1, <1>2, PTL DEF Spec

\* The inductive invariant of the migration while one pod writes at a time: how far
\* each copy got, and what each pod relies on where it stands.
THEOREM MigrationInvariant ==
  ASSUME Exclusive
  PROVE  Spec => [](TypeInv /\ SurviveInv /\ OnceInv)
<1> DEFINE IInv == TypeInv /\ SurviveInv /\ OnceInv
<1>1. Init => IInv
  BY InitHolds
<1>2. IInv /\ [Next]_vars => IInv'
  BY TypeStep, SurviveStep, OnceStep
<1> QED BY <1>1, <1>2, PTL DEF Spec

\* Through crashes, rollbacks, lost replies and recovery no acknowledged message is
\* lost, for any pods, messages and faults, while one pod writes at a time.
THEOREM NothingAckedIsLost ==
  ASSUME Exclusive
  PROVE  Spec => []AckedSurvives
<1>1. TypeInv /\ SurviveInv /\ OnceInv => AckedSurvives
  BY DEF SurviveInv, CopiesInv
<1> QED BY <1>1, MigrationInvariant, PTL

\* A migration resumed as often as it is interrupted restores no message twice, while
\* one pod writes at a time, unless a pod left its backup behind next to the original
\* or a consumer took a message out.
THEOREM RestoredOnce ==
  ASSUME Exclusive
  PROVE  Spec => []RestoresOnce
<1>1. TypeInv /\ SurviveInv /\ OnceInv => RestoresOnce
  BY DEF OnceInv, Calm, NoTwice, RestoresOnce
<1> QED BY <1>1, MigrationInvariant, PTL

================================================================================
