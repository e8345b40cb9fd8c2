------------------------------- MODULE Deployment -------------------------------
(***************************************************************************)
(* Applications that boot against one cluster: StreamProvider.ensureStreams*)
(* and ConsumerProvider.ensureConsumers of every pod, interleaved at each  *)
(* call to the server, and the self-healing that brings back a consumer    *)
(* which somebody deleted.  A scenario gives the options of every pod and  *)
(* the streams and consumers that exist before any of them boots.          *)
(*                                                                         *)
(* The kinds of a phase are handled in parallel (Promise.all): a pod whose *)
(* one kind has failed does not start, while its other calls go on.        *)
(* Destructive migration, StreamMigration's subject, is one step here.     *)
(***************************************************************************)
EXTENDS Provisioning

CONSTANTS
  Pods,
  Scenarios,         \* set of [opts, streams, consumers]
  MaxBoots,          \* boots of one pod
  MaxFaults,         \* calls that fail and consumers that are deleted
  SharedExclusive    \* nobody else is at the broadcast stream between a pod's look at it
                     \* and the update that follows

VARIABLES
  opt,         \* the options of every pod
  streams,     \* name -> config
  consumers,   \* <<stream, durable>> -> filters
  phase,       \* pod -> where its start is
  todo,        \* pod -> kinds the phase has left to handle
  seen,        \* pod -> what info() returned for the kinds in between their two calls
  error,       \* pod -> what stopped its start in that phase
  boots,
  faults

vars == <<opt, streams, consumers, phase, todo, seen, error, boots, faults>>
broker == <<streams, consumers>>

Errors == {"none", "options", "owned", "conflict", "shared", "rejected", "unbound", "api"}

ASSUME DeploymentAssumption ==
  /\ MaxBoots \in Nat /\ MaxFaults \in Nat /\ SharedExclusive \in BOOLEAN
  /\ \A s \in Scenarios, p \in Pods :
       \* the registry keys handlers by subject
       \A h, g \in {h \in s.opts[p].handlers : h.kind # "both"} :
         Subject(s.opts[p], h.kind, h.pattern) = Subject(s.opts[p], g.kind, g.pattern) => h = g
  /\ \A s \in Scenarios :
       /\ \A p \in Pods :
            /\ \A k \in DOMAIN s.opts[p].prefix : s.opts[p].prefix[k] \in Seq(STRING)
            \* a text that is split at its dots has a token
            /\ \A h \in s.opts[p].handlers : h.pattern \in Seq(STRING) \ {<<>>}
       /\ \A name \in DOMAIN s.streams :
            /\ "subjects" \in DOMAIN s.streams[name]
            /\ IsFiniteSet(s.streams[name]["subjects"])
            /\ s.streams[name]["subjects"] \subseteq Seq(STRING)
       /\ \A c \in DOMAIN s.consumers :
            c[1] \in DOMAIN s.streams /\ s.consumers[c] \subseteq Seq(STRING)

TypeOK ==
  /\ \A p \in Pods :
       /\ phase[p] \in {"down", "streams", "dlq", "consumers", "up"}
       /\ todo[p] \in SUBSET (Kinds \cup {"dlq"})
       /\ DOMAIN seen[p] \subseteq todo[p]
       /\ error[p] \in Errors
       /\ phase[p] \in {"down", "up"} => todo[p] = {}
  /\ \A c \in DOMAIN consumers : c[1] \in DOMAIN streams

Init ==
  \E s \in Scenarios :
    /\ opt = s.opts
    /\ streams = s.streams
    /\ consumers = s.consumers
    /\ phase = [p \in Pods |-> "down"]
    /\ todo = [p \in Pods |-> {}]
    /\ seen = [p \in Pods |-> Nothing]
    /\ error = [p \in Pods |-> "none"]
    /\ boots = [p \in Pods |-> 0]
    /\ faults = 0

--------------------------------------------------------------------------------
(***************************************************************************)
(* The server.                                                             *)
(***************************************************************************)
\* External: no other stream may hold an overlapping subject.
Disjoint(name, subjects) ==
  \A other \in DOMAIN streams \ {name} :
    \A s \in subjects, t \in streams[other]["subjects"] : ~Overlaps(s, t)

\* External: an update merges the given properties; the server refuses another
\* storage or retention, and to turn off what can only be turned on.
AcceptsUpdate(name, config) ==
  /\ name \in DOMAIN streams
  /\ \A p \in DOMAIN config \cap {"storage", "retention"} : config[p] = streams[name][p]
  /\ \A p \in DOMAIN config \cap DOMAIN streams[name] \cap EnableOnly :
       streams[name][p] => config[p]
  /\ Disjoint(name, config["subjects"])

\* External: creating what exists with the same config is no error.
AcceptsAdd(name, config) ==
  /\ name \in DOMAIN streams => streams[name] = config
  /\ Disjoint(name, config["subjects"])

\* External: a consumer needs its stream, and filters that can match something there.
AcceptsConsumer(stream, filters) ==
  /\ stream \in DOMAIN streams
  /\ \A f \in filters : \E s \in streams[stream]["subjects"] : Overlaps(f, s)

Fault == faults < MaxFaults /\ faults' = faults + 1
NoFault == UNCHANGED faults

--------------------------------------------------------------------------------
(***************************************************************************)
(* The start of a pod.                                                     *)
(***************************************************************************)
ConsumerOf(p, k) == <<StreamName(opt[p], k), ConsumerName(opt[p], k)>>
Manual(p, k, entity) == ResolveManagementMode(opt[p], k, entity) = "manual"

\* The phase that comes after the last kind of a phase, and its kinds.
FromConsumers(p) == IF DurableKinds(opt[p]) = {} THEN "up" ELSE "consumers"
FromDlq(p) == IF IsDlqEnabled(opt[p]) THEN "dlq" ELSE FromConsumers(p)

After(p) == CASE phase[p] = "streams" -> FromDlq(p)
              [] phase[p] = "dlq" -> FromConsumers(p)
              [] phase[p] = "consumers" -> "up"

KindsOf(p, ph) == CASE ph = "streams" -> StreamKinds(opt[p])
                    [] ph = "dlq" -> {"dlq"}
                    [] ph = "consumers" -> DurableKinds(opt[p])
                    [] OTHER -> {}

\* A kind is done; the start goes on once all are, unless one of them has failed.
Done(p, k) ==
  LET next == IF error[p] # "none" \/ todo[p] # {k} THEN phase[p] ELSE After(p)
  IN /\ phase' = [phase EXCEPT ![p] = next]
     /\ todo' = [todo EXCEPT ![p] = IF next = phase[p] THEN @ \ {k} ELSE KindsOf(p, next)]
     /\ seen' = [seen EXCEPT ![p] = [q \in DOMAIN @ \ {k} |-> @[q]]]
     /\ UNCHANGED <<opt, error, boots>>

\* A kind has failed: the first error is the one that start() reports.
Fails(p, k, why) ==
  /\ error' = [error EXCEPT ![p] = IF @ = "none" THEN why ELSE @]
  /\ todo' = [todo EXCEPT ![p] = @ \ {k}]
  /\ seen' = [seen EXCEPT ![p] = [q \in DOMAIN @ \ {k} |-> @[q]]]
  /\ UNCHANGED <<opt, phase, boots>>

\* A new process: registerHandlers() and the NameResolver's constructor refuse some
\* options, ensureStreams() is next, and nothing at all is needed for core RPC alone.
Boot(p) ==
  /\ phase[p] = "down" /\ error[p] = "none"
  /\ boots[p] < MaxBoots
  /\ boots' = [boots EXCEPT ![p] = @ + 1]
  /\ IF RegistrationFails(opt[p]) \/ ~PrefixesValid(opt[p])
     THEN /\ error' = [error EXCEPT ![p] = "options"]
          /\ UNCHANGED <<phase, todo>>
     ELSE LET first == IF StreamKinds(opt[p]) = {} THEN "up" ELSE "streams"
          IN /\ phase' = [phase EXCEPT ![p] = first]
             /\ todo' = [todo EXCEPT ![p] = KindsOf(p, first)]
             /\ UNCHANGED error
  /\ UNCHANGED <<opt, broker, seen, faults>>

\* The process ends.  Calls that it still has out are lost with it.
Exit(p) ==
  /\ phase[p] # "down" \/ error[p] # "none"
  /\ phase' = [phase EXCEPT ![p] = "down"]
  /\ todo' = [todo EXCEPT ![p] = {}]
  /\ seen' = [seen EXCEPT ![p] = Nothing]
  /\ error' = [error EXCEPT ![p] = "none"]
  /\ UNCHANGED <<opt, broker, boots, faults>>

\* ensureStream(), ensureDlqStream(): the first call.
ReadStream(p, k) ==
  LET name == NameOf(opt[p], k) IN
  /\ k \in todo[p] \ DOMAIN seen[p]
  /\ phase[p] # "consumers"
  /\ ~Manual(p, k, "stream")
  /\ (SharedExclusive /\ k = "broadcast") =>
       \A q \in Pods \ {p} : k \notin DOMAIN seen[q] \/ phase[q] = "consumers"
  /\ LET info == IF name \in DOMAIN streams THEN streams[name] ELSE Nothing
     IN seen' = [seen EXCEPT ![p] = Only(k, info) ++ @]
  /\ UNCHANGED <<opt, broker, phase, todo, error, boots, faults>>

\* The second call, or none: from what the first one returned.
AddStream(p, k, name) ==
  LET config == BuildConfig(opt[p], k) IN
  IF AcceptsAdd(name, config)
  THEN /\ streams' = Only(name, config) ++ streams
       /\ UNCHANGED consumers
       /\ Done(p, k)
  ELSE /\ UNCHANGED broker
       /\ IF name \in DOMAIN streams /\ ~AssertOwnership(opt[p], config, streams[name])
          THEN Fails(p, k, "owned")
          ELSE Fails(p, k, IF name \in DOMAIN streams THEN "api" ELSE "rejected")

UpdateStream(p, k, name, config) ==
  IF AcceptsUpdate(name, config)
  THEN /\ streams' = [streams EXCEPT ![name] = config ++ @]
       /\ UNCHANGED consumers
       /\ Done(p, k)
  ELSE /\ UNCHANGED broker
       /\ Fails(p, k, "rejected")

\* The stream is recreated, which takes its consumers away.
MigrateStream(p, k, name, config) ==
  /\ streams' = [streams EXCEPT ![name] = config ++ @]
  /\ consumers' = [c \in {c \in DOMAIN consumers : c[1] # name} |-> consumers[c]]
  /\ Done(p, k)

WriteStream(p, k) ==
  LET name == NameOf(opt[p], k) IN
  /\ k \in DOMAIN seen[p]
  /\ phase[p] # "consumers"
  /\ IF seen[p][k] = Nothing THEN AddStream(p, k, name)
     ELSE LET do == HandleExistingStream(opt[p], k, seen[p][k])
          IN CASE do.call = "none" -> UNCHANGED broker /\ Done(p, k)
               [] do.call = "update" -> UpdateStream(p, k, name, do.config)
               [] do.call = "migrate" -> MigrateStream(p, k, name, do.config)
               [] OTHER -> UNCHANGED broker /\ Fails(p, k, do.call)
  /\ NoFault

\* Manual management: one look, and the binder's checks.
BindStream(p, k) ==
  LET name == NameOf(opt[p], k)
      binds == /\ name \in DOMAIN streams
               /\ IF k = "dlq" THEN BindsDlqStream(opt[p], streams[name]["subjects"])
                  ELSE BindsStream(opt[p], k, streams[name]["subjects"])
  IN /\ k \in todo[p]
     /\ phase[p] # "consumers"
     /\ Manual(p, k, "stream")
     /\ IF binds THEN Done(p, k) ELSE Fails(p, k, "unbound")
     /\ UNCHANGED <<broker, faults>>

\* ensureConsumer(): info(), then update() or createConsumer().  An existing consumer
\* that is gone by the time of the update is an error; one that is there by the time of
\* the add is used as it is.
ReadConsumer(p, k) ==
  /\ phase[p] = "consumers"
  /\ k \in todo[p] \ DOMAIN seen[p]
  /\ ~Manual(p, k, "consumer")
  /\ seen' = [seen EXCEPT ![p] = Only(k, ConsumerOf(p, k) \in DOMAIN consumers) ++ @]
  /\ UNCHANGED <<opt, broker, phase, todo, error, boots, faults>>

WriteConsumer(p, k) ==
  LET c == ConsumerOf(p, k)
      filters == Filters(opt[p], k)
      there == c \in DOMAIN consumers
  IN /\ phase[p] = "consumers"
     /\ k \in DOMAIN seen[p]
     /\ UNCHANGED streams
     /\ IF ~seen[p][k] /\ there THEN UNCHANGED consumers /\ Done(p, k)
        ELSE IF seen[p][k] = there /\ AcceptsConsumer(c[1], filters)
        THEN consumers' = Only(c, filters) ++ consumers /\ Done(p, k)
        ELSE UNCHANGED consumers /\ Fails(p, k, IF seen[p][k] = there THEN "rejected" ELSE "api")
     /\ NoFault

BindConsumer(p, k) ==
  LET c == ConsumerOf(p, k) IN
  /\ phase[p] = "consumers"
  /\ k \in todo[p]
  /\ Manual(p, k, "consumer")
  /\ IF c \in DOMAIN consumers /\ BindsConsumer(opt[p], k, consumers[c])
     THEN Done(p, k) ELSE Fails(p, k, "unbound")
  /\ UNCHANGED <<broker, faults>>

\* Any call can fail for reasons of its own (a timeout, a lost connection).
CallFails(p, k) ==
  /\ k \in todo[p]
  /\ Fault
  /\ Fails(p, k, "api")
  /\ UNCHANGED broker

--------------------------------------------------------------------------------
(***************************************************************************)
(* While pods are up.                                                      *)
(***************************************************************************)
\* External: somebody deletes a consumer.
DeleteConsumer(c) ==
  /\ Fault
  /\ consumers' = [d \in DOMAIN consumers \ {c} |-> consumers[d]]
  /\ UNCHANGED <<opt, streams, phase, todo, seen, error, boots>>

\* recoverConsumer(): created if it is missing, never updated; an externally managed one
\* is waited for.
RecoverConsumer(p, k) ==
  LET c == ConsumerOf(p, k) IN
  /\ phase[p] = "up"
  /\ k \in DurableKinds(opt[p])
  /\ ~Manual(p, k, "consumer")
  /\ c \notin DOMAIN consumers
  /\ AcceptsConsumer(c[1], Filters(opt[p], k))
  /\ consumers' = Only(c, Filters(opt[p], k)) ++ consumers
  /\ UNCHANGED <<opt, streams, phase, todo, seen, error, boots, faults>>

Next ==
  \/ \E p \in Pods : Boot(p) \/ Exit(p)
  \/ \E p \in Pods : \E k \in todo[p] :
       \/ ReadStream(p, k) \/ WriteStream(p, k) \/ BindStream(p, k)
       \/ ReadConsumer(p, k) \/ WriteConsumer(p, k) \/ BindConsumer(p, k)
       \/ CallFails(p, k)
  \/ \E p \in Pods : \E k \in Kinds : RecoverConsumer(p, k)
  \/ \E c \in DOMAIN consumers : DeleteConsumer(c)

Spec == Init /\ [][Next]_vars

--------------------------------------------------------------------------------
(***************************************************************************)
(* Properties.                                                             *)
(***************************************************************************)
\* The names that clients of this service, and of others where the names are the
\* conventional ones, publish to.
Clients(p, k) ==
  {opt[p]} \cup {opt[q] : q \in {q \in Pods : ~HasCustomPrefix(opt[p], k)
                                             /\ ~HasCustomPrefix(opt[q], k)}}

StoredBy(name, subject) ==
  name \in DOMAIN streams /\ \E s \in streams[name]["subjects"] : Matches(s, subject)

\* A consumer without filters takes everything.
Takes(c, subject) ==
  consumers[c] = {} \/ \E f \in consumers[c] : Matches(f, subject)

\* Pods of one service build the same subjects, and the same filters, for the kinds that
\* both of them have.
PodsAgree ==
  \A s \in Scenarios, p, q \in Pods :
    s.opts[p].svc = s.opts[q].svc =>
      \A k \in StreamKinds(s.opts[p]) \cap StreamKinds(s.opts[q]) :
        /\ Prefix(s.opts[p], k) = Prefix(s.opts[q], k)
        /\ k # "ordered" => Filters(s.opts[p], k) = Filters(s.opts[q], k)

\* The streams that the operator is to provide are there and take what the handlers need,
\* which the binder does not look at.
OperatorProvides ==
  \A s \in Scenarios, p \in Pods : \A k \in StreamKinds(s.opts[p]) :
    LET name == StreamName(s.opts[p], k) IN
    ResolveManagementMode(s.opts[p], k, "stream") = "manual" =>
      /\ name \in DOMAIN s.streams
      /\ \E t \in s.streams[name]["subjects"] : CoversOrEquals(t, FilterSubject(s.opts[p], k))

\* What a client publishes for a handler of a pod that is up is stored by the stream of
\* its kind, is delivered by its consumer and finds that handler; dead letters find
\* their stream (a chain through getSubjects(), the merge of subjects, filter subjects,
\* the binder's checks, the resolver and the client).
UpIsWired ==
  \A p \in {p \in Pods : phase[p] = "up"} :
    /\ \A h \in {h \in opt[p].handlers : h.kind \in StreamKinds(opt[p])} :
         \A client \in Clients(p, h.kind) :
           LET k == h.kind
               subject == ClientSubject(client, opt[p].svc, k, h.pattern)
           IN /\ StoredBy(StreamName(opt[p], k), subject)
              /\ GetHandler(opt[p], subject) = {h}
              /\ (k # "ordered" /\ ConsumerOf(p, k) \in DOMAIN consumers) =>
                   Takes(ConsumerOf(p, k), subject)
    /\ (StreamKinds(opt[p]) # {} /\ IsDlqEnabled(opt[p])) =>
         StoredBy(DlqStreamName(opt[p]), DlqStreamName(opt[p]))

\* A scheduled message of a service whose stream allows schedules waits in the stream of
\* its target, and no consumer takes it before its time: taking it from a workqueue
\* would cancel the schedule (assertScheduleCoverage(), assertScheduleHoldersNotConsumed()).
SchedulesWait ==
  \A p \in {p \in Pods : phase[p] = "up"} :
    \A h \in {h \in opt[p].handlers : h.kind \in StreamKinds(opt[p]) \cap {"ev", "broadcast"}} :
      SchedulingEnabled(opt[p], h.kind) =>
        \A client \in Clients(p, h.kind) :
          LET holder == DispatchEvent(client, opt[p].svc, h.kind, h.pattern, TRUE)
          IN /\ StoredBy(StreamName(opt[p], h.kind), holder)
             /\ \A c \in {c \in DOMAIN consumers : c[1] = StreamName(opt[p], h.kind)} :
                  ~Takes(c, holder)

\* Pods of one service ask for the same subjects.  Who has schedules turned off takes
\* theirs from the stream.
SubjectsAgree ==
  \A s \in Scenarios, p, q \in Pods :
    s.opts[p].svc = s.opts[q].svc =>
      \A k \in StreamKinds(s.opts[p]) \cap StreamKinds(s.opts[q]) :
        GetSubjects(s.opts[p], k) = GetSubjects(s.opts[q], k)

\* No event is taken for a broadcast when its schedule's namespace is looked for.
NamespacesApart ==
  \A s \in Scenarios, p, q \in Pods :
    /\ s.opts[p].svc # "broadcast"
    /\ s.opts[p].svc = s.opts[q].svc =>
         \A subject \in SubjectsOf(s.opts[p], "ev") :
           ~IsPrefix(Prefix(s.opts[q], "broadcast"), subject)

\* No handler is for a subject among the schedules of its stream, and no consumer that was
\* there before filters any, but one that the binder will refuse.
SchedulesApart ==
  \A s \in Scenarios, p \in Pods :
    \A k \in {k \in StreamKinds(s.opts[p]) \cap {"ev", "broadcast"} : SchedulingEnabled(s.opts[p], k)} :
      LET schedules == Append(SchedulePrefix(s.opts[p], k), ">")
          own == <<StreamName(s.opts[p], k), ConsumerName(s.opts[p], k)>>
      IN /\ \A q \in Pods : (k = "broadcast" \/ s.opts[q].svc = s.opts[p].svc) =>
              \A f \in SubjectsOf(s.opts[q], k) : ~Overlaps(f, schedules)
         /\ \A c \in {c \in DOMAIN s.consumers : c[1] = StreamName(s.opts[p], k)} :
              /\ c = own \/ s.consumers[c] # {}
              /\ \A f \in s.consumers[c] :
                   Overlaps(f, schedules) => (c = own /\ CoversOrEquals(f, schedules))

\* The streams of its own that a pod creates and updates.
Provisioned(p) ==
  LET kinds == StreamKinds(opt[p]) \ {"broadcast"}
      all == IF IsDlqEnabled(opt[p]) /\ StreamKinds(opt[p]) # {} THEN kinds \cup {"dlq"} ELSE kinds
  IN {NameOf(opt[p], k) : k \in {k \in all : ~Manual(p, k, "stream")}}

\* Two connections of one service both provision the stream of a kind.
Contested(opts, p, q, k) ==
  /\ k # "broadcast"
  /\ opts[p].svc = opts[q].svc /\ opts[p].conn # opts[q].conn
  /\ \A r \in {p, q} : ResolveManagementMode(opts[r], k, "stream") # "manual"

StampedBy(config, svc) ==
  "owner" \in DOMAIN MetadataOf(config) /\ MetadataOf(config)["owner"][1] = svc

\* Every stream of theirs that is there before is stamped by one of them.  A stream of an
\* earlier version is not, nor is one that another service has stamped: of such a stream
\* both can become the owner, as each looks before the other writes.
StampedWhereContested ==
  \A s \in Scenarios, p, q \in Pods, k \in Kinds \cup {"dlq"} :
    LET name == NameOf(s.opts[p], k) IN
    (Contested(s.opts, p, q, k) /\ name \in DOMAIN s.streams) =>
      StampedBy(s.streams[name], s.opts[p].svc)

\* Two connections of one service that reach the same cluster are never both up with a
\* stream that both provision: one of them fails on the other's stamp, also when both
\* found no stream and raced to create it (assertOwnership(),
\* rethrowAsOwnershipConflict()).
OneOwner ==
  \A p, q \in {p \in Pods : phase[p] = "up"} :
    (opt[p].svc = opt[q].svc /\ opt[p].conn # opt[q].conn) =>
      Provisioned(p) \cap Provisioned(q) = {}

\* The kinds whose streams the service with options o provisions, and the subjects that a
\* stream may come to have: those that it has, and those that a pod gives it.
ProvisionedKinds(o) ==
  {k \in StreamKinds(o) \cup {"dlq"} : ResolveManagementMode(o, k, "stream") # "manual"}

MayHold(s, name) ==
  (IF name \in DOMAIN s.streams THEN s.streams[name]["subjects"] ELSE {}) \cup
  UNION {UNION {BuildConfig(s.opts[p], k)["subjects"] :
                  k \in {k \in ProvisionedKinds(s.opts[p]) : NameOf(s.opts[p], k) = name}}
           : p \in Pods}

\* What a pod sends for a stream overlaps with nothing that another stream may have.
SubjectsApart ==
  \A s \in Scenarios, p \in Pods : \A k \in ProvisionedKinds(s.opts[p]) :
    LET name == NameOf(s.opts[p], k)
        sent == IF k = "broadcast" THEN MayHold(s, name) ELSE BuildConfig(s.opts[p], k)["subjects"]
        names == DOMAIN s.streams \cup {NameOf(s.opts[q], l) : q \in Pods, l \in Kinds \cup {"dlq"}}
    IN \A other \in names \ {name} : \A a \in sent, b \in MayHold(s, other) : ~Overlaps(a, b)

\* Pods of one service ask for the same of what an update cannot change.
ConfigsAgree ==
  \A s \in Scenarios, p, q \in Pods :
    s.opts[p].svc = s.opts[q].svc =>
      /\ s.opts[p].destructive = s.opts[q].destructive
      /\ \A k \in (ProvisionedKinds(s.opts[p]) \cap ProvisionedKinds(s.opts[q])) \ {"broadcast"} :
           LET mine == BuildConfig(s.opts[p], k)
               theirs == BuildConfig(s.opts[q], k)
           IN \A x \in {"storage"} \cup EnableOnly :
                /\ x \in DOMAIN mine <=> x \in DOMAIN theirs
                /\ x \in DOMAIN mine => mine[x] = theirs[x]

\* No update is ever sent that the server must refuse, whatever config the stream was
\* left with: the mutability classes of stream-config-diff.ts are the server's.
NeverRejected == \A p \in Pods : error[p] # "rejected"

\* The keys that the transport and the options write themselves.
OwnKeys ==
  {"owner"} \cup
  UNION {DOMAIN MetadataOf(Overrides(opt[p], k)) : p \in Pods, k \in Kinds \cup {"dlq"}}

\* What is published to the broadcast stream today is stored tomorrow.
SharedSubjectsKept(name) ==
  name = StreamName([svc |-> ""], "broadcast") =>
    \A s \in streams[name]["subjects"] :
      \E t \in streams'[name]["subjects"] : CoversOrEquals(t, s)

NotesKept(name) ==
  \A key \in DOMAIN MetadataOf(streams[name]) \ OwnKeys :
    /\ key \in DOMAIN MetadataOf(streams'[name])
    /\ MetadataOf(streams'[name])[key] = MetadataOf(streams[name])[key]

\* No start of a service takes a subject from the stream that all services share, and
\* none drops the metadata that somebody else has written on a stream
\* (handleExistingStream()).
NothingClobbered ==
  [][\A name \in DOMAIN streams \cap DOMAIN streams' :
       SharedSubjectsKept(name) /\ NotesKept(name)]_vars
================================================================================
