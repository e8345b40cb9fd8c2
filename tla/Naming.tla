--------------------------------- MODULE Naming ---------------------------------
(***************************************************************************)
(* Which names a service gives to its streams, consumers and subjects, and *)
(* how a publisher and the registry of handlers arrive at a subject:       *)
(* name-resolver.ts, pattern-registry.ts, management.ts and dlq-options.ts *)
(* on the server side, jetstream.client.ts and jetstream.record.ts on the  *)
(* client's, jetstream.constants.ts for both.                              *)
(*                                                                         *)
(* A name is the tuple of the parts its text is built from.  The options o *)
(* of an application are a record:                                         *)
(*   svc, conn    service and connection name                              *)
(*   handlers     set of [kind, pattern]; kind "both" is a handler with    *)
(*                extras broadcast and ordered                             *)
(*   rpc          "core" or "jetstream"                                    *)
(*   prefix       custom subjectPrefix of some kinds                       *)
(*   stream       stream overrides of some kinds, property -> value        *)
(*   global, own  provisioning.management ("unset" or a mode), and the     *)
(*                modes set for <<kind, entity>>                           *)
(*   dlq          "unset", "off" or "on"                                   *)
(*   destructive  allowDestructiveMigration                                *)
(***************************************************************************)
EXTENDS Subjects, FiniteSets, SequencesExt

Kinds == {"ev", "cmd", "broadcast", "ordered"}

\* kindOptionsBlock(): the block of commands is there in JetStream mode only.
HasBlock(o, k) == k # "cmd" \/ o.rpc = "jetstream"

\* resolveManagementMode(): the entity's own mode, else the global one, else Auto.
ResolveManagementMode(o, k, entity) ==
  IF <<k, entity>> \in DOMAIN o.own /\ (k = "dlq" \/ HasBlock(o, k)) THEN o.own[<<k, entity>>]
  ELSE IF o.global # "unset" THEN o.global ELSE "auto"

\* isDlqEnabled(): on unless turned off, or left unset under global Manual.
IsDlqEnabled(o) == o.dlq = "on" \/ (o.dlq = "unset" /\ o.global # "manual")

--------------------------------------------------------------------------------
(***************************************************************************)
(* NameResolver.                                                           *)
(***************************************************************************)
HasCustomPrefix(o, k) == k \in DOMAIN o.prefix /\ HasBlock(o, k)

\* normalizePrefix() refuses a prefix without tokens or with ">".
PrefixesValid(o) ==
  \A k \in {k \in Kinds : HasCustomPrefix(o, k)} :
    o.prefix[k] # <<>> /\ \A i \in DOMAIN o.prefix[k] : o.prefix[k][i] # ">"

ConventionPrefix(svc, k) == IF k = "broadcast" THEN <<"broadcast">> ELSE <<svc, k>>

Prefix(o, k) ==
  IF HasCustomPrefix(o, k) THEN o.prefix[k] ELSE ConventionPrefix(o.svc, k)

Subject(o, k, pattern) == Prefix(o, k) \o pattern

FilterSubject(o, k) == Append(Prefix(o, k), ">")

\* conventionSchedulePrefix(), or the custom prefix with the schedule segment.
SchedulePrefix(o, k) ==
  IF HasCustomPrefix(o, k) \/ k = "broadcast" THEN Append(Prefix(o, k), "_sch")
  ELSE <<o.svc, "_sch">>

StreamName(o, k) == IF k = "broadcast" THEN <<"broadcast-stream">> ELSE <<o.svc, k, "stream">>

ConsumerName(o, k) == <<o.svc, k, "consumer">>

DlqStreamName(o) == <<o.svc, "dlq", "stream">>

--------------------------------------------------------------------------------
(***************************************************************************)
(* PatternRegistry.  Its Map is keyed by the full subject, so a second     *)
(* handler with the same subject replaces the first.                       *)
(***************************************************************************)
RegistrationFails(o) == \E h \in o.handlers : h.kind = "both"

PatternsOf(o, k) == {h.pattern : h \in {h \in o.handlers : h.kind = k}}

SubjectsOf(o, k) == {Subject(o, k, p) : p \in PatternsOf(o, k)}

\* getHandler(): an exact look-up.
GetHandler(o, subject) ==
  {h \in o.handlers : h.kind # "both" /\ Subject(o, h.kind, h.pattern) = subject}

\* resolveRequiredKinds(): the streams and durable consumers that the handlers need.
StreamKinds(o) ==
  {k \in Kinds : PatternsOf(o, k) # {} /\ (k = "cmd" => o.rpc = "jetstream")}

DurableKinds(o) == StreamKinds(o) \ {"ordered"}

SchedulingEnabled(o, k) ==
  /\ k \in DOMAIN o.stream
  /\ HasBlock(o, k)
  /\ "allow_msg_schedules" \in DOMAIN o.stream[k]
  /\ o.stream[k]["allow_msg_schedules"]

--------------------------------------------------------------------------------
(***************************************************************************)
(* The client of application o that targets service `to`.                  *)
(***************************************************************************)
\* buildEventSubject(), and the command subject of publish(): a client of its own
\* service goes through the resolver; broadcasts always use the client's own prefix.
ClientSubject(o, to, k, pattern) ==
  IF k = "broadcast" \/ to = o.svc THEN Subject(o, k, pattern)
  ELSE ConventionPrefix(to, k) \o pattern

\* scheduleSubjectBase(): the first kind whose prefix starts the subject gives the
\* schedule namespace; <<>> stands for the error.
ScheduleSubjectBase(o, subject) ==
  LET starts == {k \in {"broadcast", "ev", "ordered"} : IsPrefix(Prefix(o, k), subject)}
      first == IF "broadcast" \in starts THEN "broadcast" ELSE IF "ev" \in starts THEN "ev" ELSE "ordered"
  IN IF starts = {} THEN <<>>
     ELSE SchedulePrefix(o, first) \o
          SubSeq(subject, Len(Prefix(o, first)) + 1, Len(subject))

\* conventionScheduleSubjectBase(): without a resolver, from the parts of the subject.
ConventionScheduleSubjectBase(to, subject) ==
  IF IsPrefix(<<"broadcast">>, subject) THEN <<"broadcast", "_sch">> \o Tail(subject)
  ELSE IF IsPrefix(<<to>>, subject) /\ Len(subject) >= 3
       THEN <<to, "_sch">> \o SubSeq(subject, 3, Len(subject))
  ELSE <<>>

\* buildScheduleSubject(): a suffix of its own for each message.
BuildScheduleSubject(o, to, subject) ==
  LET base == IF to = o.svc THEN ScheduleSubjectBase(o, subject)
              ELSE ConventionScheduleSubjectBase(to, subject)
  IN IF base = <<>> THEN <<>> ELSE Append(base, "nuid")

\* dispatchEvent(): the subject an event goes to; <<>> when emit() throws.  Ordered
\* events cannot be scheduled.
DispatchEvent(o, to, k, pattern, scheduled) ==
  LET subject == ClientSubject(o, to, k, pattern)
  IN IF ~scheduled THEN subject
     ELSE IF k = "ordered" THEN <<>>
     ELSE BuildScheduleSubject(o, to, subject)
================================================================================
