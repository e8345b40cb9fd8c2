------------------------------ MODULE Provisioning ------------------------------
(***************************************************************************)
(* What provisioning wants of a stream or a consumer and what it decides   *)
(* to do about the one it finds: the pure part of stream.provider.ts,      *)
(* stream-config-diff.ts, consumer.provider.ts and infrastructure-binder.ts*)
(* (all under src/src/server/infrastructure/).                             *)
(*                                                                         *)
(* A stream config is a function from properties to values, as the code's  *)
(* is; "subjects" is a set of patterns and "metadata" a function from keys *)
(* to values.  A consumer is the set of its filter subjects, empty when it *)
(* has none.  The pseudo-kind "dlq" is the dead-letter stream.             *)
(***************************************************************************)
EXTENDS Naming

Nothing == [key \in {} |-> ""]
Only(key, value) == [k \in {key} |-> value]

\* The spread of two objects, the left one last: f, and g where f says nothing.
f ++ g == [x \in DOMAIN f \cup DOMAIN g |-> IF x \in DOMAIN f THEN f[x] ELSE g[x]]

NameOf(o, k) == IF k = "dlq" THEN DlqStreamName(o) ELSE StreamName(o, k)

\* The defaults of each kind: a mutable property stands for all the limits.
Defaults(k) ==
  [retention |-> IF k \in {"ev", "cmd"} THEN "workqueue" ELSE "limits",
   storage |-> "file", max_age |-> k]

\* getOverrides(), stripTransportControlled(): retention is not the user's to set.
Overrides(o, k) ==
  LET own == IF k \in DOMAIN o.stream /\ (k = "dlq" \/ HasBlock(o, k))
             THEN o.stream[k] ELSE Nothing
  IN [p \in DOMAIN own \ {"retention"} |-> own[p]]

\* getSubjects(): conventional event streams hold their schedules under a second
\* pattern; with a custom prefix, or for broadcasts, the filter covers them.
GetSubjects(o, k) ==
  {FilterSubject(o, k)} \cup
  IF k = "ev" /\ SchedulingEnabled(o, k) /\ ~HasCustomPrefix(o, k)
  THEN {Append(SchedulePrefix(o, k), ">")} ELSE {}

\* ownershipMetadata(), ownershipStamp(): the broadcast stream is nobody's.
OwnershipMetadata(o, k) ==
  IF k = "broadcast" \/ ResolveManagementMode(o, k, "stream") = "manual" THEN Nothing
  ELSE Only("owner", <<o.svc, o.conn>>)

MetadataOf(config) == IF "metadata" \in DOMAIN config THEN config["metadata"] ELSE Nothing

\* The field is left out when there is nothing to write.
MetadataBlock(metadata) == IF metadata = Nothing THEN Nothing ELSE Only("metadata", metadata)

\* buildConfig() and buildDlqConfig(): the stamp goes over the metadata of the overrides.
BuildConfig(o, k) ==
  LET subjects == IF k = "dlq" THEN {DlqStreamName(o)} ELSE GetSubjects(o, k)
      metadata == OwnershipMetadata(o, k) ++ MetadataOf(Overrides(o, k))
  IN Only("subjects", subjects) ++ (MetadataBlock(metadata) ++ (Overrides(o, k) ++ Defaults(k)))

--------------------------------------------------------------------------------
(***************************************************************************)
(* handleExistingStream() and the comparison it rests on.                  *)
(***************************************************************************)
\* Mutant: ownership is a matter of services only.
AssertOwnershipByService(o, config, current) == TRUE

\* assertOwnership(): another connection of this service has stamped the stream.
AssertOwnership(o, config, current) ==
  LET desired == MetadataOf(config)
      stamped == MetadataOf(current)
  IN \/ "owner" \notin DOMAIN desired \/ "owner" \notin DOMAIN stamped
     \/ stamped["owner"] = desired["owner"]
     \/ stamped["owner"][1] # o.svc

\* Mutant: a subject that is covered or equal goes, and every subject equals itself.
MergeSubjectsToNothing(mine, theirs) ==
  LET merged == mine \cup theirs
  IN {s \in merged : ~\E other \in merged : CoversOrEquals(other, s)}

\* The subjects of a shared stream: everybody's, without the ones another one covers.
MergeSubjects(mine, theirs) ==
  LET merged == mine \cup theirs
  IN {s \in merged : ~\E other \in merged : SubjectCovers(other, s)}

EnableOnly == {"allow_msg_schedules"}

\* Mutant: turning a property off is an update like any other.
ClassifyMutabilityTwoWay(p, current, desired) ==
  CASE p = "retention" -> "transport-controlled"
    [] p = "storage" -> "immutable"
    [] OTHER -> "mutable"

\* classifyMutability().
ClassifyMutability(p, current, desired) ==
  CASE p = "retention" -> "transport-controlled"
    [] p = "storage" -> "immutable"
    [] p \in EnableOnly ->
         IF p \in DOMAIN current /\ current[p] /\ ~desired[p] THEN "immutable" ELSE "enable-only"
    [] OTHER -> "mutable"

\* compareStreamConfig(): only what is desired is compared.
Changes(current, desired) ==
  {p \in DOMAIN desired : p \notin DOMAIN current \/ current[p] # desired[p]}

ChangesOf(current, desired, mutabilities) ==
  {p \in Changes(current, desired) : ClassifyMutability(p, current, desired) \in mutabilities}

\* buildMutableOnlyConfig(): the current values in place of those that cannot change.
BuildMutableOnlyConfig(current, desired) ==
  [p \in DOMAIN desired |->
     IF p \in ChangesOf(current, desired, {"immutable", "transport-controlled"})
     THEN current[p] ELSE desired[p]]

\* The config handleExistingStream() compares: subjects merged on a shared stream, and
\* metadata that the transport did not write kept on all.
Desired(o, k, current) ==
  LET config == BuildConfig(o, k)
      subjects == IF k = "broadcast"
                  THEN MergeSubjects(config["subjects"], current["subjects"])
                  ELSE config["subjects"]
      metadata == MetadataOf(config) ++ MetadataOf(current)
  IN Only("subjects", subjects) ++ (MetadataBlock(metadata) ++ config)

\* handleExistingStream(): the call to make, or the error to throw.
HandleExistingStream(o, k, current) ==
  LET desired == Desired(o, k, current)
      immutable == ChangesOf(current, desired, {"immutable"})
      mutable == ChangesOf(current, desired, {"mutable", "enable-only"})
      Do(call, config) == [call |-> call, config |-> config]
  IN IF ~AssertOwnership(o, BuildConfig(o, k), current) THEN Do("owned", Nothing)
     ELSE IF Changes(current, desired) = {} THEN Do("none", Nothing)
     ELSE IF ChangesOf(current, desired, {"transport-controlled"}) # {} THEN Do("conflict", Nothing)
     ELSE IF immutable = {} THEN Do("update", desired)
     ELSE IF ~o.destructive /\ mutable # {}
          THEN Do("update", BuildMutableOnlyConfig(current, desired))
     ELSE IF ~o.destructive THEN Do("none", Nothing)
     ELSE IF k = "broadcast" THEN Do("shared", Nothing)
     ELSE Do("migrate", desired)

--------------------------------------------------------------------------------
(***************************************************************************)
(* Consumers, and the checks of the binder.                                *)
(***************************************************************************)
\* Mutant: a custom prefix gets the wildcard filter too.
FiltersAlwaysWide(o, k) ==
  IF k = "broadcast" THEN SubjectsOf(o, k) ELSE {FilterSubject(o, k)}

\* ConsumerProvider.buildConfig(), buildCustomPrefixConfig(): exact filters for
\* broadcasts and custom prefixes, one wildcard otherwise.
Filters(o, k) ==
  IF k = "broadcast" \/ HasCustomPrefix(o, k) THEN SubjectsOf(o, k)
  ELSE {FilterSubject(o, k)}

\* filterCoversSubject()
FilterCoversSubject(filters, subject) ==
  filters = {} \/ \E f \in filters : CoversOrEquals(f, subject)

\* assertHandlersCovered()
HandlersCovered(o, k, filters) ==
  \A s \in SubjectsOf(o, k) : FilterCoversSubject(filters, s)

\* assertScheduleHoldersNotConsumed()
HoldersNotConsumed(o, k, filters) ==
  SchedulingEnabled(o, k) =>
    /\ filters # {}
    /\ ~\E f \in filters : CoversOrEquals(f, Append(SchedulePrefix(o, k), ">"))

\* bindConsumer(): what the binder accepts; the warnings are left out.
BindsConsumer(o, k, filters) == HandlersCovered(o, k, filters) /\ HoldersNotConsumed(o, k, filters)

\* bindStream() with assertScheduleCoverage().
BindsStream(o, k, subjects) ==
  SchedulingEnabled(o, k) =>
    \E s \in subjects : CoversOrEquals(s, Append(SchedulePrefix(o, k), ">"))

\* bindDlqStream() with assertDlqSubjectCoverage().
BindsDlqStream(o, subjects) == \E s \in subjects : CoversOrEquals(s, DlqStreamName(o))
================================================================================
