---------------------------- MODULE DeploymentProofs ----------------------------
(***************************************************************************)
(* Proofs about Deployment, for any pods, options and streams left by      *)
(* others: who owns a stream that two connections of one service want,     *)
(* what a start may not take from a stream, that what is published for a   *)
(* pod that is up is stored and delivered, that what is scheduled for it   *)
(* waits in its stream, and that the server takes what a start sends       *)
(* it. All rest on what a pod's look at a stream or consumer (seen) still  *)
(* says when it writes: the owner's stamp, the notes of others, what the   *)
(* stream stores and what the server will not let be changed are as they   *)
(* were, whoever has written meanwhile.                                    *)
(***************************************************************************)
EXTENDS Deployment, FiniteSetTheorems, SequenceTheorems, TLAPS

AllKinds == Kinds \cup {"dlq"}
Shared == <<"broadcast-stream">>

\* Strings: no prover that is used here knows of a literal that it is one.
Token == STRING \cup {"broadcast", ">"}

\* Pod p is between its look at the stream of kind k and the update.
Looking(p, k) == k \in DOMAIN seen[p] /\ phase[p] # "consumers"
Saw(p, k) == Looking(p, k) /\ seen[p][k] # Nothing

PodsTyped ==
  /\ phase \in [Pods -> {"down", "streams", "dlq", "consumers", "up"}]
  /\ todo \in [Pods -> SUBSET AllKinds]
  /\ seen = [p \in Pods |-> seen[p]]
  /\ error \in [Pods -> Errors]
  /\ \A p \in Pods :
       /\ DOMAIN seen[p] \subseteq todo[p]
       /\ todo[p] \subseteq KindsOf(p, phase[p])
       /\ phase[p] = "up" => error[p] = "none"
       /\ \A k \in AllKinds : Looking(p, k) => ~Manual(p, k, "stream")

ServerTyped ==
  /\ \A name \in DOMAIN streams : "subjects" \in DOMAIN streams[name]
  /\ \A c \in DOMAIN consumers : c[1] \in DOMAIN streams

TypeInv == PodsTyped /\ ServerTyped

\* What a pod has seen of a stream is there.
SeenInv ==
  \A p \in Pods, k \in AllKinds : Saw(p, k) => NameOf(opt[p], k) \in DOMAIN streams

\* The kinds of which the start provisions a stream, and those that it is through with.
Wanted(p) ==
  IF IsDlqEnabled(opt[p]) /\ StreamKinds(opt[p]) # {} THEN StreamKinds(opt[p]) \cup {"dlq"}
  ELSE StreamKinds(opt[p])

Finished(p, k) ==
  /\ k \in Wanted(p) /\ error[p] = "none"
  /\ \/ phase[p] = "streams" /\ k \in StreamKinds(opt[p]) \ todo[p]
     \/ phase[p] = "dlq" /\ k # "dlq"
     \/ phase[p] \in {"consumers", "up"}

Stamp(config) == MetadataOf(config)["owner"]

\* A contested stream is stamped by the service, and never again by another connection:
\* what was seen is what is there, and who is through with it is its owner.
StampInv ==
  \A p, q \in Pods, k \in AllKinds :
    LET name == NameOf(opt[p], k) IN
    Contested(opt, p, q, k) =>
      /\ name \in DOMAIN streams => StampedBy(streams[name], opt[p].svc)
      /\ Saw(p, k) => /\ StampedBy(seen[p][k], opt[p].svc)
                      /\ Stamp(seen[p][k]) = Stamp(streams[name])
      /\ Finished(p, k) => /\ name \in DOMAIN streams
                           /\ Stamp(streams[name]) = <<opt[p].svc, opt[p].conn>>

\* Two configs have the same notes: metadata that no options name.
SameNotes(c, d) ==
  /\ DOMAIN MetadataOf(c) \ OwnKeys = DOMAIN MetadataOf(d) \ OwnKeys
  /\ \A key \in DOMAIN MetadataOf(c) \ OwnKeys : MetadataOf(c)[key] = MetadataOf(d)[key]

NotesInv ==
  \A p \in Pods, k \in AllKinds :
    Saw(p, k) => SameNotes(seen[p][k], streams[NameOf(opt[p], k)])

\* The shared stream is looked at by one pod at a time, and is as that pod saw it.
SharedInv ==
  /\ \A p \in Pods : \A k \in DOMAIN opt[p].prefix : opt[p].prefix[k] \in Seq(Token)
  /\ Shared \in DOMAIN streams =>
       /\ IsFiniteSet(streams[Shared]["subjects"])
       /\ streams[Shared]["subjects"] \subseteq Seq(Token)
  /\ \A p, q \in Pods : Looking(p, "broadcast") /\ Looking(q, "broadcast") => p = q
  /\ \A p \in Pods : Saw(p, "broadcast") => seen[p]["broadcast"] = streams[Shared]

--------------------------------------------------------------------------------
(***************************************************************************)
(* The operators of the model.                                             *)
(***************************************************************************)
\* What the spread of two objects has, and where it comes from.
LEMMA Spread ==
  ASSUME NEW f, NEW g
  PROVE  /\ \A x : x \in DOMAIN (f ++ g) <=> x \in DOMAIN f \/ x \in DOMAIN g
         /\ \A x \in DOMAIN f : (f ++ g)[x] = f[x]
         /\ \A x \in DOMAIN g \ DOMAIN f : (f ++ g)[x] = g[x]
BY DEF ++

\* An object with a single property.
LEMMA Single ==
  ASSUME NEW key, NEW value
  PROVE  /\ \A x : x \in DOMAIN Only(key, value) <=> x = key
         /\ Only(key, value)[key] = value
BY DEF Only

\* Names tell services and kinds apart, but for the shared stream.
LEMMA NamesDiffer ==
  ASSUME NEW o, NEW u, NEW k \in AllKinds, NEW l \in AllKinds
  PROVE  /\ NameOf(o, k) = Shared <=> k = "broadcast"
         /\ NameOf(o, k) = NameOf(u, l) => k = l /\ (k # "broadcast" => o.svc = u.svc)
<1>1. /\ k \in {"dlq", "ev", "cmd", "broadcast", "ordered"}
      /\ l \in {"dlq", "ev", "cmd", "broadcast", "ordered"}
  BY DEF AllKinds, Kinds
<1>2. \A v, i, w, j : <<v, i, "stream">> = <<w, j, "stream">> => v = w /\ i = j
  OBVIOUS
<1>3. \A v, i : <<v, i, "stream">> # Shared
  BY DEF Shared
<1>4. NameOf(o, k) = IF k = "broadcast" THEN Shared ELSE <<o.svc, k, "stream">>
  BY <1>1 DEF NameOf, StreamName, DlqStreamName, Shared
<1>5. NameOf(u, l) = IF l = "broadcast" THEN Shared ELSE <<u.svc, l, "stream">>
  BY <1>1 DEF NameOf, StreamName, DlqStreamName, Shared
<1> QED BY <1>2, <1>3, <1>4, <1>5

\* subjectCovers() orders subjects strictly (subject-utils.ts).
LEMMA CoversAntisymmetric ==
  ASSUME NEW a \in Seq(Token), NEW b \in Seq(Token), SubjectCovers(a, b)
  PROVE  ~SubjectCovers(b, a)
<1> SUFFICES ASSUME SubjectCovers(b, a) PROVE FALSE
  OBVIOUS
<1>1. Len(a) \in Nat /\ Len(b) \in Nat /\ Fixed(a) \in 0 .. Len(a) /\ Fixed(b) \in 0 .. Len(b)
  BY DEF Fixed, Tailed
<1>2. Len(a) = Len(b)
  BY <1>1 DEF SubjectCovers
<1>3. \A i \in 1 .. Fixed(a) : b[i] # ">" /\ a[i] \in {"*", b[i]}
  BY DEF SubjectCovers
<1>4. \A i \in 1 .. Fixed(b) : a[i] # ">" /\ b[i] \in {"*", a[i]}
  BY DEF SubjectCovers
<1>5. Tailed(a) <=> Tailed(b)
  BY <1>1, <1>2, <1>3, <1>4 DEF Fixed, Tailed
<1>6. \A i \in 1 .. Len(a) : a[i] = b[i]
  BY <1>1, <1>2, <1>3, <1>4, <1>5 DEF Fixed, Tailed
<1> QED BY <1>2, <1>6 DEF SubjectCovers

LEMMA CoversTransitive ==
  ASSUME NEW a \in Seq(Token), NEW b \in Seq(Token), NEW c \in Seq(Token),
         SubjectCovers(a, b), SubjectCovers(b, c)
  PROVE  SubjectCovers(a, c)
<1>1. Len(a) \in Nat /\ Len(b) \in Nat /\ Len(c) \in Nat
  OBVIOUS
<1>2. a # c
  BY CoversAntisymmetric
<1>3. ASSUME NEW i \in 1 .. Fixed(a)
      PROVE  i <= Len(c) /\ c[i] # ">" /\ a[i] \in {"*", c[i]}
  <2>1. i <= Len(b) /\ b[i] # ">" /\ a[i] \in {"*", b[i]}
    BY <1>3 DEF SubjectCovers
  <2>2. i \in 1 .. Fixed(b)
    BY <1>1, <1>3, <2>1 DEF Fixed, Tailed
  <2> QED BY <2>1, <2>2 DEF SubjectCovers
<1>4. IF Tailed(a) THEN Len(a) <= Len(c) ELSE Len(a) = Len(c)
  <2>1. Len(b) <= Len(c)
    BY <1>1 DEF SubjectCovers
  <2>2. CASE Tailed(a)
    BY <1>1, <2>1, <2>2 DEF SubjectCovers
  <2>3. CASE ~Tailed(a)
    <3>1. Len(a) = Len(b) /\ Fixed(a) = Len(a)
      BY <2>3 DEF SubjectCovers, Fixed
    <3>2. ~Tailed(b)
      BY <1>1, <3>1 DEF SubjectCovers, Tailed
    <3> QED BY <2>3, <3>1, <3>2 DEF SubjectCovers
  <2> QED BY <2>2, <2>3
<1> QED BY <1>2, <1>3, <1>4 DEF SubjectCovers

\* Among finite sets some contain none of the others.
LEMMA SmallestSet ==
  ASSUME NEW M, NEW T, T \subseteq FiniteSubsetsOf(M), T # {}
  PROVE  \E D \in T : \A E \in T : ~(E \subseteq D /\ E # D)
<1>1. IsWellFoundedOn(StrictSubsetOrdering(M), FiniteSubsetsOf(M))
  BY FS_StrictSubsetOrderingWellFounded
<1>2. \E D \in T : \A E \in T : ~(<<E, D>> \in StrictSubsetOrdering(M))
  BY <1>1, WFMin
<1> QED BY <1>2 DEF StrictSubsetOrdering, FiniteSubsetsOf

\* Of finitely many subjects each is covered by, or is, one that no other covers: the
\* merge of subjects stores what both sides stored.
LEMMA MergeCovers ==
  ASSUME NEW mine, NEW theirs, IsFiniteSet(mine), IsFiniteSet(theirs),
         mine \subseteq Seq(Token), theirs \subseteq Seq(Token), NEW s \in mine \cup theirs
  PROVE  \E t \in MergeSubjects(mine, theirs) : CoversOrEquals(t, s)
<1> DEFINE M == mine \cup theirs
           Above(t) == {u \in M : CoversOrEquals(u, t)}
           T == {Above(t) : t \in Above(s)}
<1>1. IsFiniteSet(M) /\ M \subseteq Seq(Token) /\ s \in M
  BY FS_Union
<1>2. \A t \in M : Above(t) \in FiniteSubsetsOf(M) /\ t \in Above(t)
  BY <1>1, FS_Subset DEF FiniteSubsetsOf, CoversOrEquals
<1>3. T \subseteq FiniteSubsetsOf(M) /\ T # {}
  BY <1>1, <1>2
<1>4. PICK D \in T : \A E \in T : ~(E \subseteq D /\ E # D)
  <2> HIDE DEF T, M
  <2> QED BY <1>3, SmallestSet
<1>5. PICK t \in Above(s) : D = Above(t)
  BY <1>4
<1>6. ASSUME NEW u \in M, SubjectCovers(u, t) PROVE FALSE
  <2>1. t \in M /\ (t = s \/ SubjectCovers(t, s))
    BY <1>5 DEF CoversOrEquals
  <2>2. u \in Above(s)
    BY <1>1, <1>6, <2>1, CoversTransitive DEF CoversOrEquals
  <2>3. Above(u) \subseteq Above(t)
    <3> SUFFICES ASSUME NEW v \in M, v = u \/ SubjectCovers(v, u) PROVE v = t \/ SubjectCovers(v, t)
      BY DEF CoversOrEquals
    <3> QED BY <1>1, <1>6, <2>1, CoversTransitive
  <2>4. t \notin Above(u)
    BY <1>1, <1>6, <2>1, CoversAntisymmetric DEF CoversOrEquals, SubjectCovers
  <2>5. Above(u) # Above(t)
    BY <2>1, <2>4, <1>2
  <2>6. Above(u) \in T
    BY <2>2
  <2> HIDE DEF Above, T
  <2> QED BY <1>4, <1>5, <2>3, <2>5, <2>6
<1>7. t \in MergeSubjects(mine, theirs)
  BY <1>5, <1>6 DEF MergeSubjects
<1> QED BY <1>5, <1>7

--------------------------------------------------------------------------------
(***************************************************************************)
(* The configs that a start sends.                                         *)
(***************************************************************************)
\* A config says what its metadata says, and has subjects.
LEMMA Metadata ==
  ASSUME NEW metadata, NEW subjects, NEW rest
  PROVE  LET config == Only("subjects", subjects) ++ (MetadataBlock(metadata) ++ rest) IN
         /\ "subjects" \in DOMAIN config /\ config["subjects"] = subjects
         /\ metadata # Nothing => "metadata" \in DOMAIN config
         /\ "metadata" \in DOMAIN config <=>
              metadata # Nothing \/ "metadata" \in DOMAIN rest
         /\ MetadataOf(config) = IF metadata # Nothing THEN metadata ELSE MetadataOf(rest)
<1> DEFINE block == MetadataBlock(metadata)
           inner == block ++ rest
           config == Only("subjects", subjects) ++ inner
<1>1. /\ "subjects" \in DOMAIN config /\ config["subjects"] = subjects
      /\ "metadata" \in DOMAIN config <=> "metadata" \in DOMAIN inner
      /\ "metadata" \in DOMAIN inner => config["metadata"] = inner["metadata"]
  <2> HIDE DEF inner
  <2> QED BY Single, Spread
<1>2. CASE metadata # Nothing
  <2>1. "metadata" \in DOMAIN block /\ block["metadata"] = metadata
    BY <1>2, Single DEF MetadataBlock
  <2>2. "metadata" \in DOMAIN inner /\ inner["metadata"] = metadata
    <3> HIDE DEF block
    <3> QED BY <2>1, Spread
  <2> HIDE DEF config, inner
  <2>3. /\ "subjects" \in DOMAIN config /\ config["subjects"] = subjects
        /\ "metadata" \in DOMAIN config /\ MetadataOf(config) = metadata
    BY <1>1, <2>2 DEF MetadataOf
  <2> QED BY <1>2, <2>3 DEF config, inner
<1>3. CASE metadata = Nothing
  <2>1. \A x : x \notin DOMAIN block
    BY <1>3 DEF MetadataBlock, Nothing
  <2>2. /\ "metadata" \in DOMAIN inner <=> "metadata" \in DOMAIN rest
        /\ "metadata" \in DOMAIN inner => inner["metadata"] = rest["metadata"]
    <3> HIDE DEF block
    <3> QED BY <2>1, Spread
  <2> HIDE DEF config, inner
  <2>3. /\ "subjects" \in DOMAIN config /\ config["subjects"] = subjects
        /\ "metadata" \in DOMAIN config <=> "metadata" \in DOMAIN rest
        /\ MetadataOf(config) = MetadataOf(rest)
    BY <1>1, <2>2 DEF MetadataOf
  <2> QED BY <1>3, <2>3 DEF config, inner
<1> QED BY <1>2, <1>3

\* What buildConfig() writes into the metadata: the stamp, where there is an owner, and
\* what the options say.
LEMMA ConfigBuilt ==
  ASSUME NEW o, NEW k \in AllKinds
  PROVE  /\ "subjects" \in DOMAIN BuildConfig(o, k)
         /\ BuildConfig(o, k)["subjects"] =
              IF k = "dlq" THEN {DlqStreamName(o)} ELSE GetSubjects(o, k)
         /\ DOMAIN MetadataOf(BuildConfig(o, k)) \subseteq
              {"owner"} \cup DOMAIN MetadataOf(Overrides(o, k))
         /\ k # "broadcast" /\ ResolveManagementMode(o, k, "stream") # "manual" =>
              /\ "owner" \in DOMAIN MetadataOf(BuildConfig(o, k))
              /\ Stamp(BuildConfig(o, k)) = <<o.svc, o.conn>>
<1> DEFINE given == MetadataOf(Overrides(o, k))
           own == OwnershipMetadata(o, k)
           rest == Overrides(o, k) ++ Defaults(k)
           subjects == IF k = "dlq" THEN {DlqStreamName(o)} ELSE GetSubjects(o, k)
           built == BuildConfig(o, k)
<1>1. /\ "subjects" \in DOMAIN built /\ built["subjects"] = subjects
      /\ MetadataOf(built) = IF own ++ given # Nothing THEN own ++ given ELSE MetadataOf(rest)
  <2> HIDE DEF rest, given, own
  <2> QED BY Metadata DEF BuildConfig, rest, given, own
<1>2. MetadataOf(rest) = given
  <2>1. "metadata" \notin DOMAIN Defaults(k)
    BY DEF Defaults
  <2> QED BY <2>1, Spread DEF MetadataOf
<1>3. DOMAIN own \subseteq {"owner"}
  BY Single DEF OwnershipMetadata, Nothing
<1>4. DOMAIN (own ++ given) \subseteq {"owner"} \cup DOMAIN given
  <2> HIDE DEF own, given
  <2> QED BY <1>3, Spread
<1>5. ASSUME k # "broadcast", ResolveManagementMode(o, k, "stream") # "manual"
      PROVE  "owner" \in DOMAIN MetadataOf(built) /\ Stamp(built) = <<o.svc, o.conn>>
  <2>1. own = Only("owner", <<o.svc, o.conn>>)
    BY <1>5 DEF OwnershipMetadata
  <2>2. "owner" \in DOMAIN own /\ own["owner"] = <<o.svc, o.conn>>
    BY <2>1, Single
  <2>3. "owner" \in DOMAIN (own ++ given) /\ (own ++ given)["owner"] = <<o.svc, o.conn>>
    <3> HIDE DEF own, given
    <3> QED BY <2>2, Spread
  <2>4. own ++ given # Nothing
    BY <2>3 DEF Nothing
  <2> HIDE DEF own, given, built
  <2> QED BY <1>1, <2>3, <2>4 DEF Stamp
<1> HIDE DEF own, given, built, rest
<1>6. DOMAIN MetadataOf(built) \subseteq {"owner"} \cup DOMAIN given
  BY <1>1, <1>2, <1>4
<1>7. built["subjects"] = IF k = "dlq" THEN {DlqStreamName(o)} ELSE GetSubjects(o, k)
  BY <1>1
<1> QED BY <1>1, <1>5, <1>6, <1>7 DEF built, given

\* What handleExistingStream() wants: its own metadata over what it found.
LEMMA WhatIsDesired ==
  ASSUME NEW o, NEW k \in AllKinds, NEW current, NEW built, NEW desired,
         built = BuildConfig(o, k), desired = Desired(o, k, current)
  PROVE  /\ "subjects" \in DOMAIN desired
         /\ k = "broadcast" =>
              desired["subjects"] = MergeSubjects(GetSubjects(o, k), current["subjects"])
         /\ k # "broadcast" => desired["subjects"] = built["subjects"]
         /\ \A key : key \in DOMAIN MetadataOf(desired) <=>
                    key \in DOMAIN MetadataOf(built) \/ key \in DOMAIN MetadataOf(current)
         /\ \A key \in DOMAIN MetadataOf(desired) : "metadata" \in DOMAIN desired
         /\ \A key \in DOMAIN MetadataOf(built) : MetadataOf(desired)[key] = MetadataOf(built)[key]
         /\ \A key \in DOMAIN MetadataOf(current) \ DOMAIN MetadataOf(built) :
              MetadataOf(desired)[key] = MetadataOf(current)[key]
<1> DEFINE found == MetadataOf(current)
           mine == MetadataOf(built)
           subjects == IF k = "broadcast" THEN MergeSubjects(built["subjects"], current["subjects"])
                       ELSE built["subjects"]
<1>1. /\ "subjects" \in DOMAIN desired /\ desired["subjects"] = subjects
      /\ mine ++ found # Nothing => "metadata" \in DOMAIN desired
      /\ MetadataOf(desired) = IF mine ++ found # Nothing THEN mine ++ found ELSE mine
  BY Metadata DEF Desired
<1>2. k = "broadcast" => built["subjects"] = GetSubjects(o, k)
  BY ConfigBuilt
<1> HIDE DEF mine, found
<1>3. /\ \A x : x \in DOMAIN (mine ++ found) <=> x \in DOMAIN mine \/ x \in DOMAIN found
      /\ \A key \in DOMAIN mine : (mine ++ found)[key] = mine[key]
      /\ \A key \in DOMAIN found \ DOMAIN mine : (mine ++ found)[key] = found[key]
  BY Spread
<1>4. mine ++ found = Nothing => DOMAIN mine = {} /\ DOMAIN found = {}
  BY <1>3 DEF Nothing
<1>5. /\ \A key : key \in DOMAIN MetadataOf(desired) <=>
                 key \in DOMAIN mine \/ key \in DOMAIN found
      /\ \A key \in DOMAIN MetadataOf(desired) : "metadata" \in DOMAIN desired
      /\ \A key \in DOMAIN mine : MetadataOf(desired)[key] = mine[key]
      /\ \A key \in DOMAIN found \ DOMAIN mine : MetadataOf(desired)[key] = found[key]
  BY <1>1, <1>3, <1>4
<1> QED BY <1>1, <1>2, <1>5 DEF mine, found

\* Nothing is sent to a stream of another connection, the shared one is never recreated,
\* and nothing is sent at all only if the subjects are as they should be.
LEMMA WhenSent ==
  ASSUME NEW o, NEW k \in AllKinds, NEW current, NEW do,
         do = HandleExistingStream(o, k, current),
         do.call \in {"none", "update", "migrate"}
  PROVE  /\ AssertOwnership(o, BuildConfig(o, k), current)
         /\ k = "broadcast" => do.call # "migrate"
         /\ do.call = "none" => current["subjects"] = Desired(o, k, current)["subjects"]
<1>1. PICK desired : desired = Desired(o, k, current)
  OBVIOUS
<1>2. "subjects" \in DOMAIN desired
  BY <1>1, WhatIsDesired
<1>3. ASSUME do.call = "none"
      PROVE  Changes(current, desired) = {} \/ ChangesOf(current, desired, {"mutable", "enable-only"}) = {}
  BY <1>1, <1>3 DEF HandleExistingStream
<1>4. ClassifyMutability("subjects", current, desired) = "mutable"
  BY DEF ClassifyMutability, EnableOnly
<1>5. ASSUME do.call = "none"
      PROVE  "subjects" \notin Changes(current, desired)
  BY <1>3, <1>4, <1>5 DEF ChangesOf
<1> QED BY <1>1, <1>2, <1>5 DEF HandleExistingStream, Changes

\* What handleExistingStream() sends has the subjects and the metadata it wants, changed
\* or not: neither is immutable.
LEMMA WhatIsSent ==
  ASSUME NEW o, NEW k \in AllKinds, NEW current, NEW do, NEW desired, NEW sent,
         do = HandleExistingStream(o, k, current), do.call \in {"update", "migrate"},
         desired = Desired(o, k, current), sent = do.config
  PROVE  /\ "subjects" \in DOMAIN sent
         /\ sent["subjects"] = desired["subjects"]
         /\ "metadata" \in DOMAIN sent <=> "metadata" \in DOMAIN desired
         /\ "metadata" \in DOMAIN desired => sent["metadata"] = desired["metadata"]
<1> DEFINE part == BuildMutableOnlyConfig(current, desired)
<1>1. "subjects" \in DOMAIN desired
  BY WhatIsDesired
<1>2. \A p \in {"subjects", "metadata"} :
        p \notin ChangesOf(current, desired, {"immutable", "transport-controlled"})
  BY DEF ChangesOf, ClassifyMutability, EnableOnly
<1>3. /\ "subjects" \in DOMAIN part /\ part["subjects"] = desired["subjects"]
      /\ "metadata" \in DOMAIN part <=> "metadata" \in DOMAIN desired
      /\ "metadata" \in DOMAIN desired => part["metadata"] = desired["metadata"]
  BY <1>1, <1>2 DEF BuildMutableOnlyConfig
<1> HIDE DEF part
<1>4. sent \in {desired, part}
  BY DEF HandleExistingStream, part
<1> QED BY <1>1, <1>3, <1>4

\* A stream after such an update: the metadata of the options, then what was seen, and
\* nothing that neither those nor the stream had.
Rewritten(o, k, built, current, there, new) ==
  /\ "subjects" \in DOMAIN new
  /\ k = "broadcast" =>
       new["subjects"] = MergeSubjects(GetSubjects(o, k), current["subjects"])
  /\ k # "broadcast" => new["subjects"] = built["subjects"]
  /\ \A key \in DOMAIN MetadataOf(built) :
       key \in DOMAIN MetadataOf(new) /\ MetadataOf(new)[key] = MetadataOf(built)[key]
  /\ \A key \in DOMAIN MetadataOf(current) \ DOMAIN MetadataOf(built) :
       key \in DOMAIN MetadataOf(new) /\ MetadataOf(new)[key] = MetadataOf(current)[key]
  /\ \A key \in DOMAIN MetadataOf(new) :
       \/ key \in DOMAIN MetadataOf(built)
       \/ key \in DOMAIN MetadataOf(current)
       \/ key \in DOMAIN MetadataOf(there)

LEMMA StreamRewritten ==
  ASSUME NEW o, NEW k \in AllKinds, NEW current, NEW there, NEW do, NEW built, NEW new,
         do = HandleExistingStream(o, k, current), do.call \in {"update", "migrate"},
         built = BuildConfig(o, k), new = do.config ++ there
  PROVE  Rewritten(o, k, built, current, there, new)
<1>1. PICK desired, sent : desired = Desired(o, k, current) /\ sent = do.config
  OBVIOUS
<1>2. /\ "subjects" \in DOMAIN sent
      /\ sent["subjects"] = desired["subjects"]
      /\ "metadata" \in DOMAIN sent <=> "metadata" \in DOMAIN desired
      /\ "metadata" \in DOMAIN desired => sent["metadata"] = desired["metadata"]
  BY <1>1, WhatIsSent
<1>3. "subjects" \in DOMAIN new /\ new["subjects"] = desired["subjects"]
  BY <1>1, <1>2, Spread
<1>4. MetadataOf(new) =
        IF "metadata" \in DOMAIN desired THEN MetadataOf(desired) ELSE MetadataOf(there)
  BY <1>1, <1>2, Spread DEF MetadataOf
<1>5. /\ k = "broadcast" =>
           desired["subjects"] = MergeSubjects(GetSubjects(o, k), current["subjects"])
      /\ k # "broadcast" => desired["subjects"] = built["subjects"]
      /\ \A key : key \in DOMAIN MetadataOf(desired) <=>
                 key \in DOMAIN MetadataOf(built) \/ key \in DOMAIN MetadataOf(current)
      /\ \A key \in DOMAIN MetadataOf(desired) : "metadata" \in DOMAIN desired
      /\ \A key \in DOMAIN MetadataOf(built) : MetadataOf(desired)[key] = MetadataOf(built)[key]
      /\ \A key \in DOMAIN MetadataOf(current) \ DOMAIN MetadataOf(built) :
           MetadataOf(desired)[key] = MetadataOf(current)[key]
  BY <1>1, WhatIsDesired
<1>6. CASE "metadata" \in DOMAIN desired
  BY <1>3, <1>4, <1>5, <1>6 DEF Rewritten
<1>7. CASE "metadata" \notin DOMAIN desired
  BY <1>3, <1>4, <1>5, <1>7 DEF Rewritten
<1> QED BY <1>6, <1>7

--------------------------------------------------------------------------------
(***************************************************************************)
(* The steps of the pods.                                                  *)
(***************************************************************************)
\* The options never change.
LEMMA OptionsStay ==
  ASSUME [Next]_vars
  PROVE  opt' = opt
<1>1. ASSUME NEW p \in Pods, NEW k \in todo[p], NEW name, NEW config,
             \/ AddStream(p, k, name)
             \/ UpdateStream(p, k, name, config)
             \/ MigrateStream(p, k, name, config)
      PROVE  opt' = opt
  BY <1>1 DEF AddStream, UpdateStream, MigrateStream, Done, Fails
<1>2. ASSUME NEW p \in Pods, NEW k \in todo[p],
             \/ ReadStream(p, k) \/ BindStream(p, k) \/ ReadConsumer(p, k)
             \/ WriteConsumer(p, k) \/ BindConsumer(p, k) \/ CallFails(p, k)
      PROVE  opt' = opt
  BY <1>2 DEF ReadStream, BindStream, ReadConsumer, WriteConsumer, BindConsumer, CallFails, Done, Fails
<1>3. ASSUME NEW p \in Pods, NEW k \in todo[p], WriteStream(p, k)
      PROVE  opt' = opt
  <2>1. CASE seen[p][k] = Nothing
    BY <1>1, <1>3, <2>1 DEF WriteStream
  <2>2. CASE seen[p][k] # Nothing
    <3> DEFINE do == HandleExistingStream(opt[p], k, seen[p][k])
    <3> HIDE DEF do
    <3>1. \/ Done(p, k) \/ Fails(p, k, do.call)
          \/ UpdateStream(p, k, NameOf(opt[p], k), do.config)
          \/ MigrateStream(p, k, NameOf(opt[p], k), do.config)
      BY <1>3, <2>2 DEF WriteStream, do
    <3> QED BY <1>1, <3>1 DEF Done, Fails
  <2> QED BY <2>1, <2>2
<1>4. CASE UNCHANGED vars
  BY <1>4 DEF vars
<1> QED BY <1>2, <1>3, <1>4 DEF Next, Boot, Exit, RecoverConsumer, DeleteConsumer

\* Which kinds a phase has, and which phase follows.
LEMMA Phases ==
  ASSUME NEW p \in Pods
  PROVE  /\ \A ph \in {"streams", "dlq", "consumers"} : KindsOf(p, ph) \subseteq AllKinds
         /\ KindsOf(p, "down") = {} /\ KindsOf(p, "up") = {}
         /\ phase[p] = "streams" => After(p) \in {"dlq", "consumers", "up"}
         /\ phase[p] = "dlq" => After(p) \in {"consumers", "up"}
         /\ phase[p] = "consumers" => After(p) = "up"
         /\ phase[p] = "streams" /\ IsDlqEnabled(opt[p]) => After(p) = "dlq"
BY DEF KindsOf, After, FromDlq, FromConsumers, StreamKinds, DurableKinds, AllKinds, Kinds

\* A pod that is through with a kind, or has failed, has forgotten it.
LEMMA DoneTyped ==
  ASSUME PodsTyped, NEW p \in Pods, NEW k \in todo[p], Done(p, k)
  PROVE  PodsTyped' /\ k \notin DOMAIN seen'[p]
<1> DEFINE next == IF error[p] # "none" \/ todo[p] # {k} THEN phase[p] ELSE After(p)
<1>1. /\ phase' = [phase EXCEPT ![p] = next]
      /\ todo' = [todo EXCEPT ![p] = IF next = phase[p] THEN @ \ {k} ELSE KindsOf(p, next)]
      /\ seen' = [seen EXCEPT ![p] = [q \in DOMAIN @ \ {k} |-> @[q]]]
      /\ opt' = opt /\ error' = error
  BY DEF Done
<1>2. phase[p] \in {"streams", "dlq", "consumers"}
  BY Phases DEF PodsTyped
<1>3. next \in {"streams", "dlq", "consumers", "up"}
  BY <1>2, Phases
<1>4. /\ phase' \in [Pods -> {"down", "streams", "dlq", "consumers", "up"}]
      /\ phase'[p] = next /\ \A q \in Pods \ {p} : phase'[q] = phase[q]
  BY <1>1, <1>3 DEF PodsTyped
<1>5. IF next = phase[p] THEN todo[p] \ {k} \in SUBSET AllKinds ELSE KindsOf(p, next) \in SUBSET AllKinds
  BY <1>3, Phases DEF PodsTyped
<1>6. /\ todo' \in [Pods -> SUBSET AllKinds]
      /\ todo'[p] = IF next = phase[p] THEN todo[p] \ {k} ELSE KindsOf(p, next)
      /\ \A q \in Pods \ {p} : todo'[q] = todo[q]
  BY <1>1, <1>5 DEF PodsTyped
<1>7. /\ seen' = [q \in Pods |-> seen'[q]]
      /\ DOMAIN seen'[p] = DOMAIN seen[p] \ {k}
      /\ \A q \in Pods \ {p} : seen'[q] = seen[q]
  BY <1>1 DEF PodsTyped
<1>8. \A q \in Pods : KindsOf(q, phase[q])' = KindsOf(q, phase'[q])
  BY <1>1 DEF KindsOf
<1>9. next # phase[p] => todo[p] = {k} /\ error[p] = "none" /\ DOMAIN seen'[p] = {}
  BY <1>7 DEF PodsTyped
<1> HIDE DEF next
<1>10. ASSUME NEW q \in Pods
       PROVE  /\ DOMAIN seen'[q] \subseteq todo'[q]
              /\ todo'[q] \subseteq KindsOf(q, phase[q])'
              /\ phase'[q] = "up" => error'[q] = "none"
              /\ \A l \in AllKinds : Looking(q, l)' => ~Manual(q, l, "stream")'
  <2>1. CASE q # p
    BY <1>1, <1>4, <1>6, <1>7, <1>8, <2>1 DEF PodsTyped, Looking, Manual
  <2>2. CASE q = p /\ next = phase[p]
    <3>1. phase'[p] = phase[p] /\ todo'[p] = todo[p] \ {k}
      BY <1>4, <1>6, <2>2
    <3> QED BY <1>1, <1>7, <1>8, <2>2, <3>1 DEF PodsTyped, Looking, Manual
  <2>3. CASE q = p /\ next # phase[p]
    <3>1. /\ todo'[p] = KindsOf(p, phase'[p])
          /\ DOMAIN seen'[p] = {} /\ error'[p] = "none"
      BY <1>1, <1>4, <1>6, <1>9, <2>3
    <3> QED BY <1>8, <2>3, <3>1 DEF Looking
  <2> QED BY <2>1, <2>2, <2>3
<1>11. error' \in [Pods -> Errors]
  BY <1>1 DEF PodsTyped
<1> QED BY <1>4, <1>6, <1>7, <1>10, <1>11 DEF PodsTyped

LEMMA FailsTyped ==
  ASSUME PodsTyped, NEW p \in Pods, NEW k \in todo[p], NEW why \in Errors \ {"none"},
         Fails(p, k, why)
  PROVE  PodsTyped' /\ k \notin DOMAIN seen'[p] /\ error'[p] # "none"
<1>1. /\ error' = [error EXCEPT ![p] = IF @ = "none" THEN why ELSE @]
      /\ todo' = [todo EXCEPT ![p] = @ \ {k}]
      /\ seen' = [seen EXCEPT ![p] = [q \in DOMAIN @ \ {k} |-> @[q]]]
      /\ opt' = opt /\ phase' = phase
  BY DEF Fails
<1>2. phase[p] # "up"
  BY Phases DEF PodsTyped
<1>3. /\ error' \in [Pods -> Errors] /\ error'[p] # "none"
      /\ \A q \in Pods \ {p} : error'[q] = error[q]
  BY <1>1 DEF PodsTyped
<1>4. /\ todo' \in [Pods -> SUBSET AllKinds] /\ todo'[p] = todo[p] \ {k}
      /\ \A q \in Pods \ {p} : todo'[q] = todo[q]
  BY <1>1 DEF PodsTyped
<1>5. /\ seen' = [q \in Pods |-> seen'[q]]
      /\ DOMAIN seen'[p] = DOMAIN seen[p] \ {k}
      /\ \A q \in Pods \ {p} : seen'[q] = seen[q]
  BY <1>1 DEF PodsTyped
<1>6. ASSUME NEW q \in Pods
      PROVE  /\ DOMAIN seen'[q] \subseteq todo'[q]
             /\ todo'[q] \subseteq KindsOf(q, phase[q])'
             /\ phase'[q] = "up" => error'[q] = "none"
             /\ \A l \in AllKinds : Looking(q, l)' => ~Manual(q, l, "stream")'
  <2>1. KindsOf(q, phase[q])' = KindsOf(q, phase[q])
    BY <1>1 DEF KindsOf
  <2>2. CASE q # p
    BY <1>1, <1>3, <1>4, <1>5, <2>1, <2>2 DEF PodsTyped, Looking, Manual
  <2>3. CASE q = p
    BY <1>1, <1>2, <1>4, <1>5, <2>1, <2>3 DEF PodsTyped, Looking, Manual
  <2> QED BY <2>2, <2>3
<1> QED BY <1>1, <1>3, <1>4, <1>5, <1>6 DEF PodsTyped

\* What the second call does: nothing but the pod fails, or the stream is there when the
\* pod is through, created, kept or rewritten from what the pod had seen.
LEMMA WriteOutcome ==
  ASSUME TypeInv, SeenInv, NEW p \in Pods, NEW k \in todo[p], WriteStream(p, k)
  PROVE  LET name == NameOf(opt[p], k)
             was == seen[p][k]
             do == HandleExistingStream(opt[p], k, was)
             built == BuildConfig(opt[p], k)
         IN /\ k \in AllKinds /\ Looking(p, k)
            /\ \A n \in DOMAIN streams :
                 n \in DOMAIN streams' /\ (n # name => streams'[n] = streams[n])
            /\ \A n \in DOMAIN streams' : n = name \/ n \in DOMAIN streams
            /\ \/ streams' = streams /\ \E why \in Errors \ {"none"} : Fails(p, k, why)
               \/ Done(p, k) /\ was = Nothing
                  /\ name \in DOMAIN streams' /\ streams'[name] = built
                  /\ (name \in DOMAIN streams => streams'[name] = streams[name])
               \/ Done(p, k) /\ was # Nothing /\ do.call = "none" /\ streams' = streams
               \/ Done(p, k) /\ was # Nothing /\ do.call \in {"update", "migrate"}
                  /\ streams'[name] = do.config ++ streams[name]
<1> DEFINE name == NameOf(opt[p], k)
           was == seen[p][k]
           do == HandleExistingStream(opt[p], k, was)
           built == BuildConfig(opt[p], k)
<1>1. k \in AllKinds /\ Looking(p, k)
  BY DEF WriteStream, Looking, TypeInv, PodsTyped
<1> HIDE DEF name, do, built
<1>2. CASE was = Nothing /\ ~AcceptsAdd(name, built)
  <2>1. AddStream(p, k, name)
    BY <1>2 DEF WriteStream, name
  <2>2. streams' = streams /\ \E why \in {"owned", "api", "rejected"} : Fails(p, k, why)
    BY <1>2, <2>1 DEF AddStream, broker, built
  <2>3. \E why \in Errors \ {"none"} : Fails(p, k, why)
    BY <2>2 DEF Errors
  <2> QED BY <1>1, <2>2, <2>3
<1>3. CASE was = Nothing /\ AcceptsAdd(name, built)
  <2>1. Done(p, k) /\ streams' = Only(name, built) ++ streams
    BY <1>3 DEF WriteStream, AddStream, name, built
  <2>2. /\ \A n : n \in DOMAIN streams' <=> n = name \/ n \in DOMAIN streams
        /\ streams'[name] = built
        /\ \A n \in DOMAIN streams : n # name => streams'[n] = streams[n]
    BY <2>1, Single, Spread
  <2>3. name \in DOMAIN streams => streams[name] = built
    BY <1>3 DEF AcceptsAdd
  <2> QED BY <1>1, <1>3, <2>1, <2>2, <2>3 DEF name, built
<1>4. CASE was # Nothing
  <2>1. name \in DOMAIN streams
    BY <1>1, <1>4 DEF SeenInv, Saw, name, WriteStream
  <2>2. do.call \in {"owned", "none", "conflict", "update", "shared", "migrate"}
    BY DEF HandleExistingStream, do
  <2>3. CASE do.call \notin {"none", "update", "migrate"}
    <3>1. streams' = streams /\ Fails(p, k, do.call)
      BY <1>4, <2>3 DEF WriteStream, broker, do
    <3>2. do.call \in Errors \ {"none"}
      BY <2>2, <2>3 DEF Errors
    <3> QED BY <1>1, <3>1, <3>2
  <2>4. CASE do.call = "none"
    <3>1. streams' = streams /\ Done(p, k)
      BY <1>4, <2>4 DEF WriteStream, broker, do
    <3> QED BY <1>1, <1>4, <2>4, <3>1 DEF do
  <2>5. CASE do.call \in {"update", "migrate"} /\ streams' # streams
    <3>1. UpdateStream(p, k, name, do.config) \/ MigrateStream(p, k, name, do.config)
      BY <1>4, <2>5 DEF WriteStream, do, name
    <3>2. Done(p, k) /\ streams' = [streams EXCEPT ![name] = do.config ++ @]
      BY <2>5, <3>1 DEF UpdateStream, MigrateStream, broker
    <3>3. /\ DOMAIN streams' = DOMAIN streams
          /\ streams'[name] = do.config ++ streams[name]
          /\ \A n \in DOMAIN streams : n # name => streams'[n] = streams[n]
      BY <2>1, <3>2
    <3> QED BY <1>1, <1>4, <2>5, <3>2, <3>3 DEF do, name
  <2>6. CASE do.call \in {"update", "migrate"} /\ streams' = streams
    <3>1. UpdateStream(p, k, name, do.config) \/ MigrateStream(p, k, name, do.config)
      BY <1>4, <2>6 DEF WriteStream, do, name
    <3>2. \/ Fails(p, k, "rejected")
          \/ Done(p, k) /\ streams' = [streams EXCEPT ![name] = do.config ++ @]
      BY <2>6, <3>1 DEF UpdateStream, MigrateStream, broker
    <3>3. CASE Fails(p, k, "rejected")
      BY <1>1, <2>6, <3>3 DEF Errors
    <3>4. CASE Done(p, k) /\ streams' = [streams EXCEPT ![name] = do.config ++ @]
      <4>1. streams'[name] = do.config ++ streams[name]
        BY <2>1, <3>4
      <4> QED BY <1>1, <1>4, <2>6, <3>4, <4>1 DEF do, name
    <3> QED BY <3>2, <3>3, <3>4
  <2> QED BY <2>2, <2>3, <2>4, <2>5, <2>6
<1> QED BY <1>2, <1>3, <1>4

\* Streams are written by nobody else.
LEMMA OnlyWrites ==
  ASSUME [Next]_vars
  PROVE  streams' = streams \/ \E p \in Pods : \E k \in todo[p] : WriteStream(p, k)
BY DEF Next, vars, broker, Boot, Exit, ReadStream, BindStream, ReadConsumer, WriteConsumer,
       BindConsumer, CallFails, DeleteConsumer, RecoverConsumer

--------------------------------------------------------------------------------
(***************************************************************************)
(* Types.                                                                  *)
(***************************************************************************)
\* A look adds what it returned, and nothing else.
LEMMA LookAdds ==
  ASSUME PodsTyped, NEW p \in Pods, NEW k, NEW found,
         seen' = [seen EXCEPT ![p] = Only(k, found) ++ @]
  PROVE  /\ seen' = [q \in Pods |-> seen'[q]]
         /\ \A l : l \in DOMAIN seen'[p] <=> l = k \/ l \in DOMAIN seen[p]
         /\ seen'[p][k] = found
         /\ \A l \in DOMAIN seen[p] : l # k => seen'[p][l] = seen[p][l]
         /\ \A q \in Pods \ {p} : seen'[q] = seen[q]
<1>1. /\ seen' = [q \in Pods |-> seen'[q]]
      /\ seen'[p] = Only(k, found) ++ seen[p]
      /\ \A q \in Pods \ {p} : seen'[q] = seen[q]
  BY DEF PodsTyped
<1> QED BY <1>1, Single, Spread

LEMMA InitTyped == Init => TypeInv
<1> SUFFICES ASSUME Init PROVE TypeInv
  OBVIOUS
<1>1. PICK s \in Scenarios :
        /\ opt = s.opts /\ streams = s.streams /\ consumers = s.consumers
        /\ phase = [p \in Pods |-> "down"]
        /\ todo = [p \in Pods |-> {}]
        /\ seen = [p \in Pods |-> Nothing]
        /\ error = [p \in Pods |-> "none"]
  BY DEF Init
<1>2. DOMAIN Nothing = {}
  BY DEF Nothing
<1>3. ServerTyped
  BY <1>1, DeploymentAssumption DEF ServerTyped
<1>4. PodsTyped
  BY <1>1, <1>2 DEF PodsTyped, Looking, Errors
<1> QED BY <1>3, <1>4 DEF TypeInv

LEMMA BootTyped ==
  ASSUME PodsTyped, NEW p \in Pods, Boot(p)
  PROVE  PodsTyped'
<1>1. /\ phase[p] = "down" /\ error[p] = "none" /\ opt' = opt /\ seen' = seen
      /\ DOMAIN seen[p] = {} /\ todo[p] = {}
  BY Phases DEF Boot, PodsTyped
<1>2. CASE RegistrationFails(opt[p]) \/ ~PrefixesValid(opt[p])
  <2>1. error' = [error EXCEPT ![p] = "options"] /\ UNCHANGED <<phase, todo>>
    BY <1>2 DEF Boot
  <2>2. error' \in [Pods -> Errors] /\ \A q \in Pods \ {p} : error'[q] = error[q]
    BY <2>1 DEF PodsTyped, Errors
  <2> QED BY <1>1, <2>1, <2>2 DEF PodsTyped, Looking, Manual, KindsOf
<1>3. CASE ~(RegistrationFails(opt[p]) \/ ~PrefixesValid(opt[p]))
  <2>1. PICK first \in {"up", "streams"} :
          /\ phase' = [phase EXCEPT ![p] = first]
          /\ todo' = [todo EXCEPT ![p] = KindsOf(p, first)]
          /\ UNCHANGED error
    BY <1>3 DEF Boot
  <2>2. /\ phase' \in [Pods -> {"down", "streams", "dlq", "consumers", "up"}]
        /\ phase'[p] = first /\ \A q \in Pods \ {p} : phase'[q] = phase[q]
    BY <2>1 DEF PodsTyped
  <2>3. KindsOf(p, first) \in SUBSET AllKinds
    BY Phases
  <2>4. /\ todo' \in [Pods -> SUBSET AllKinds] /\ todo'[p] = KindsOf(p, first)
        /\ \A q \in Pods \ {p} : todo'[q] = todo[q]
    BY <2>1, <2>3 DEF PodsTyped
  <2>5. \A q \in Pods : KindsOf(q, phase[q])' = KindsOf(q, phase'[q])
    BY <1>1 DEF KindsOf
  <2>6. ASSUME NEW q \in Pods
        PROVE  /\ DOMAIN seen'[q] \subseteq todo'[q]
               /\ todo'[q] \subseteq KindsOf(q, phase[q])'
               /\ phase'[q] = "up" => error'[q] = "none"
               /\ \A l \in AllKinds : Looking(q, l)' => ~Manual(q, l, "stream")'
    <3>1. CASE q # p
      BY <1>1, <2>1, <2>2, <2>4, <2>5, <3>1 DEF PodsTyped, Looking, Manual
    <3>2. CASE q = p
      BY <1>1, <2>1, <2>2, <2>4, <2>5, <3>2 DEF PodsTyped, Looking, Manual
    <3> QED BY <3>1, <3>2
  <2> QED BY <1>1, <2>1, <2>2, <2>4, <2>6 DEF PodsTyped
<1> QED BY <1>2, <1>3

LEMMA ExitTyped ==
  ASSUME PodsTyped, NEW p \in Pods, Exit(p)
  PROVE  PodsTyped'
<1>1. /\ phase' = [phase EXCEPT ![p] = "down"]
      /\ todo' = [todo EXCEPT ![p] = {}]
      /\ seen' = [seen EXCEPT ![p] = Nothing]
      /\ error' = [error EXCEPT ![p] = "none"]
      /\ opt' = opt /\ DOMAIN Nothing = {}
  BY DEF Exit, Nothing
<1>2. /\ phase' \in [Pods -> {"down", "streams", "dlq", "consumers", "up"}]
      /\ todo' \in [Pods -> SUBSET AllKinds]
      /\ seen' = [q \in Pods |-> seen'[q]]
      /\ error' \in [Pods -> Errors]
  BY <1>1 DEF PodsTyped, Errors
<1>3. /\ phase'[p] = "down" /\ todo'[p] = {} /\ DOMAIN seen'[p] = {}
      /\ \A q \in Pods \ {p} :
           phase'[q] = phase[q] /\ todo'[q] = todo[q] /\ seen'[q] = seen[q] /\ error'[q] = error[q]
  BY <1>1 DEF PodsTyped
<1>4. ASSUME NEW q \in Pods
      PROVE  /\ DOMAIN seen'[q] \subseteq todo'[q]
             /\ todo'[q] \subseteq KindsOf(q, phase[q])'
             /\ phase'[q] = "up" => error'[q] = "none"
             /\ \A l \in AllKinds : Looking(q, l)' => ~Manual(q, l, "stream")'
  BY <1>1, <1>3 DEF PodsTyped, Looking, Manual, KindsOf
<1> QED BY <1>2, <1>4 DEF PodsTyped

LEMMA ReadTyped ==
  ASSUME PodsTyped, NEW p \in Pods, NEW k \in todo[p], ReadStream(p, k) \/ ReadConsumer(p, k)
  PROVE  PodsTyped'
<1>1. PICK found : seen' = [seen EXCEPT ![p] = Only(k, found) ++ @]
  BY DEF ReadStream, ReadConsumer
<1>2. /\ UNCHANGED <<opt, phase, todo, error>>
      /\ phase[p] # "consumers" => ~Manual(p, k, "stream")
  BY DEF ReadStream, ReadConsumer
<1>3. /\ seen' = [q \in Pods |-> seen'[q]]
      /\ \A l : l \in DOMAIN seen'[p] <=> l = k \/ l \in DOMAIN seen[p]
      /\ \A q \in Pods \ {p} : seen'[q] = seen[q]
  BY <1>1, Single, Spread DEF PodsTyped
<1>4. ASSUME NEW q \in Pods
      PROVE  /\ DOMAIN seen'[q] \subseteq todo'[q]
             /\ todo'[q] \subseteq KindsOf(q, phase[q])'
             /\ phase'[q] = "up" => error'[q] = "none"
             /\ \A l \in AllKinds : Looking(q, l)' => ~Manual(q, l, "stream")'
  <2>1. CASE q # p
    BY <1>2, <1>3, <2>1 DEF PodsTyped, Looking, Manual, KindsOf
  <2>2. CASE q = p
    BY <1>2, <1>3, <2>2 DEF PodsTyped, Looking, Manual, KindsOf
  <2> QED BY <2>1, <2>2
<1> QED BY <1>2, <1>3, <1>4 DEF PodsTyped

\* Pods stay typed.
LEMMA PodsStayTyped ==
  ASSUME TypeInv, SeenInv, [Next]_vars
  PROVE  PodsTyped'
<1>1. PodsTyped
  BY DEF TypeInv
<1>2. ASSUME NEW p \in Pods, NEW k \in todo[p], WriteStream(p, k)
      PROVE  PodsTyped'
  <2>1. Done(p, k) \/ \E why \in Errors \ {"none"} : Fails(p, k, why)
    BY <1>2, WriteOutcome
  <2> QED BY <1>1, <2>1, DoneTyped, FailsTyped
<1>3. ASSUME NEW p \in Pods, NEW k \in todo[p],
             BindStream(p, k) \/ WriteConsumer(p, k) \/ BindConsumer(p, k) \/ CallFails(p, k)
      PROVE  PodsTyped'
  <2>1. \/ Done(p, k)
        \/ \E why \in {"unbound", "rejected", "api"} : Fails(p, k, why)
    BY <1>3 DEF BindStream, WriteConsumer, BindConsumer, CallFails
  <2> QED BY <1>1, <2>1, DoneTyped, FailsTyped DEF Errors
<1>4. CASE UNCHANGED <<opt, phase, todo, seen, error>>
  BY <1>1, <1>4 DEF PodsTyped, Looking, Manual, KindsOf
<1> QED BY <1>1, <1>2, <1>3, <1>4, BootTyped, ExitTyped, ReadTyped
         DEF Next, vars, RecoverConsumer, DeleteConsumer

\* Every stream has subjects, and every consumer a stream.
LEMMA ServerStaysTyped ==
  ASSUME TypeInv, SeenInv, [Next]_vars
  PROVE  ServerTyped'
<1>1. ServerTyped
  BY DEF TypeInv
<1>2. ASSUME NEW p \in Pods, NEW k \in todo[p], WriteStream(p, k)
      PROVE  ServerTyped'
  <2> DEFINE name == NameOf(opt[p], k)
             do == HandleExistingStream(opt[p], k, seen[p][k])
  <2>1. /\ k \in AllKinds
        /\ \A n \in DOMAIN streams :
             n \in DOMAIN streams' /\ (n # name => streams'[n] = streams[n])
        /\ \A n \in DOMAIN streams' : n = name \/ n \in DOMAIN streams
        /\ \/ streams' = streams
           \/ streams'[name] = BuildConfig(opt[p], k)
           \/ do.call \in {"update", "migrate"} /\ streams'[name] = do.config ++ streams[name]
    BY <1>2, WriteOutcome
  <2>2. "subjects" \in DOMAIN BuildConfig(opt[p], k)
    BY <2>1, ConfigBuilt
  <2>3. ASSUME do.call \in {"update", "migrate"}
        PROVE  "subjects" \in DOMAIN (do.config ++ streams[name])
    <3>1. k \in AllKinds
      BY <2>1
    <3>2. PICK new : new = do.config ++ streams[name]
      OBVIOUS
    <3>3. Rewritten(opt[p], k, BuildConfig(opt[p], k), seen[p][k], streams[name], new)
      BY <2>3, <3>1, <3>2, StreamRewritten
    <3> QED BY <3>2, <3>3 DEF Rewritten
  <2> HIDE DEF name, do
  <2>4. \A n \in DOMAIN streams' : "subjects" \in DOMAIN streams'[n]
    BY <1>1, <2>1, <2>2, <2>3 DEF ServerTyped
  <2>5. \A c \in DOMAIN consumers' : c \in DOMAIN consumers
    <3>1. \/ UNCHANGED consumers
          \/ consumers' = [c \in {c \in DOMAIN consumers : c[1] # name} |-> consumers[c]]
      BY <1>2 DEF WriteStream, AddStream, UpdateStream, MigrateStream, broker, name
    <3> QED BY <3>1
  <2> QED BY <1>1, <2>1, <2>4, <2>5 DEF ServerTyped
<1>3. CASE streams' = streams
  <2>1. \A c \in DOMAIN consumers' : c \in DOMAIN consumers \/ c[1] \in DOMAIN streams
    <3>1. ASSUME NEW p \in Pods, NEW k, WriteConsumer(p, k) \/ RecoverConsumer(p, k),
                 consumers' # consumers
          PROVE  /\ consumers' = Only(ConsumerOf(p, k), Filters(opt[p], k)) ++ consumers
                 /\ ConsumerOf(p, k)[1] \in DOMAIN streams
      BY <3>1 DEF WriteConsumer, RecoverConsumer, AcceptsConsumer
    <3>2. ASSUME NEW c, NEW filters, c[1] \in DOMAIN streams,
                 consumers' = Only(c, filters) ++ consumers
          PROVE  \A d \in DOMAIN consumers' : d \in DOMAIN consumers \/ d[1] \in DOMAIN streams
      BY <3>2, Single, Spread
    <3>3. CASE consumers' = consumers
      BY <3>3
    <3>4. CASE \E c \in DOMAIN consumers : DeleteConsumer(c)
      BY <3>4 DEF DeleteConsumer
    <3>5. CASE \E p \in Pods : \E k \in todo[p] : WriteStream(p, k)
      <4>1. PICK p \in Pods : \E k \in todo[p] : WriteStream(p, k)
        BY <3>5
      <4>2. PICK k \in todo[p] : WriteStream(p, k)
        BY <4>1
      <4>3. \/ UNCHANGED consumers
            \/ consumers' = [c \in {c \in DOMAIN consumers : c[1] # NameOf(opt[p], k)} |-> consumers[c]]
        BY <4>2 DEF WriteStream, AddStream, UpdateStream, MigrateStream, broker
      <4> QED BY <4>3
    <3>6. CASE \E p \in Pods, k \in AllKinds : WriteConsumer(p, k) \/ RecoverConsumer(p, k)
      BY <3>1, <3>2, <3>3, <3>6
    <3>7. \/ consumers' = consumers
          \/ \E c \in DOMAIN consumers : DeleteConsumer(c)
          \/ \E p \in Pods : \E k \in todo[p] : WriteStream(p, k)
          \/ \E p \in Pods, k \in AllKinds : WriteConsumer(p, k) \/ RecoverConsumer(p, k)
      <4>1. \A p \in Pods : todo[p] \subseteq AllKinds /\ Kinds \subseteq AllKinds
        BY DEF TypeInv, PodsTyped, AllKinds
      <4> QED BY <4>1 DEF Next, vars, broker, Boot, Exit, ReadStream, BindStream, ReadConsumer,
                          BindConsumer, CallFails
    <3> QED BY <3>3, <3>4, <3>5, <3>6, <3>7
  <2> QED BY <1>1, <1>3, <2>1 DEF ServerTyped
<1> QED BY <1>2, <1>3, OnlyWrites

--------------------------------------------------------------------------------
(***************************************************************************)
(* What a look says.                                                       *)
(***************************************************************************)
\* A pod that looks has looked before, or does so now.
LEMMA Looks ==
  ASSUME TypeInv, SeenInv, [Next]_vars, NEW q \in Pods, NEW l \in AllKinds, Looking(q, l)'
  PROVE  \/ Looking(q, l) /\ seen'[q][l] = seen[q][l]
         \/ /\ l \in todo[q] /\ ReadStream(q, l) /\ streams' = streams
            /\ seen'[q][l] = IF NameOf(opt[q], l) \in DOMAIN streams
                             THEN streams[NameOf(opt[q], l)] ELSE Nothing
<1>1. PodsTyped /\ l \in DOMAIN seen'[q] /\ phase'[q] # "consumers"
  BY DEF TypeInv, Looking
<1>2. ASSUME NEW p \in Pods, NEW k \in todo[p], Done(p, k)
      PROVE  Looking(q, l) /\ seen'[q][l] = seen[q][l]
  <2> DEFINE next == IF error[p] # "none" \/ todo[p] # {k} THEN phase[p] ELSE After(p)
  <2>1. /\ phase' = [phase EXCEPT ![p] = next]
        /\ seen' = [seen EXCEPT ![p] = [i \in DOMAIN @ \ {k} |-> @[i]]]
    BY <1>2 DEF Done
  <2>2. CASE q # p
    BY <1>1, <2>1, <2>2 DEF PodsTyped, Looking
  <2>3. CASE q = p
    <3>1. /\ DOMAIN seen'[p] = DOMAIN seen[p] \ {k}
          /\ \A i \in DOMAIN seen[p] \ {k} : seen'[p][i] = seen[p][i]
      <4>1. p \in DOMAIN seen
        BY <1>1 DEF PodsTyped
      <4>2. seen'[p] = [i \in DOMAIN seen[p] \ {k} |-> seen[p][i]]
        BY <2>1, <4>1
      <4> QED BY <4>2
    <3>2. todo[p] # {k}
      BY <1>1, <2>3, <3>1 DEF PodsTyped
    <3>3. phase'[p] = phase[p]
      BY <2>1, <3>2 DEF PodsTyped
    <3> QED BY <1>1, <2>3, <3>1, <3>3 DEF Looking
  <2> QED BY <2>2, <2>3
<1>3. ASSUME NEW p \in Pods, NEW k \in todo[p], NEW why, Fails(p, k, why)
      PROVE  Looking(q, l) /\ seen'[q][l] = seen[q][l]
  <2>1. /\ phase' = phase
        /\ seen' = [seen EXCEPT ![p] = [i \in DOMAIN @ \ {k} |-> @[i]]]
    BY <1>3 DEF Fails
  <2> QED BY <1>1, <2>1 DEF PodsTyped, Looking
<1>4. ASSUME NEW p \in Pods, NEW k \in todo[p], WriteStream(p, k)
      PROVE  Looking(q, l) /\ seen'[q][l] = seen[q][l]
  <2>1. Done(p, k) \/ \E why \in Errors \ {"none"} : Fails(p, k, why)
    BY <1>4, WriteOutcome
  <2> QED BY <1>2, <1>3, <2>1
<1>5. ASSUME NEW p \in Pods, NEW k \in todo[p],
             BindStream(p, k) \/ WriteConsumer(p, k) \/ BindConsumer(p, k) \/ CallFails(p, k)
      PROVE  Looking(q, l) /\ seen'[q][l] = seen[q][l]
  <2>1. Done(p, k) \/ \E why : Fails(p, k, why)
    BY <1>5 DEF BindStream, WriteConsumer, BindConsumer, CallFails
  <2> QED BY <1>2, <1>3, <2>1
<1>6. ASSUME NEW p \in Pods, Boot(p)
      PROVE  Looking(q, l) /\ seen'[q][l] = seen[q][l]
  <2>1. seen' = seen /\ phase[p] = "down" /\ \A r \in Pods \ {p} : phase'[r] = phase[r]
    BY <1>1, <1>6 DEF Boot, PodsTyped
  <2>2. q # p
    BY <1>1, <2>1, Phases DEF PodsTyped
  <2> QED BY <1>1, <2>1, <2>2 DEF Looking
<1>7. ASSUME NEW p \in Pods, Exit(p)
      PROVE  Looking(q, l) /\ seen'[q][l] = seen[q][l]
  <2>1. /\ seen'[p] = Nothing /\ DOMAIN Nothing = {}
        /\ \A r \in Pods \ {p} : seen'[r] = seen[r] /\ phase'[r] = phase[r]
    BY <1>1, <1>7 DEF Exit, PodsTyped, Nothing
  <2> QED BY <1>1, <2>1 DEF Looking
<1>8. ASSUME NEW p \in Pods, NEW k \in todo[p], ReadConsumer(p, k)
      PROVE  Looking(q, l) /\ seen'[q][l] = seen[q][l]
  <2>1. /\ phase' = phase /\ phase[p] = "consumers"
        /\ \A r \in Pods \ {p} : seen'[r] = seen[r]
    BY <1>1, <1>8 DEF ReadConsumer, PodsTyped
  <2> QED BY <1>1, <2>1 DEF Looking
<1>9. ASSUME NEW p \in Pods, NEW k \in todo[p], ReadStream(p, k)
      PROVE  \/ Looking(q, l) /\ seen'[q][l] = seen[q][l]
             \/ /\ l \in todo[q] /\ ReadStream(q, l) /\ streams' = streams
                /\ seen'[q][l] = IF NameOf(opt[q], l) \in DOMAIN streams
                                 THEN streams[NameOf(opt[q], l)] ELSE Nothing
  <2>1. PICK info : /\ info = IF NameOf(opt[p], k) \in DOMAIN streams
                              THEN streams[NameOf(opt[p], k)] ELSE Nothing
                    /\ seen' = [seen EXCEPT ![p] = Only(k, info) ++ @]
    BY <1>9 DEF ReadStream
  <2>2. phase' = phase /\ streams' = streams
    BY <1>9 DEF ReadStream, broker
  <2>3. /\ seen'[p] = Only(k, info) ++ seen[p]
        /\ \A r \in Pods \ {p} : seen'[r] = seen[r]
    BY <1>1, <2>1 DEF PodsTyped
  <2>4. CASE q # p
    BY <1>1, <2>2, <2>3, <2>4 DEF Looking
  <2>5. CASE q = p /\ l # k
    BY <1>1, <2>2, <2>3, <2>5, Single, Spread DEF Looking
  <2>6. CASE q = p /\ l = k
    BY <1>9, <2>1, <2>2, <2>3, <2>6, Single, Spread
  <2> QED BY <2>4, <2>5, <2>6
<1>10. CASE UNCHANGED <<phase, seen>>
  BY <1>1, <1>10 DEF Looking
<1> QED BY <1>4, <1>5, <1>6, <1>7, <1>8, <1>9, <1>10
         DEF Next, vars, RecoverConsumer, DeleteConsumer

\* Who writes a stream has forgotten what it saw.
LEMMA WriterForgets ==
  ASSUME TypeInv, SeenInv, NEW p \in Pods, NEW k \in todo[p], WriteStream(p, k)
  PROVE  k \notin DOMAIN seen'[p]
<1>1. Done(p, k) \/ \E why \in Errors \ {"none"} : Fails(p, k, why)
  BY WriteOutcome
<1> QED BY <1>1, DoneTyped, FailsTyped DEF TypeInv

\* No stream goes away.
LEMMA StreamsStay ==
  ASSUME TypeInv, SeenInv, [Next]_vars
  PROVE  \A name \in DOMAIN streams : name \in DOMAIN streams'
BY OnlyWrites, WriteOutcome

\* A saved look at a stream is not of one that is missing.
LEMMA SeenKept ==
  ASSUME TypeInv, SeenInv, [Next]_vars
  PROVE  SeenInv'
<1> SUFFICES ASSUME NEW q \in Pods, NEW l \in AllKinds, Saw(q, l)'
             PROVE  NameOf(opt'[q], l) \in DOMAIN streams'
  BY DEF SeenInv
<1>1. opt' = opt
  BY OptionsStay
<1>2. Looking(q, l)' /\ seen'[q][l] # Nothing
  BY DEF Saw, Nothing
<1>3. CASE Looking(q, l) /\ seen'[q][l] = seen[q][l]
  BY <1>1, <1>2, <1>3, StreamsStay DEF SeenInv, Saw
<1>4. CASE ~(Looking(q, l) /\ seen'[q][l] = seen[q][l])
  BY <1>1, <1>2, <1>4, Looks
<1> QED BY <1>3, <1>4

\* The type invariant and what it needs, of every reachable state.
LEMMA Typed == Spec => [](TypeInv /\ SeenInv)
<1>1. Init => SeenInv
  BY DEF Init, SeenInv, Saw, Looking, Nothing
<1>2. TypeInv /\ SeenInv /\ [Next]_vars => (TypeInv /\ SeenInv)'
  BY PodsStayTyped, ServerStaysTyped, SeenKept DEF TypeInv
<1> QED BY <1>1, <1>2, InitTyped, PTL DEF Spec

\* Pods keep their types, are through with a phase when they leave it and have been told
\* of no stream that the phase did not want; no consumer is without a stream.
THEOREM DeploymentTyped == Spec => []TypeOK
<1>1. TypeInv => TypeOK
  <2> SUFFICES ASSUME TypeInv PROVE TypeOK
    OBVIOUS
  <2>1. \A p \in Pods : phase[p] \in {"down", "up"} => todo[p] = {}
    BY Phases DEF TypeInv, PodsTyped
  <2> QED BY <2>1 DEF TypeOK, TypeInv, PodsTyped, ServerTyped, AllKinds
<1> QED BY <1>1, Typed, PTL

--------------------------------------------------------------------------------
(***************************************************************************)
(* One owner.                                                              *)
(***************************************************************************)
\* A pod comes to be through with a kind by finishing it.
LEMMA DoneFinishes ==
  ASSUME TypeInv, NEW q \in Pods, NEW j \in todo[q], Done(q, j),
         NEW k \in AllKinds, Finished(q, k)'
  PROVE  Finished(q, k) \/ (k = j /\ phase[q] # "consumers" /\ error[q] = "none")
<1> DEFINE next == IF error[q] # "none" \/ todo[q] # {j} THEN phase[q] ELSE After(q)
<1>1. /\ phase' = [phase EXCEPT ![q] = next]
      /\ todo' = [todo EXCEPT ![q] = IF next = phase[q] THEN @ \ {j} ELSE KindsOf(q, next)]
      /\ opt' = opt /\ error' = error
  BY DEF Done
<1>2. /\ phase'[q] = next
      /\ todo'[q] = IF next = phase[q] THEN todo[q] \ {j} ELSE KindsOf(q, next)
      /\ todo[q] \subseteq KindsOf(q, phase[q])
      /\ phase[q] \in {"streams", "dlq", "consumers"}
  BY <1>1, Phases DEF TypeInv, PodsTyped
<1>3. /\ k \in Wanted(q) /\ error[q] = "none"
      /\ \/ phase'[q] = "streams" /\ k \in StreamKinds(opt[q]) \ todo'[q]
         \/ phase'[q] = "dlq" /\ k # "dlq"
         \/ phase'[q] \in {"consumers", "up"}
  BY <1>1 DEF Finished, Wanted
<1>4. CASE phase[q] = "consumers"
  BY <1>3, <1>4 DEF Finished
<1>5. CASE phase[q] = "dlq"
  <2>1. j = "dlq"
    BY <1>2, <1>5 DEF KindsOf
  <2> QED BY <1>3, <1>5, <2>1 DEF Finished
<1>6. CASE phase[q] = "streams"
  <2>1. k \in StreamKinds(opt[q])
    <3>1. CASE phase'[q] = "streams"
      BY <1>3, <3>1
    <3>2. CASE phase'[q] = "dlq"
      BY <1>3, <3>2 DEF Wanted
    <3>3. CASE phase'[q] \in {"consumers", "up"}
      <4>1. ~IsDlqEnabled(opt[q])
        BY <1>2, <1>6, <3>3, Phases
      <4> QED BY <1>3, <4>1 DEF Wanted
    <3> QED BY <1>3, <3>1, <3>2, <3>3
  <2>2. k \notin todo[q] \/ k = j
    <3>1. CASE next = phase[q]
      BY <1>2, <1>3, <1>6, <3>1
    <3>2. CASE next # phase[q]
      BY <3>2
    <3> QED BY <3>1, <3>2
  <2> QED BY <1>3, <1>6, <2>1, <2>2 DEF Finished
<1> QED BY <1>2, <1>4, <1>5, <1>6

\* It finishes a kind by writing its stream, or by finding the one that is managed manually.
LEMMA Finishes ==
  ASSUME TypeInv, SeenInv, [Next]_vars, NEW q \in Pods, NEW k \in AllKinds,
         Finished(q, k)'
  PROVE  \/ Finished(q, k)
         \/ /\ k \in todo[q] /\ Done(q, k) /\ error[q] = "none"
            /\ WriteStream(q, k) \/ BindStream(q, k)
<1>1. PodsTyped /\ error'[q] = "none" /\ opt' = opt
  BY OptionsStay DEF TypeInv, Finished
<1>2. ASSUME NEW p \in Pods, NEW j \in todo[p], NEW why \in Errors \ {"none"}, Fails(p, j, why)
      PROVE  Finished(q, k)
  <2>1. p # q
    BY <1>1, <1>2, FailsTyped
  <2>2. phase' = phase /\ error'[q] = error[q] /\ todo'[q] = todo[q]
    BY <1>1, <1>2, <2>1 DEF Fails, PodsTyped
  <2> QED BY <1>1, <2>2 DEF Finished, Wanted
<1>3. ASSUME NEW p \in Pods, NEW j \in todo[p], Done(p, j), p # q
      PROVE  Finished(q, k)
  <2>1. phase'[q] = phase[q] /\ error'[q] = error[q] /\ todo'[q] = todo[q]
    BY <1>1, <1>3 DEF Done, PodsTyped
  <2> QED BY <1>1, <2>1 DEF Finished, Wanted
<1>4. ASSUME NEW p \in Pods, NEW j \in todo[p], WriteStream(p, j)
      PROVE  Finished(q, k) \/ (WriteStream(q, k) /\ Done(q, k) /\ error[q] = "none" /\ k \in todo[q])
  <2>1. Done(p, j) \/ \E why \in Errors \ {"none"} : Fails(p, j, why)
    BY <1>4, WriteOutcome
  <2>2. CASE Done(p, j) /\ p = q
    BY <1>4, <2>2, DoneFinishes
  <2> QED BY <1>2, <1>3, <2>1, <2>2
<1>5. ASSUME NEW p \in Pods, NEW j \in todo[p],
             BindStream(p, j) \/ WriteConsumer(p, j) \/ BindConsumer(p, j) \/ CallFails(p, j)
      PROVE  \/ Finished(q, k)
             \/ BindStream(q, k) /\ Done(q, k) /\ error[q] = "none" /\ k \in todo[q]
  <2>1. \/ Done(p, j) /\ (BindStream(p, j) \/ phase[p] = "consumers")
        \/ \E why \in {"unbound", "rejected", "api"} : Fails(p, j, why)
    BY <1>5 DEF BindStream, WriteConsumer, BindConsumer, CallFails
  <2>2. CASE Done(p, j) /\ (BindStream(p, j) \/ phase[p] = "consumers") /\ p = q
    BY <2>2, DoneFinishes
  <2> QED BY <1>2, <1>3, <2>1, <2>2 DEF Errors
<1>6. ASSUME NEW p \in Pods, Boot(p)
      PROVE  Finished(q, k)
  <2>1. CASE p # q
    <3>1. phase'[q] = phase[q] /\ error'[q] = error[q] /\ todo'[q] = todo[q]
      BY <1>1, <1>6, <2>1 DEF Boot, PodsTyped
    <3> QED BY <1>1, <3>1 DEF Finished, Wanted
  <2>2. CASE p = q
    <3> DEFINE first == IF StreamKinds(opt[q]) = {} THEN "up" ELSE "streams"
    <3>1. \/ error' = [error EXCEPT ![q] = "options"]
          \/ /\ phase' = [phase EXCEPT ![q] = first]
             /\ todo' = [todo EXCEPT ![q] = KindsOf(q, first)]
      BY <1>6, <2>2 DEF Boot
    <3>2. phase'[q] = first /\ todo'[q] = KindsOf(q, first)
      BY <1>1, <3>1 DEF PodsTyped
    <3>3. k \in Wanted(q)
      BY <1>1 DEF Finished, Wanted
    <3>4. StreamKinds(opt[q]) # {}
      BY <3>3 DEF Wanted
    <3>5. phase'[q] = "streams" /\ todo'[q] = StreamKinds(opt[q])
      BY <3>2, <3>4 DEF KindsOf
    <3> QED BY <1>1, <3>5 DEF Finished
  <2> QED BY <2>1, <2>2
<1>7. ASSUME NEW p \in Pods, Exit(p)
      PROVE  Finished(q, k)
  <2>1. CASE p # q
    <3>1. phase'[q] = phase[q] /\ error'[q] = error[q] /\ todo'[q] = todo[q]
      BY <1>1, <1>7, <2>1 DEF Exit, PodsTyped
    <3> QED BY <1>1, <3>1 DEF Finished, Wanted
  <2>2. CASE p = q
    <3>1. phase'[q] = "down"
      BY <1>1, <1>7, <2>2 DEF Exit, PodsTyped
    <3> QED BY <3>1 DEF Finished
  <2> QED BY <2>1, <2>2
<1>8. CASE UNCHANGED <<phase, todo, error>>
  BY <1>1, <1>8 DEF Finished, Wanted
<1> QED BY <1>4, <1>5, <1>6, <1>7, <1>8
        DEF Next, vars, ReadStream, ReadConsumer, RecoverConsumer, DeleteConsumer

\* Who writes a contested stream leaves its stamp as it is, and finishes only as its owner.
LEMMA WriteStamps ==
  ASSUME TypeInv, SeenInv, StampInv, NEW r \in Pods, NEW x \in Pods, NEW k \in todo[r],
         WriteStream(r, k), Contested(opt, r, x, k), NEW name, name = NameOf(opt[r], k)
  PROVE  /\ name \in DOMAIN streams' => StampedBy(streams'[name], opt[r].svc)
         /\ name \in DOMAIN streams => Stamp(streams'[name]) = Stamp(streams[name])
         /\ Done(r, k) /\ error[r] = "none" =>
              /\ name \in DOMAIN streams'
              /\ Stamp(streams'[name]) = <<opt[r].svc, opt[r].conn>>
<1>1. PICK was, do, built :
        /\ was = seen[r][k] /\ do = HandleExistingStream(opt[r], k, was)
        /\ built = BuildConfig(opt[r], k)
  OBVIOUS
<1>2. /\ k \in AllKinds /\ Looking(r, k)
      /\ \/ streams' = streams /\ \E why \in Errors \ {"none"} : Fails(r, k, why)
         \/ was = Nothing /\ name \in DOMAIN streams' /\ streams'[name] = built
            /\ (name \in DOMAIN streams => streams'[name] = streams[name])
         \/ was # Nothing /\ do.call = "none" /\ streams' = streams
         \/ was # Nothing /\ do.call \in {"update", "migrate"}
            /\ streams'[name] = do.config ++ streams[name]
  BY <1>1, WriteOutcome
<1>3. /\ name \in DOMAIN streams => StampedBy(streams[name], opt[r].svc)
      /\ was # Nothing => /\ name \in DOMAIN streams
                          /\ StampedBy(was, opt[r].svc)
                          /\ Stamp(was) = Stamp(streams[name])
  BY <1>1, <1>2 DEF StampInv, SeenInv, Saw
<1>4. "owner" \in DOMAIN MetadataOf(built) /\ Stamp(built) = <<opt[r].svc, opt[r].conn>>
  <2>1. k # "broadcast" /\ ResolveManagementMode(opt[r], k, "stream") # "manual"
    BY DEF Contested
  <2> QED BY <1>1, <1>2, <2>1, ConfigBuilt
<1>5. StampedBy(built, opt[r].svc)
  BY <1>4 DEF StampedBy, Stamp
<1>6. CASE streams' = streams /\ \E why \in Errors \ {"none"} : Fails(r, k, why)
  <2>1. error'[r] # "none"
    BY <1>6, FailsTyped DEF TypeInv
  <2>2. Done(r, k) => error' = error
    BY DEF Done
  <2> QED BY <1>3, <1>6, <2>1, <2>2
<1>7. CASE was = Nothing /\ name \in DOMAIN streams' /\ streams'[name] = built
           /\ (name \in DOMAIN streams => streams'[name] = streams[name])
  BY <1>4, <1>5, <1>7
<1>8. ASSUME was # Nothing, do.call \in {"none", "update", "migrate"}
      PROVE  Stamp(was) = Stamp(built)
  <2>1. AssertOwnership(opt[r], built, was)
    BY <1>1, <1>2, <1>8, WhenSent
  <2>2. "owner" \in DOMAIN MetadataOf(was) /\ MetadataOf(was)["owner"][1] = opt[r].svc
    BY <1>3, <1>8 DEF StampedBy
  <2> QED BY <1>4, <2>1, <2>2 DEF AssertOwnership, Stamp
<1>9. CASE was # Nothing /\ do.call = "none" /\ streams' = streams
  BY <1>3, <1>4, <1>8, <1>9
<1>10. CASE was # Nothing /\ do.call \in {"update", "migrate"}
            /\ streams'[name] = do.config ++ streams[name]
  <2>1. PICK new : new = do.config ++ streams[name]
    OBVIOUS
  <2>2. \A key \in DOMAIN MetadataOf(built) :
          key \in DOMAIN MetadataOf(new) /\ MetadataOf(new)[key] = MetadataOf(built)[key]
    <3>1. k \in AllKinds /\ do.call \in {"update", "migrate"}
      BY <1>2, <1>10
    <3>2. Rewritten(opt[r], k, built, was, streams[name], new)
      BY <1>1, <2>1, <3>1, StreamRewritten
    <3> QED BY <3>2 DEF Rewritten
  <2>3. "owner" \in DOMAIN MetadataOf(new) /\ Stamp(new) = Stamp(built)
    BY <1>4, <2>2 DEF Stamp
  <2>4. StampedBy(new, opt[r].svc)
    BY <1>4, <2>3 DEF StampedBy, Stamp
  <2>5. name \in DOMAIN streams'
    BY <1>1, <1>3, <1>10, WriteOutcome
  <2> QED BY <1>3, <1>4, <1>8, <1>10, <2>1, <2>3, <2>4, <2>5
<1> QED BY <1>2, <1>6, <1>7, <1>9, <1>10

\* Whoever takes a step, the stamp of a contested stream stays.
LEMMA StampStays ==
  ASSUME TypeInv, SeenInv, StampInv, [Next]_vars, NEW p \in Pods, NEW q \in Pods,
         NEW k \in AllKinds, Contested(opt, p, q, k), NEW name, name = NameOf(opt[p], k)
  PROVE  /\ name \in DOMAIN streams' => StampedBy(streams'[name], opt[p].svc)
         /\ name \in DOMAIN streams => /\ name \in DOMAIN streams'
                                       /\ Stamp(streams'[name]) = Stamp(streams[name])
<1>1. name \in DOMAIN streams => StampedBy(streams[name], opt[p].svc)
  BY DEF StampInv
<1>2. ASSUME NEW r \in Pods, NEW l \in todo[r], WriteStream(r, l)
      PROVE  /\ name \in DOMAIN streams' => StampedBy(streams'[name], opt[p].svc)
             /\ name \in DOMAIN streams => Stamp(streams'[name]) = Stamp(streams[name])
  <2>1. /\ l \in AllKinds /\ Looking(r, l)
        /\ NameOf(opt[r], l) # name =>
             /\ name \in DOMAIN streams => streams'[name] = streams[name]
             /\ name \in DOMAIN streams' => name \in DOMAIN streams
    BY <1>2, WriteOutcome
  <2>2. CASE NameOf(opt[r], l) # name
    BY <1>1, <2>1, <2>2
  <2>3. CASE NameOf(opt[r], l) = name
    <3>1. l = k /\ opt[r].svc = opt[p].svc
      <4>1. k # "broadcast"
        BY DEF Contested
      <4> QED BY <2>1, <2>3, <4>1, NamesDiffer
    <3>2. ~Manual(r, k, "stream")
      BY <2>1, <3>1 DEF TypeInv, PodsTyped
    <3>3. PICK x \in Pods : Contested(opt, r, x, k)
      <4>1. CASE opt[r].conn # opt[p].conn
        BY <3>1, <3>2, <4>1 DEF Contested, Manual
      <4>2. CASE opt[r].conn = opt[p].conn
        BY <3>1, <3>2, <4>2 DEF Contested, Manual
      <4> QED BY <4>1, <4>2
    <3> QED BY <1>2, <2>3, <3>1, <3>3, WriteStamps
  <2> QED BY <2>2, <2>3
<1> QED BY <1>1, <1>2, OnlyWrites, StreamsStay

LEMMA StampKept ==
  ASSUME TypeInv, SeenInv, StampInv, [Next]_vars
  PROVE  StampInv'
<1>1. opt' = opt
  BY OptionsStay
<1>2. ASSUME NEW p \in Pods, NEW q \in Pods, NEW k \in AllKinds, Contested(opt, p, q, k),
             NEW name, name = NameOf(opt[p], k)
      PROVE  /\ name \in DOMAIN streams' => StampedBy(streams'[name], opt[p].svc)
             /\ Saw(p, k)' => /\ StampedBy(seen'[p][k], opt[p].svc)
                              /\ Stamp(seen'[p][k]) = Stamp(streams'[name])
             /\ Finished(p, k)' => /\ name \in DOMAIN streams'
                                   /\ Stamp(streams'[name]) = <<opt[p].svc, opt[p].conn>>
  <2>1. /\ name \in DOMAIN streams' => StampedBy(streams'[name], opt[p].svc)
        /\ name \in DOMAIN streams => /\ name \in DOMAIN streams'
                                      /\ Stamp(streams'[name]) = Stamp(streams[name])
    BY <1>2, StampStays
  <2>2. /\ name \in DOMAIN streams => StampedBy(streams[name], opt[p].svc)
        /\ Saw(p, k) => /\ StampedBy(seen[p][k], opt[p].svc)
                        /\ Stamp(seen[p][k]) = Stamp(streams[name])
        /\ Finished(p, k) => /\ name \in DOMAIN streams
                             /\ Stamp(streams[name]) = <<opt[p].svc, opt[p].conn>>
    BY <1>2 DEF StampInv
  <2>3. ASSUME Saw(p, k)'
        PROVE  /\ StampedBy(seen'[p][k], opt[p].svc)
               /\ Stamp(seen'[p][k]) = Stamp(streams'[name])
    <3>1. Looking(p, k)' /\ seen'[p][k] # Nothing
      BY <2>3 DEF Saw, Nothing
    <3>2. CASE Looking(p, k) /\ seen'[p][k] = seen[p][k]
      <4>1. Saw(p, k)
        BY <3>1, <3>2 DEF Saw
      <4>2. name \in DOMAIN streams
        BY <1>2, <4>1 DEF SeenInv
      <4> QED BY <2>1, <2>2, <3>2, <4>1, <4>2
    <3>3. CASE ~(Looking(p, k) /\ seen'[p][k] = seen[p][k])
      <4>1. streams' = streams /\ name \in DOMAIN streams /\ seen'[p][k] = streams[name]
        BY <1>2, <3>1, <3>3, Looks
      <4> QED BY <2>2, <4>1
    <3> QED BY <3>2, <3>3
  <2>4. ASSUME Finished(p, k)'
        PROVE  name \in DOMAIN streams' /\ Stamp(streams'[name]) = <<opt[p].svc, opt[p].conn>>
    <3>1. ~Manual(p, k, "stream")
      BY <1>2 DEF Contested, Manual
    <3>2. CASE Finished(p, k)
      BY <2>1, <2>2, <3>2
    <3>3. CASE k \in todo[p] /\ WriteStream(p, k) /\ Done(p, k) /\ error[p] = "none"
      BY <1>2, <3>3, WriteStamps
    <3>4. ~BindStream(p, k)
      BY <3>1 DEF BindStream
    <3> QED BY <2>4, <3>2, <3>3, <3>4, Finishes
  <2> QED BY <2>1, <2>3, <2>4
<1> QED BY <1>1, <1>2 DEF StampInv

\* What is seen and what is owned when nothing has started.
LEMMA InitStamped ==
  ASSUME StampedWhereContested, Init
  PROVE  StampInv
<1>1. PICK s \in Scenarios :
        /\ opt = s.opts /\ streams = s.streams
        /\ phase = [p \in Pods |-> "down"]
        /\ seen = [p \in Pods |-> Nothing]
  BY DEF Init
<1>2. \A p \in Pods, k \in AllKinds : ~Saw(p, k) /\ ~Finished(p, k)
  BY <1>1 DEF Saw, Looking, Finished, Nothing
<1> QED BY <1>1, <1>2 DEF StampInv, StampedWhereContested, AllKinds

\* A pod that is up is through with every stream that it provisions.
LEMMA ProvisionedFinished ==
  ASSUME TypeInv, NEW p \in Pods, phase[p] = "up", NEW name \in Provisioned(p)
  PROVE  \E k \in AllKinds :
           name = NameOf(opt[p], k) /\ k # "broadcast" /\ ~Manual(p, k, "stream") /\ Finished(p, k)
<1>1. error[p] = "none"
  BY DEF TypeInv, PodsTyped
<1>2. PICK k \in Wanted(p) \ {"broadcast"} : name = NameOf(opt[p], k) /\ ~Manual(p, k, "stream")
  BY DEF Provisioned, Wanted
<1>3. k \in AllKinds
  BY <1>2 DEF Wanted, StreamKinds, AllKinds
<1> QED BY <1>1, <1>2, <1>3 DEF Finished

\* What a connection provisions carries its stamp once it is up, so no other connection
\* of the service is up with it: for any pods, options and interleaving of their starts,
\* where the streams that were there before carry a stamp of the service.
THEOREM OneOwnerHolds ==
  ASSUME StampedWhereContested
  PROVE  Spec => []OneOwner
<1>1. Init => StampInv
  BY InitStamped
<1>2. TypeInv /\ SeenInv /\ StampInv /\ [Next]_vars => StampInv'
  BY StampKept
<1>3. TypeInv /\ StampInv => OneOwner
  <2> SUFFICES ASSUME TypeInv, StampInv, NEW p \in Pods, NEW q \in Pods,
                      phase[p] = "up", phase[q] = "up",
                      opt[p].svc = opt[q].svc, opt[p].conn # opt[q].conn,
                      NEW name \in Provisioned(p), name \in Provisioned(q)
               PROVE  FALSE
    BY DEF OneOwner
  <2>1. PICK k \in AllKinds :
          name = NameOf(opt[p], k) /\ k # "broadcast" /\ ~Manual(p, k, "stream") /\ Finished(p, k)
    BY ProvisionedFinished
  <2>2. PICK l \in AllKinds :
          name = NameOf(opt[q], l) /\ l # "broadcast" /\ ~Manual(q, l, "stream") /\ Finished(q, l)
    BY ProvisionedFinished
  <2>3. k = l
    <3>1. PICK o, u : o = opt[p] /\ u = opt[q]
      OBVIOUS
    <3>2. NameOf(o, k) = NameOf(u, l)
      BY <2>1, <2>2, <3>1
    <3> QED BY <3>2, NamesDiffer
  <2>4. Contested(opt, p, q, k) /\ Contested(opt, q, p, k)
    BY <2>1, <2>2, <2>3 DEF Contested, Manual
  <2>5. Stamp(streams[name]) = <<opt[p].svc, opt[p].conn>>
    BY <2>1, <2>4 DEF StampInv
  <2>6. Stamp(streams[name]) = <<opt[q].svc, opt[q].conn>>
    BY <2>2, <2>3, <2>4 DEF StampInv
  <2> QED BY <2>5, <2>6
<1> QED BY <1>1, <1>2, <1>3, Typed, PTL DEF Spec

--------------------------------------------------------------------------------
(***************************************************************************)
(* Nothing clobbered.                                                      *)
(***************************************************************************)
\* Who writes a stream leaves the notes of others on it as they were.
LEMMA WriteKeepsNotes ==
  ASSUME TypeInv, SeenInv, NotesInv, NEW r \in Pods, NEW k \in todo[r], WriteStream(r, k),
         NEW name, name = NameOf(opt[r], k), name \in DOMAIN streams
  PROVE  SameNotes(streams[name], streams'[name])
<1>1. PICK was, do, built :
        /\ was = seen[r][k] /\ do = HandleExistingStream(opt[r], k, was)
        /\ built = BuildConfig(opt[r], k)
  OBVIOUS
<1>2. /\ k \in AllKinds /\ Looking(r, k)
      /\ \/ streams'[name] = streams[name]
         \/ /\ was # Nothing /\ do.call \in {"update", "migrate"}
            /\ streams'[name] = do.config ++ streams[name]
  BY <1>1, WriteOutcome
<1>3. CASE streams'[name] = streams[name]
  BY <1>3 DEF SameNotes
<1>4. CASE was # Nothing /\ do.call \in {"update", "migrate"}
           /\ streams'[name] = do.config ++ streams[name]
  <2>1. PICK there, new : there = streams[name] /\ new = do.config ++ there
    OBVIOUS
  <2>2. Rewritten(opt[r], k, built, was, there, new)
    <3>1. k \in AllKinds /\ do.call \in {"update", "migrate"}
      BY <1>2, <1>4
    <3> QED BY <1>1, <2>1, <3>1, StreamRewritten
  <2>3. DOMAIN MetadataOf(built) \subseteq OwnKeys
    <3>1. DOMAIN MetadataOf(built) \subseteq {"owner"} \cup DOMAIN MetadataOf(Overrides(opt[r], k))
      BY <1>1, <1>2, ConfigBuilt
    <3> QED BY <1>2, <3>1 DEF OwnKeys, AllKinds
  <2>4. SameNotes(was, there)
    BY <1>1, <1>2, <1>4, <2>1 DEF NotesInv, Saw
  <2>5. SameNotes(there, new)
    BY <2>2, <2>3, <2>4 DEF SameNotes, Rewritten
  <2> QED BY <1>4, <2>1, <2>5
<1> QED BY <1>2, <1>3, <1>4

\* No step changes the notes on a stream.
LEMMA NotesStay ==
  ASSUME TypeInv, SeenInv, NotesInv, [Next]_vars, NEW name \in DOMAIN streams
  PROVE  SameNotes(streams[name], streams'[name])
<1>1. CASE streams' = streams
  BY <1>1 DEF SameNotes
<1>2. ASSUME NEW r \in Pods, NEW l \in todo[r], WriteStream(r, l)
      PROVE  SameNotes(streams[name], streams'[name])
  <2>1. CASE NameOf(opt[r], l) = name
    BY <1>2, <2>1, WriteKeepsNotes
  <2>2. CASE NameOf(opt[r], l) # name
    <3>1. streams'[name] = streams[name]
      BY <1>2, <2>2, WriteOutcome
    <3> QED BY <3>1 DEF SameNotes
  <2> QED BY <2>1, <2>2
<1> QED BY <1>1, <1>2, OnlyWrites

LEMMA NotesInvKept ==
  ASSUME TypeInv, SeenInv, NotesInv, [Next]_vars
  PROVE  NotesInv'
<1>1. opt' = opt /\ OwnKeys' = OwnKeys
  BY OptionsStay DEF OwnKeys
<1>2. ASSUME NEW p \in Pods, NEW k \in AllKinds, Saw(p, k)', NEW name, name = NameOf(opt[p], k)
      PROVE  SameNotes(seen'[p][k], streams'[name])
  <2>1. Looking(p, k)' /\ seen'[p][k] # Nothing
    BY <1>2 DEF Saw, Nothing
  <2>2. CASE Looking(p, k) /\ seen'[p][k] = seen[p][k]
    <3>1. Saw(p, k)
      BY <2>1, <2>2 DEF Saw
    <3>2. name \in DOMAIN streams /\ SameNotes(seen[p][k], streams[name])
      BY <1>2, <3>1 DEF SeenInv, NotesInv
    <3>3. SameNotes(streams[name], streams'[name])
      BY <3>2, NotesStay
    <3> QED BY <2>2, <3>2, <3>3 DEF SameNotes
  <2>3. CASE ~(Looking(p, k) /\ seen'[p][k] = seen[p][k])
    <3>1. seen'[p][k] = streams'[name]
      BY <1>2, <2>1, <2>3, Looks
    <3> QED BY <3>1 DEF SameNotes
  <2> QED BY <2>2, <2>3
<1> QED BY <1>1, <1>2 DEF NotesInv, SameNotes

LEMMA NotesHold == Spec => [](TypeInv /\ SeenInv /\ NotesInv)
<1>1. Init => NotesInv
  BY DEF Init, NotesInv, Saw, Looking, Nothing
<1>2. TypeInv /\ SeenInv /\ NotesInv /\ [Next]_vars => NotesInv'
  BY NotesInvKept
<1> QED BY <1>1, <1>2, Typed, PTL DEF Spec

\* No start of any service changes or drops the metadata that no options name, however
\* the looks and updates of the pods interleave.
THEOREM NotesKeptHolds == Spec => [][\A name \in DOMAIN streams : NotesKept(name)]_vars
<1>1. TypeInv /\ SeenInv /\ NotesInv /\ [Next]_vars
      => [\A name \in DOMAIN streams : NotesKept(name)]_vars
  BY NotesStay DEF NotesKept, SameNotes
<1> QED BY <1>1, NotesHold, PTL DEF Spec

\* The subject of a service's broadcasts.
LEMMA BroadcastSubjects ==
  ASSUME NEW o, \A k \in DOMAIN o.prefix : o.prefix[k] \in Seq(Token)
  PROVE  /\ IsFiniteSet(GetSubjects(o, "broadcast"))
         /\ GetSubjects(o, "broadcast") \subseteq Seq(Token)
<1>1. Prefix(o, "broadcast") \in Seq(Token)
  <2>1. <<"broadcast">> \in Seq(Token)
    <3>1. "broadcast" \in Token
      BY DEF Token
    <3> QED BY <3>1
  <2>2. CASE HasCustomPrefix(o, "broadcast")
    <3>1. Prefix(o, "broadcast") = o.prefix["broadcast"] /\ "broadcast" \in DOMAIN o.prefix
      BY <2>2 DEF Prefix, HasCustomPrefix
    <3> QED BY <3>1
  <2>3. CASE ~HasCustomPrefix(o, "broadcast")
    BY <2>1, <2>3 DEF Prefix, ConventionPrefix
  <2> QED BY <2>2, <2>3
<1>2. FilterSubject(o, "broadcast") \in Seq(Token)
  <2>1. PICK prefix \in Seq(Token) : prefix = Prefix(o, "broadcast")
    BY <1>1
  <2>2. Append(prefix, ">") \in Seq(Token)
    <3>1. ">" \in Token
      BY DEF Token
    <3> QED BY <3>1, AppendProperties
  <2> QED BY <2>1, <2>2 DEF FilterSubject
<1>3. GetSubjects(o, "broadcast") = {FilterSubject(o, "broadcast")}
  BY DEF GetSubjects
<1> QED BY <1>2, <1>3, FS_Singleton

\* The subjects of the shared stream before and after somebody writes it.
LEMMA SharedWritten ==
  ASSUME TypeInv, SeenInv, SharedInv, NEW r \in Pods, NEW k \in todo[r], WriteStream(r, k),
         NameOf(opt[r], k) = Shared
  PROVE  /\ k = "broadcast" /\ Looking(r, "broadcast")
         /\ Shared \in DOMAIN streams' =>
              /\ IsFiniteSet(streams'[Shared]["subjects"])
              /\ streams'[Shared]["subjects"] \subseteq Seq(Token)
         /\ Shared \in DOMAIN streams =>
              \A s \in streams[Shared]["subjects"] :
                \E t \in streams'[Shared]["subjects"] : CoversOrEquals(t, s)
<1>1. PICK was, do, built, mine :
        /\ was = seen[r][k] /\ do = HandleExistingStream(opt[r], k, was)
        /\ built = BuildConfig(opt[r], k) /\ mine = GetSubjects(opt[r], "broadcast")
  OBVIOUS
<1>2. k \in AllKinds /\ Looking(r, k)
  BY <1>1, WriteOutcome
<1>3. k = "broadcast"
  BY <1>2, NamesDiffer
<1>4. IsFiniteSet(mine) /\ mine \subseteq Seq(Token)
  BY <1>1, BroadcastSubjects DEF SharedInv
<1>5. \/ streams' = streams
      \/ was = Nothing /\ streams'[Shared] = built
         /\ (Shared \in DOMAIN streams => streams'[Shared] = streams[Shared])
      \/ was # Nothing /\ do.call \in {"update", "migrate"}
         /\ streams'[Shared] = do.config ++ streams[Shared]
  BY <1>1, WriteOutcome
<1>6. /\ Shared \in DOMAIN streams =>
           /\ IsFiniteSet(streams[Shared]["subjects"])
           /\ streams[Shared]["subjects"] \subseteq Seq(Token)
      /\ \A s : CoversOrEquals(s, s)
  BY DEF SharedInv, CoversOrEquals
<1>7. CASE streams' = streams
  BY <1>2, <1>3, <1>6, <1>7
<1>8. CASE was = Nothing /\ streams'[Shared] = built
           /\ (Shared \in DOMAIN streams => streams'[Shared] = streams[Shared])
  <2>1. built["subjects"] = IF k = "dlq" THEN {DlqStreamName(opt[r])} ELSE GetSubjects(opt[r], k)
    BY <1>1, <1>2, ConfigBuilt
  <2>2. streams'[Shared]["subjects"] = mine
    BY <1>1, <1>3, <1>8, <2>1
  <2> QED BY <1>2, <1>3, <1>4, <1>6, <1>8, <2>2
<1>9. CASE was # Nothing /\ do.call \in {"update", "migrate"}
           /\ streams'[Shared] = do.config ++ streams[Shared]
  <2>1. PICK there, new, theirs :
          there = streams[Shared] /\ new = do.config ++ there /\ theirs = there["subjects"]
    OBVIOUS
  <2>2. Rewritten(opt[r], k, built, was, there, new)
    <3>1. do.call \in {"update", "migrate"}
      BY <1>9
    <3> QED BY <1>1, <1>2, <2>1, <3>1, StreamRewritten
  <2>3. Shared \in DOMAIN streams /\ was["subjects"] = theirs
    BY <1>1, <1>2, <1>3, <1>9, <2>1 DEF SeenInv, SharedInv, Saw
  <2>4. new["subjects"] = MergeSubjects(mine, theirs)
    BY <1>1, <1>3, <2>2, <2>3 DEF Rewritten
  <2>5. IsFiniteSet(theirs) /\ theirs \subseteq Seq(Token)
    BY <1>6, <2>1, <2>3
  <2>6. \A s \in theirs : \E t \in MergeSubjects(mine, theirs) : CoversOrEquals(t, s)
    BY <1>4, <2>5, MergeCovers
  <2>7. MergeSubjects(mine, theirs) \subseteq mine \cup theirs
    BY DEF MergeSubjects
  <2>8. IsFiniteSet(new["subjects"]) /\ new["subjects"] \subseteq Seq(Token)
    BY <1>4, <2>4, <2>5, <2>7, FS_Union, FS_Subset
  <2> QED BY <1>2, <1>3, <1>9, <2>1, <2>4, <2>6, <2>8
<1> QED BY <1>5, <1>7, <1>8, <1>9

\* Nobody takes a subject from the shared stream, and its subjects stay typed.
LEMMA SharedStays ==
  ASSUME TypeInv, SeenInv, SharedInv, [Next]_vars
  PROVE  /\ Shared \in DOMAIN streams' =>
              /\ IsFiniteSet(streams'[Shared]["subjects"])
              /\ streams'[Shared]["subjects"] \subseteq Seq(Token)
         /\ Shared \in DOMAIN streams =>
              \A s \in streams[Shared]["subjects"] :
                \E t \in streams'[Shared]["subjects"] : CoversOrEquals(t, s)
<1>1. /\ Shared \in DOMAIN streams =>
           /\ IsFiniteSet(streams[Shared]["subjects"])
           /\ streams[Shared]["subjects"] \subseteq Seq(Token)
      /\ \A s : CoversOrEquals(s, s)
  BY DEF SharedInv, CoversOrEquals
<1>2. CASE streams' = streams
  BY <1>1, <1>2
<1>3. ASSUME NEW r \in Pods, NEW l \in todo[r], WriteStream(r, l), NameOf(opt[r], l) # Shared
      PROVE  /\ Shared \in DOMAIN streams => streams'[Shared] = streams[Shared]
             /\ Shared \in DOMAIN streams' => Shared \in DOMAIN streams
  BY <1>3, WriteOutcome
<1> QED BY <1>1, <1>2, <1>3, OnlyWrites, SharedWritten

LEMMA SharedKept ==
  ASSUME SharedExclusive, TypeInv, SeenInv, SharedInv, [Next]_vars
  PROVE  SharedInv'
<1>1. opt' = opt /\ "broadcast" \in AllKinds
  BY OptionsStay DEF AllKinds, Kinds
<1>2. ASSUME NEW p \in Pods, NEW q \in Pods, p # q,
             Looking(p, "broadcast")', Looking(q, "broadcast")'
      PROVE  FALSE
  <2>1. ASSUME NEW r \in Pods, NEW x \in Pods \ {r}, ReadStream(r, "broadcast")
        PROVE  ~Looking(x, "broadcast") /\ ~ReadStream(x, "broadcast")
    <3>1. ~Looking(x, "broadcast")
      BY <2>1, SharedExclusive DEF ReadStream, Looking
    <3>2. /\ "broadcast" \in DOMAIN seen'[r] /\ "broadcast" \notin DOMAIN seen[r]
          /\ seen' = [seen EXCEPT ![r] = seen'[r]]
      <4>1. PICK found : seen' = [seen EXCEPT ![r] = Only("broadcast", found) ++ @]
        BY <2>1 DEF ReadStream
      <4> QED BY <2>1, <4>1, LookAdds DEF TypeInv, ReadStream
    <3>3. ASSUME ReadStream(x, "broadcast") PROVE FALSE
      <4>1. PICK found : seen' = [seen EXCEPT ![x] = Only("broadcast", found) ++ @]
        BY <3>3 DEF ReadStream
      <4>2. seen'[r] = seen[r]
        BY <2>1, <4>1, LookAdds DEF TypeInv
      <4> QED BY <3>2, <4>2
    <3> QED BY <3>1, <3>3
  <2>2. Looking(p, "broadcast") \/ ReadStream(p, "broadcast")
    BY <1>1, <1>2, Looks
  <2>3. Looking(q, "broadcast") \/ ReadStream(q, "broadcast")
    BY <1>1, <1>2, Looks
  <2>4. ~(Looking(p, "broadcast") /\ Looking(q, "broadcast"))
    BY <1>2 DEF SharedInv
  <2> QED BY <1>2, <2>1, <2>2, <2>3, <2>4
<1>3. ASSUME NEW p \in Pods, Saw(p, "broadcast")'
      PROVE  seen'[p]["broadcast"] = streams'[Shared]
  <2>1. Looking(p, "broadcast")' /\ seen'[p]["broadcast"] # Nothing
    BY <1>3 DEF Saw, Nothing
  <2>2. NameOf(opt[p], "broadcast") = Shared
    BY DEF NameOf, StreamName, Shared
  <2>3. CASE Looking(p, "broadcast") /\ seen'[p]["broadcast"] = seen[p]["broadcast"]
    <3>1. Saw(p, "broadcast")
      BY <2>1, <2>3 DEF Saw
    <3>2. /\ seen[p]["broadcast"] = streams[Shared]
          /\ Shared \in DOMAIN streams
      BY <1>1, <2>2, <3>1 DEF SharedInv, SeenInv
    <3>3. streams'[Shared] = streams[Shared]
      <4>1. ASSUME NEW r \in Pods, NEW l \in todo[r], WriteStream(r, l)
            PROVE  NameOf(opt[r], l) # Shared
        <5> SUFFICES ASSUME NameOf(opt[r], l) = Shared PROVE FALSE
          OBVIOUS
        <5>1. l = "broadcast" /\ Looking(r, "broadcast")
          BY <4>1, SharedWritten
        <5>2. r = p
          BY <2>3, <5>1 DEF SharedInv
        <5>3. "broadcast" \notin DOMAIN seen'[p]
          BY <4>1, <5>1, <5>2, WriterForgets
        <5> QED BY <2>1, <5>3 DEF Looking
      <4>2. ASSUME NEW r \in Pods, NEW l \in todo[r], WriteStream(r, l)
            PROVE  streams'[Shared] = streams[Shared]
        BY <3>2, <4>1, <4>2, WriteOutcome
      <4> QED BY <4>2, OnlyWrites
    <3> QED BY <2>3, <3>2, <3>3
  <2>4. CASE ~(Looking(p, "broadcast") /\ seen'[p]["broadcast"] = seen[p]["broadcast"])
    <3>1. seen'[p]["broadcast"] = streams'[Shared]
      BY <1>1, <2>1, <2>2, <2>4, Looks
    <3> QED BY <3>1
  <2> QED BY <2>3, <2>4
<1>4. /\ \A p \in Pods : \A k \in DOMAIN opt'[p].prefix : opt'[p].prefix[k] \in Seq(Token)
      /\ Shared \in DOMAIN streams' =>
           /\ IsFiniteSet(streams'[Shared]["subjects"])
           /\ streams'[Shared]["subjects"] \subseteq Seq(Token)
  BY <1>1, SharedStays DEF SharedInv
<1> QED BY <1>2, <1>3, <1>4 DEF SharedInv

LEMMA InitShared == Init => SharedInv
<1> SUFFICES ASSUME Init PROVE SharedInv
  OBVIOUS
<1>1. PICK s \in Scenarios :
        opt = s.opts /\ streams = s.streams /\ seen = [p \in Pods |-> Nothing]
  BY DEF Init
<1>2. \A p \in Pods : ~Looking(p, "broadcast") /\ ~Saw(p, "broadcast")
  BY <1>1 DEF Saw, Looking, Nothing
<1>3. Seq(STRING) \subseteq Seq(Token)
  BY DEF Token
<1> QED BY <1>1, <1>2, <1>3, DeploymentAssumption DEF SharedInv

\* Where the looks and updates of the shared stream do not overlap, nobody takes a subject
\* from it; and nobody drops the notes of others from any stream: for any pods, options
\* and finite sets of subjects.
THEOREM NothingClobberedHolds ==
  ASSUME SharedExclusive
  PROVE  Spec => NothingClobbered
<1>1. TypeInv /\ SeenInv /\ SharedInv /\ [Next]_vars => SharedInv'
  BY SharedKept
<1>2. TypeInv /\ SeenInv /\ NotesInv /\ SharedInv /\ [Next]_vars
      => [\A name \in DOMAIN streams \cap DOMAIN streams' :
            SharedSubjectsKept(name) /\ NotesKept(name)]_vars
  <2> SUFFICES ASSUME TypeInv, SeenInv, NotesInv, SharedInv, [Next]_vars,
                      NEW name \in DOMAIN streams \cap DOMAIN streams'
               PROVE  SharedSubjectsKept(name) /\ NotesKept(name)
    OBVIOUS
  <2>1. NotesKept(name)
    BY NotesStay DEF NotesKept, SameNotes
  <2>2. SharedSubjectsKept(name)
    BY SharedStays DEF SharedSubjectsKept, StreamName, Shared
  <2> QED BY <2>1, <2>2
<1> QED BY <1>1, <1>2, InitShared, NotesHold, PTL DEF Spec, NothingClobbered

--------------------------------------------------------------------------------
(***************************************************************************)
(* Wired: the streams.                                                     *)
(***************************************************************************)
OptionsInv == \E s \in Scenarios : opt = s.opts

\* What a stream must store, and that it does: the subjects of the kind and, where pods agree
\* on all that they ask for, the schedules beside them.
Needs(o, k) == IF k = "dlq" THEN DlqStreamName(o) ELSE FilterSubject(o, k)

Required(o, k) ==
  {Needs(o, k)} \cup IF SubjectsAgree /\ k # "dlq" THEN GetSubjects(o, k) ELSE {}

Stores(subjects, subject) == \E t \in subjects : CoversOrEquals(t, subject)

Has(p, k, need) ==
  /\ NameOf(opt[p], k) \in DOMAIN streams
  /\ Stores(streams[NameOf(opt[p], k)]["subjects"], need)

Provided(p, k) == Has(p, k, Needs(opt[p], k))

\* A stream that somebody is through with, or that the operator provides, stores what it
\* must; one that was seen does so, or is as it was seen.
ProvidedInv ==
  \A p \in Pods : \A k \in Wanted(p) :
    /\ Manual(p, k, "stream") /\ k # "dlq" => Provided(p, k)
    /\ \A need \in Required(opt[p], k) :
         /\ Finished(p, k) => Has(p, k, need)
         /\ Saw(p, k) => \/ Has(p, k, need)
                         \/ seen[p][k]["subjects"] = streams[NameOf(opt[p], k)]["subjects"]

LEMMA WantedKinds ==
  ASSUME NEW p \in Pods
  PROVE  Wanted(p) \subseteq AllKinds /\ Wanted(p) \subseteq StreamKinds(opt[p]) \cup {"dlq"}
BY DEF Wanted, StreamKinds, AllKinds

LEMMA Agreed ==
  ASSUME PodsAgree, OptionsInv, NEW p \in Pods, NEW q \in Pods, opt[p].svc = opt[q].svc,
         NEW k \in StreamKinds(opt[p]), k \in StreamKinds(opt[q])
  PROVE  /\ FilterSubject(opt[p], k) = FilterSubject(opt[q], k)
         /\ k # "ordered" => Filters(opt[p], k) = Filters(opt[q], k)
         /\ SubjectsAgree => GetSubjects(opt[p], k) = GetSubjects(opt[q], k)
<1>1. PICK s \in Scenarios : opt = s.opts
  BY DEF OptionsInv
<1>2. /\ Prefix(opt[p], k) = Prefix(opt[q], k)
      /\ k # "ordered" => Filters(opt[p], k) = Filters(opt[q], k)
  BY <1>1 DEF PodsAgree
<1>3. SubjectsAgree => GetSubjects(opt[p], k) = GetSubjects(opt[q], k)
  BY <1>1 DEF SubjectsAgree
<1> QED BY <1>2, <1>3 DEF FilterSubject

\* What the options ask for, or its merge with what was there, stores what is needed.
LEMMA DesiredStores ==
  ASSUME NEW o, NEW k \in AllKinds, NEW theirs, NEW subjects,
         k # "broadcast" => subjects = BuildConfig(o, k)["subjects"],
         k = "broadcast" =>
           /\ subjects \in {GetSubjects(o, k), MergeSubjects(GetSubjects(o, k), theirs)}
           /\ \A l \in DOMAIN o.prefix : o.prefix[l] \in Seq(Token)
           /\ subjects # GetSubjects(o, k) => IsFiniteSet(theirs) /\ theirs \subseteq Seq(Token)
  PROVE  \A need \in Required(o, k) : Stores(subjects, need)
<1> SUFFICES ASSUME NEW subject \in Required(o, k) PROVE Stores(subjects, subject)
  OBVIOUS
<1>1. PICK mine : mine = IF k = "dlq" THEN {DlqStreamName(o)} ELSE GetSubjects(o, k)
  OBVIOUS
<1>2. subject \in mine /\ CoversOrEquals(subject, subject)
  BY <1>1 DEF Required, Needs, GetSubjects, CoversOrEquals
<1>3. CASE subjects = mine
  BY <1>1, <1>2, <1>3 DEF Stores
<1>4. CASE subjects # mine
  <2>1. k = "broadcast"
    BY <1>1, <1>4, ConfigBuilt
  <2>2. mine = GetSubjects(o, "broadcast") /\ subjects = MergeSubjects(mine, theirs)
    BY <1>1, <1>4, <2>1
  <2>3. IsFiniteSet(mine) /\ mine \subseteq Seq(Token)
    BY <2>1, <2>2, BroadcastSubjects
  <2>4. IsFiniteSet(theirs) /\ theirs \subseteq Seq(Token)
    BY <1>4, <2>1, <2>2
  <2>5. \E t \in MergeSubjects(mine, theirs) : CoversOrEquals(t, subject)
    BY <1>2, <2>3, <2>4, MergeCovers
  <2> QED BY <1>1, <2>2, <2>5 DEF Stores
<1> QED BY <1>3, <1>4

\* Who writes a stream that another pod of the service wants provides what it needs too.
LEMMA WriteProvides ==
  ASSUME PodsAgree, OptionsInv, TypeInv, SeenInv, NEW r \in Pods, NEW k \in todo[r],
         WriteStream(r, k), NEW p \in Pods, k \in Wanted(p), k # "broadcast",
         NEW need \in Required(opt[p], k),
         NEW name, name = NameOf(opt[p], k), NameOf(opt[r], k) = name
  PROVE  \/ Stores(streams'[name]["subjects"], need) /\ name \in DOMAIN streams'
         \/ streams'[name] = streams[name] /\ (name \in DOMAIN streams' => name \in DOMAIN streams)
<1>1. PICK was, do, built :
        /\ was = seen[r][k] /\ do = HandleExistingStream(opt[r], k, was)
        /\ built = BuildConfig(opt[r], k)
  OBVIOUS
<1>2. /\ k \in AllKinds /\ Looking(r, k)
      /\ \A n \in DOMAIN streams : n \in DOMAIN streams'
      /\ \/ streams' = streams
         \/ name \in DOMAIN streams' /\ streams'[name] = built
         \/ /\ was # Nothing /\ do.call \in {"update", "migrate"}
            /\ streams'[name] = do.config ++ streams[name]
  BY <1>1, WriteOutcome
<1>3. opt[r].svc = opt[p].svc
  <2>1. PICK o, u : o = opt[r] /\ u = opt[p]
    OBVIOUS
  <2>2. NameOf(o, k) = NameOf(u, k)
    BY <2>1
  <2> QED BY <1>2, <2>1, <2>2, NamesDiffer
<1>4. Required(opt[r], k) = Required(opt[p], k)
  <2>1. CASE k = "dlq"
    BY <1>3, <2>1 DEF Required, Needs, DlqStreamName
  <2>2. CASE k # "dlq"
    <3>1. k \in StreamKinds(opt[p])
      BY <2>2, WantedKinds
    <3>2. k \in StreamKinds(opt[r])
      BY <1>2, <2>2, Phases DEF TypeInv, PodsTyped, Looking, KindsOf
    <3> QED BY <1>3, <2>2, <3>1, <3>2, Agreed DEF Required, Needs
  <2> QED BY <2>1, <2>2
<1>5. Stores(built["subjects"], need)
  BY <1>1, <1>2, <1>4, DesiredStores
<1>6. CASE /\ was # Nothing /\ do.call \in {"update", "migrate"}
           /\ streams'[name] = do.config ++ streams[name]
  <2>1. PICK there, new : there = streams[name] /\ new = do.config ++ there
    OBVIOUS
  <2>2. Rewritten(opt[r], k, built, was, there, new)
    <3>1. do.call \in {"update", "migrate"}
      BY <1>6
    <3> QED BY <1>1, <1>2, <2>1, <3>1, StreamRewritten
  <2>3. streams'[name]["subjects"] = built["subjects"]
    BY <1>6, <2>1, <2>2 DEF Rewritten
  <2>4. name \in DOMAIN streams
    BY <1>1, <1>2, <1>6 DEF SeenInv, Saw
  <2> QED BY <1>2, <1>5, <2>3, <2>4
<1> QED BY <1>2, <1>5, <1>6

\* What is provided stays so, whoever takes a step.
LEMMA ProvidedStays ==
  ASSUME PodsAgree, OptionsInv, TypeInv, SeenInv, SharedInv, [Next]_vars,
         NEW p \in Pods, NEW k \in Wanted(p), NEW need \in Required(opt[p], k), Has(p, k, need)
  PROVE  Has(p, k, need)'
<1>1. PICK name : name = NameOf(opt[p], k)
  OBVIOUS
<1>2. opt' = opt /\ name' = name /\ need' = need
  BY OptionsStay
<1>3. name \in DOMAIN streams /\ name \in DOMAIN streams' /\ Stores(streams[name]["subjects"], need)
  BY <1>1, StreamsStay DEF Has
<1>4. Stores(streams'[name]["subjects"], need)
  <2>1. CASE k = "broadcast"
    <3>1. name = Shared /\ need = FilterSubject(opt[p], "broadcast")
      BY <1>1, <2>1 DEF NameOf, StreamName, Shared, Required, Needs, GetSubjects
    <3>2. PICK s \in streams[Shared]["subjects"] : CoversOrEquals(s, need)
      BY <1>3, <3>1 DEF Stores
    <3>3. PICK t \in streams'[Shared]["subjects"] : CoversOrEquals(t, s)
      BY <1>3, <3>1, SharedStays
    <3>4. s \in Seq(Token)
      BY <1>3, <3>1 DEF SharedInv
    <3>5. t \in Seq(Token)
      BY <1>3, <3>1, SharedStays
    <3>6. need \in Seq(Token)
      <4>1. FilterSubject(opt[p], "broadcast") \in GetSubjects(opt[p], "broadcast")
        BY DEF GetSubjects
      <4> QED BY <3>1, <4>1, BroadcastSubjects DEF SharedInv
    <3>7. CoversOrEquals(t, need)
      BY <3>2, <3>3, <3>4, <3>5, <3>6, CoversTransitive DEF CoversOrEquals
    <3> QED BY <3>1, <3>7 DEF Stores
  <2>2. CASE k # "broadcast"
    <3>1. ASSUME NEW r \in Pods, NEW l \in todo[r], WriteStream(r, l)
          PROVE  Stores(streams'[name]["subjects"], need)
      <4>1. CASE NameOf(opt[r], l) # name
        <5>1. streams'[name] = streams[name]
          BY <1>3, <3>1, <4>1, WriteOutcome
        <5> QED BY <1>3, <5>1
      <4>2. CASE NameOf(opt[r], l) = name
        <5>1. l = k
          <6>1. l \in AllKinds /\ k \in AllKinds
            BY WantedKinds DEF TypeInv, PodsTyped
          <6>2. PICK o, u : o = opt[r] /\ u = opt[p]
            OBVIOUS
          <6>3. NameOf(o, l) = NameOf(u, k)
            BY <1>1, <4>2, <6>2
          <6> QED BY <6>1, <6>3, NamesDiffer
        <5> QED BY <1>1, <1>3, <2>2, <3>1, <4>2, <5>1, WriteProvides
      <4> QED BY <4>1, <4>2
    <3> QED BY <1>3, <3>1, OnlyWrites
  <2> QED BY <2>1, <2>2
<1> QED BY <1>1, <1>2, <1>3, <1>4 DEF Has

\* A pod that is through with a stream has what it needs there.
LEMMA FinishProvides ==
  ASSUME PodsAgree, OptionsInv, TypeInv, SeenInv, SharedInv, ProvidedInv, [Next]_vars,
         NEW p \in Pods, NEW k \in Wanted(p), k \in todo[p], Done(p, k), error[p] = "none",
         NEW need \in Required(opt[p], k), WriteStream(p, k) \/ BindStream(p, k)
  PROVE  Has(p, k, need)'
<1>1. PICK name : name = NameOf(opt[p], k)
  OBVIOUS
<1>2. opt' = opt /\ name' = name /\ need' = need
  BY OptionsStay
<1>3. ~\E why \in Errors \ {"none"} : Fails(p, k, why)
  BY FailsTyped DEF TypeInv, Done
<1>4. CASE BindStream(p, k)
  <2>1. /\ name \in DOMAIN streams
        /\ IF k = "dlq" THEN BindsDlqStream(opt[p], streams[name]["subjects"])
           ELSE BindsStream(opt[p], k, streams[name]["subjects"])
        /\ Manual(p, k, "stream")
    BY <1>1, <1>3, <1>4 DEF BindStream, Errors
  <2>2. streams' = streams
    BY <1>4 DEF BindStream, broker
  <2>3. CASE need = Needs(opt[p], k)
    <3>1. k # "dlq" => Has(p, k, need)
      BY <2>1, <2>3 DEF ProvidedInv, Provided
    <3>2. k = "dlq" => Stores(streams[name]["subjects"], need)
      BY <2>1, <2>3 DEF Stores, Needs, BindsDlqStream
    <3> QED BY <1>1, <1>2, <2>1, <2>2, <3>1, <3>2 DEF Has
  <2>4. CASE need # Needs(opt[p], k)
    <3>1. k # "dlq" /\ need \in GetSubjects(opt[p], k) \ {FilterSubject(opt[p], k)}
      BY <2>4 DEF Required, Needs
    <3>2. SchedulingEnabled(opt[p], k) /\ need = Append(SchedulePrefix(opt[p], k), ">")
      BY <3>1 DEF GetSubjects
    <3> QED BY <1>1, <1>2, <2>1, <2>2, <3>1, <3>2 DEF Has, Stores, BindsStream
  <2> QED BY <2>3, <2>4
<1>5. CASE WriteStream(p, k)
  <2>1. PICK was, do, built :
          /\ was = seen[p][k] /\ do = HandleExistingStream(opt[p], k, was)
          /\ built = BuildConfig(opt[p], k)
    OBVIOUS
  <2>2. /\ k \in AllKinds /\ Looking(p, k)
        /\ \A n \in DOMAIN streams : n \in DOMAIN streams'
        /\ \/ was = Nothing /\ name \in DOMAIN streams' /\ streams'[name] = built
           \/ was # Nothing /\ do.call = "none" /\ streams' = streams
           \/ /\ was # Nothing /\ do.call \in {"update", "migrate"}
              /\ streams'[name] = do.config ++ streams[name]
    BY <1>1, <1>3, <1>5, <2>1, WriteOutcome
  <2>3. was # Nothing => name \in DOMAIN streams /\ name \in DOMAIN streams'
    BY <1>1, <2>1, <2>2 DEF SeenInv, Saw
  <2>4. \A l \in DOMAIN opt[p].prefix : opt[p].prefix[l] \in Seq(Token)
    BY DEF SharedInv
  <2>5. k = "broadcast" /\ was # Nothing =>
          IsFiniteSet(was["subjects"]) /\ was["subjects"] \subseteq Seq(Token)
    <3>1. NameOf(opt[p], "broadcast") = Shared
      BY DEF NameOf, StreamName, Shared
    <3> QED BY <1>1, <2>1, <2>2, <2>3, <3>1 DEF SharedInv, Saw
  <2>6. ASSUME NEW subjects, was # Nothing,
               k # "broadcast" => subjects = built["subjects"],
               k = "broadcast" => subjects = MergeSubjects(GetSubjects(opt[p], k), was["subjects"])
        PROVE  Stores(subjects, need)
    BY <1>1, <2>1, <2>2, <2>4, <2>5, <2>6, DesiredStores
  <2>7. CASE was = Nothing /\ name \in DOMAIN streams' /\ streams'[name] = built
    <3>1. built["subjects"] = IF k = "dlq" THEN {DlqStreamName(opt[p])} ELSE GetSubjects(opt[p], k)
      BY <2>1, <2>2, ConfigBuilt
    <3>2. Stores(built["subjects"], need)
      BY <1>1, <2>1, <2>2, <2>4, <3>1, DesiredStores
    <3> QED BY <1>1, <1>2, <2>7, <3>2 DEF Has
  <2>8. CASE was # Nothing /\ do.call = "none" /\ streams' = streams
    <3>1. PICK desired : desired = Desired(opt[p], k, was)
      OBVIOUS
    <3>2. was["subjects"] = desired["subjects"]
      BY <2>1, <2>2, <2>8, <3>1, WhenSent
    <3>3. /\ k # "broadcast" => desired["subjects"] = built["subjects"]
          /\ k = "broadcast" =>
               desired["subjects"] = MergeSubjects(GetSubjects(opt[p], k), was["subjects"])
      BY <2>1, <2>2, <3>1, WhatIsDesired
    <3>4. Stores(was["subjects"], need)
      BY <2>6, <2>8, <3>2, <3>3
    <3>5. Has(p, k, need) \/ was["subjects"] = streams[name]["subjects"]
      BY <1>1, <2>1, <2>2, <2>8 DEF ProvidedInv, Saw
    <3> QED BY <1>1, <1>2, <2>3, <2>8, <3>4, <3>5 DEF Has
  <2>9. CASE /\ was # Nothing /\ do.call \in {"update", "migrate"}
             /\ streams'[name] = do.config ++ streams[name]
    <3>1. PICK there, new : there = streams[name] /\ new = do.config ++ there
      OBVIOUS
    <3>2. Rewritten(opt[p], k, built, was, there, new)
      <4>1. do.call \in {"update", "migrate"}
        BY <2>9
      <4> QED BY <2>1, <2>2, <3>1, <4>1, StreamRewritten
    <3>3. Stores(new["subjects"], need)
      BY <2>6, <2>9, <3>2 DEF Rewritten
    <3> QED BY <1>1, <1>2, <2>3, <2>9, <3>1, <3>3 DEF Has
  <2> QED BY <2>2, <2>7, <2>8, <2>9
<1> QED BY <1>4, <1>5

LEMMA ProvidedKept ==
  ASSUME PodsAgree, SharedExclusive, OptionsInv, TypeInv, SeenInv, SharedInv, ProvidedInv,
         [Next]_vars
  PROVE  ProvidedInv'
<1>1. opt' = opt /\ \A p \in Pods : Wanted(p)' = Wanted(p)
  BY OptionsStay DEF Wanted
<1>2. ASSUME NEW p \in Pods, NEW k \in Wanted(p)
      PROVE  Manual(p, k, "stream")' /\ k # "dlq" => Provided(p, k)'
  <2>1. Needs(opt[p], k) \in Required(opt[p], k) /\ Needs(opt[p], k)' = Needs(opt[p], k)
    BY <1>1 DEF Required
  <2>2. Provided(p, k) => Provided(p, k)'
    BY <2>1, ProvidedStays DEF Provided, Has
  <2> QED BY <1>1, <2>2 DEF ProvidedInv, Manual
<1>3. ASSUME NEW p \in Pods, NEW k \in Wanted(p), NEW need \in Required(opt[p], k)
      PROVE  /\ Finished(p, k)' => Has(p, k, need)'
             /\ Saw(p, k)' =>
                  \/ Has(p, k, need)'
                  \/ seen'[p][k]["subjects"] = streams'[NameOf(opt'[p], k)]["subjects"]
  <2>1. k \in AllKinds
    BY WantedKinds
  <2>2. Has(p, k, need) => Has(p, k, need)'
    BY ProvidedStays
  <2>3. ASSUME Finished(p, k)' PROVE Has(p, k, need)'
    <3>1. CASE Finished(p, k)
      BY <2>2, <3>1 DEF ProvidedInv
    <3>2. CASE /\ k \in todo[p] /\ Done(p, k) /\ error[p] = "none"
               /\ WriteStream(p, k) \/ BindStream(p, k)
      BY <3>2, FinishProvides
    <3> QED BY <2>1, <2>3, <3>1, <3>2, Finishes
  <2>4. ASSUME Saw(p, k)'
        PROVE  \/ Has(p, k, need)'
               \/ seen'[p][k]["subjects"] = streams'[NameOf(opt'[p], k)]["subjects"]
    <3>1. PICK name : name = NameOf(opt[p], k)
      OBVIOUS
    <3>2. Looking(p, k)' /\ seen'[p][k] # Nothing
      BY <2>4 DEF Saw, Nothing
    <3>3. CASE ~(Looking(p, k) /\ seen'[p][k] = seen[p][k])
      <4>1. streams' = streams /\ seen'[p][k] = streams[name]
        BY <2>1, <3>1, <3>2, <3>3, Looks
      <4> QED BY <1>1, <3>1, <4>1
    <3>4. CASE k = "broadcast"
      <4>1. SharedInv'
        BY SharedKept
      <4>2. NameOf(opt'[p], k) = Shared
        BY <3>4 DEF NameOf, StreamName, Shared
      <4> QED BY <2>4, <3>4, <4>1, <4>2 DEF SharedInv
    <3>5. CASE Looking(p, k) /\ seen'[p][k] = seen[p][k] /\ k # "broadcast"
      <4>1. Saw(p, k)
        BY <3>2, <3>5 DEF Saw
      <4>2. /\ name \in DOMAIN streams /\ name \in DOMAIN streams'
            /\ Has(p, k, need) \/ seen[p][k]["subjects"] = streams[name]["subjects"]
        BY <2>1, <3>1, <4>1, StreamsStay DEF SeenInv, ProvidedInv
      <4>3. CASE streams'[name] = streams[name]
        BY <1>1, <2>2, <3>1, <3>5, <4>2, <4>3
      <4>4. CASE streams'[name] # streams[name]
        <5>1. PICK r \in Pods : \E l \in todo[r] : WriteStream(r, l)
          BY <4>4, OnlyWrites
        <5>2. PICK l \in todo[r] : WriteStream(r, l)
          BY <5>1
        <5>3. NameOf(opt[r], l) = name
          BY <4>2, <4>4, <5>2, WriteOutcome
        <5>4. l = k
          <6>1. l \in AllKinds
            BY DEF TypeInv, PodsTyped
          <6>2. PICK o, u : o = opt[r] /\ u = opt[p]
            OBVIOUS
          <6>3. NameOf(o, l) = NameOf(u, k)
            BY <3>1, <5>3, <6>2
          <6> QED BY <2>1, <6>1, <6>3, NamesDiffer
        <5>5. Stores(streams'[name]["subjects"], need)
          BY <3>1, <3>5, <4>4, <5>2, <5>3, <5>4, WriteProvides
        <5> QED BY <1>1, <3>1, <4>2, <5>5 DEF Has
      <4> QED BY <4>3, <4>4
    <3> QED BY <3>3, <3>4, <3>5
  <2> QED BY <2>3, <2>4
<1>4. \A p \in Pods : \A k : Required(opt'[p], k) = Required(opt[p], k)
  BY <1>1
<1> QED BY <1>1, <1>2, <1>3, <1>4 DEF ProvidedInv

LEMMA InitProvided ==
  ASSUME OperatorProvides, Init
  PROVE  OptionsInv /\ ProvidedInv
<1>1. PICK s \in Scenarios :
        /\ opt = s.opts /\ streams = s.streams
        /\ phase = [p \in Pods |-> "down"]
        /\ seen = [p \in Pods |-> Nothing]
  BY DEF Init
<1>2. \A p \in Pods, k \in AllKinds : ~Saw(p, k) /\ ~Finished(p, k)
  BY <1>1 DEF Saw, Looking, Finished, Nothing
<1>3. ASSUME NEW p \in Pods, NEW k \in Wanted(p), Manual(p, k, "stream"), k # "dlq"
      PROVE  Provided(p, k)
  <2>1. k \in StreamKinds(s.opts[p])
    BY <1>1, <1>3, WantedKinds
  <2> QED BY <1>1, <1>3, <2>1 DEF OperatorProvides, Manual, Provided, Has, Stores, Needs, NameOf
<1> QED BY <1>1, <1>2, <1>3, WantedKinds DEF OptionsInv, ProvidedInv

--------------------------------------------------------------------------------
(***************************************************************************)
(* Wired: subjects and filters.                                            *)
(***************************************************************************)
\* Every subject has a length, which what an operator writes needs too.
SubjectsInv ==
  \A name \in DOMAIN streams : \A t \in streams[name]["subjects"] : Len(t) \in Nat

\* What the names of a service are made of.
Letters(o, k) == Token \cup {o.svc, k, "_sch"}

LEMMA PrefixTyped ==
  ASSUME NEW o, NEW k, \A l \in DOMAIN o.prefix : o.prefix[l] \in Seq(Token)
  PROVE  /\ Prefix(o, k) \in Seq(Letters(o, k))
         /\ FilterSubject(o, k) \in Seq(Letters(o, k))
         /\ SchedulePrefix(o, k) \in Seq(Letters(o, k))
         /\ Append(SchedulePrefix(o, k), ">") \in Seq(Letters(o, k))
<1>1. PICK S, svc : S = Letters(o, k) /\ svc = o.svc
  OBVIOUS
<1>2. /\ {svc, k, "_sch", "broadcast", ">"} \subseteq S
      /\ Token \subseteq S
  BY <1>1 DEF Letters, Token
<1>3. <<"broadcast">> \in Seq(S) /\ <<svc, k>> \in Seq(S) /\ <<svc, "_sch">> \in Seq(S)
  BY <1>2
<1>4. Prefix(o, k) \in Seq(S)
  <2>1. CASE HasCustomPrefix(o, k)
    <3>1. Prefix(o, k) = o.prefix[k] /\ k \in DOMAIN o.prefix
      BY <2>1 DEF Prefix, HasCustomPrefix
    <3>2. Seq(Token) \subseteq Seq(S)
      BY <1>2
    <3> QED BY <3>1, <3>2
  <2>2. CASE ~HasCustomPrefix(o, k)
    <3>1. Prefix(o, k) = IF k = "broadcast" THEN <<"broadcast">> ELSE <<svc, k>>
      BY <1>1, <2>2 DEF Prefix, ConventionPrefix
    <3> QED BY <1>3, <3>1
  <2> QED BY <2>1, <2>2
<1>5. \A s \in Seq(S) : Append(s, ">") \in Seq(S) /\ Append(s, "_sch") \in Seq(S)
  BY <1>2, AppendProperties
<1>6. SchedulePrefix(o, k) \in Seq(S)
  BY <1>1, <1>3, <1>4, <1>5 DEF SchedulePrefix
<1> QED BY <1>1, <1>4, <1>5, <1>6 DEF FilterSubject

\* A pattern that covers a literal subject matches it.
LEMMA CoverMatches ==
  ASSUME NEW t, NEW s, Len(t) \in Nat, Len(s) \in Nat, CoversOrEquals(t, s)
  PROVE  Matches(t, s)
<1>1. CASE t = s
  BY <1>1 DEF Matches
<1>2. CASE SubjectCovers(t, s)
  BY <1>2 DEF SubjectCovers, Matches
<1> QED BY <1>1, <1>2 DEF CoversOrEquals

\* A pattern that covers everything under a prefix matches what is under it.
LEMMA WildcardMatches ==
  ASSUME NEW S, NEW prefix \in Seq(S), NEW pattern \in Seq(S), pattern # <<>>, NEW t,
         Len(t) \in Nat, CoversOrEquals(t, Append(prefix, ">"))
  PROVE  Matches(t, prefix \o pattern)
<1>1. PICK wide, s : wide = Append(prefix, ">") /\ s = prefix \o pattern
  OBVIOUS
<1>2. /\ Len(wide) = Len(prefix) + 1 /\ wide[Len(prefix) + 1] = ">"
      /\ \A i \in 1 .. Len(prefix) : wide[i] = prefix[i]
  <2>1. PICK U : U = S \cup {">"}
    OBVIOUS
  <2>2. prefix \in Seq(U) /\ ">" \in U
    BY <2>1
  <2> QED BY <1>1, <2>2, AppendProperties
<1>3. /\ Len(s) = Len(prefix) + Len(pattern) /\ Len(prefix) \in Nat
      /\ \A i \in 1 .. Len(prefix) : s[i] = prefix[i]
  BY <1>1, ConcatProperties
<1>4. Len(pattern) \in Nat /\ Len(pattern) >= 1
  BY EmptySeq
<1>5. CASE t = wide
  <2>1. Tailed(t) /\ Fixed(t) = Len(prefix)
    <3>1. t # <<>>
      BY <1>2, <1>3, <1>5
    <3> QED BY <1>2, <1>3, <1>5, <3>1 DEF Tailed, Fixed
  <2> QED BY <1>1, <1>2, <1>3, <1>4, <1>5, <2>1 DEF Matches
<1>6. CASE SubjectCovers(t, wide)
  <2>1. Tailed(t)
    <3> SUFFICES ASSUME ~Tailed(t) PROVE FALSE
      OBVIOUS
    <3>1. Len(t) = Len(prefix) + 1 /\ Fixed(t) = Len(prefix) + 1
      BY <1>2, <1>6 DEF SubjectCovers, Fixed
    <3>2. wide[Len(prefix) + 1] # ">"
      BY <1>3, <1>6, <3>1 DEF SubjectCovers
    <3> QED BY <1>2, <3>2
  <2>2. Fixed(t) = Len(t) - 1 /\ Len(t) <= Len(prefix) + 1
    BY <1>2, <1>6, <2>1 DEF SubjectCovers, Fixed
  <2>3. ASSUME NEW i \in 1 .. Fixed(t) PROVE t[i] \in {"*", s[i]}
    <3>1. i \in 1 .. Len(prefix)
      BY <1>3, <2>2
    <3>2. t[i] \in {"*", wide[i]}
      BY <1>6 DEF SubjectCovers
    <3> QED BY <1>2, <1>3, <3>1, <3>2
  <2> QED BY <1>1, <1>3, <1>4, <2>1, <2>2, <2>3 DEF Matches
<1> QED BY <1>1, <1>5, <1>6 DEF CoversOrEquals

\* The options of a pod have the types that the scenarios give them.
LEMMA OptionsTyped ==
  ASSUME OptionsInv, NEW p \in Pods
  PROVE  /\ \A l \in DOMAIN opt[p].prefix : opt[p].prefix[l] \in Seq(Token)
         /\ \A h \in opt[p].handlers : h.pattern \in Seq(STRING) \ {<<>>}
<1>1. PICK s \in Scenarios : opt = s.opts
  BY DEF OptionsInv
<1>2. Seq(STRING) \subseteq Seq(Token)
  BY DEF Token
<1> QED BY <1>1, <1>2, DeploymentAssumption

\* The subject of a handler: it has a length, and whatever covers the subjects of its kind
\* matches it.
LEMMA HandlerSubject ==
  ASSUME OptionsInv, NEW p \in Pods, NEW h \in opt[p].handlers, NEW k, NEW subject,
         subject = Subject(opt[p], k, h.pattern)
  PROVE  /\ Len(subject) \in Nat
         /\ \A t : Len(t) \in Nat /\ CoversOrEquals(t, FilterSubject(opt[p], k)) =>
                     Matches(t, subject)
<1>1. PICK S, prefix, pattern :
        S = Letters(opt[p], k) /\ prefix = Prefix(opt[p], k) /\ pattern = h.pattern
  OBVIOUS
<1>2. prefix \in Seq(S) /\ pattern \in Seq(STRING) /\ pattern # <<>>
  BY <1>1, OptionsTyped, PrefixTyped
<1>3. Seq(STRING) \subseteq Seq(S)
  BY <1>1 DEF Letters, Token
<1>4. subject = prefix \o pattern /\ FilterSubject(opt[p], k) = Append(prefix, ">")
  BY <1>1 DEF Subject, FilterSubject
<1>5. pattern \in Seq(S)
  BY <1>2, <1>3
<1>6. Len(subject) \in Nat
  BY <1>2, <1>4, <1>5, ConcatProperties, LenProperties
<1>7. ASSUME NEW t, Len(t) \in Nat, CoversOrEquals(t, FilterSubject(opt[p], k))
      PROVE  Matches(t, subject)
  BY <1>2, <1>4, <1>5, <1>7, WildcardMatches
<1> QED BY <1>6, <1>7

LEMMA SubjectsBuilt ==
  ASSUME NEW o, NEW k \in AllKinds, \A l \in DOMAIN o.prefix : o.prefix[l] \in Seq(Token)
  PROVE  \A t \in BuildConfig(o, k)["subjects"] : Len(t) \in Nat
<1>1. /\ Len(FilterSubject(o, k)) \in Nat /\ Len(Append(SchedulePrefix(o, k), ">")) \in Nat
  <2>1. PICK S, f, s : /\ S = Letters(o, k) /\ f = FilterSubject(o, k)
                       /\ s = Append(SchedulePrefix(o, k), ">")
    OBVIOUS
  <2>2. f \in Seq(S) /\ s \in Seq(S)
    BY <2>1, PrefixTyped
  <2> QED BY <2>1, <2>2, LenProperties
<1>2. Len(DlqStreamName(o)) \in Nat
  BY DEF DlqStreamName
<1>3. BuildConfig(o, k)["subjects"] = IF k = "dlq" THEN {DlqStreamName(o)} ELSE GetSubjects(o, k)
  BY ConfigBuilt
<1> QED BY <1>1, <1>2, <1>3 DEF GetSubjects

LEMMA SubjectsKept ==
  ASSUME OptionsInv, TypeInv, SeenInv, SharedInv, SharedExclusive, SubjectsInv, [Next]_vars
  PROVE  SubjectsInv'
<1> SUFFICES ASSUME NEW name \in DOMAIN streams', NEW t \in streams'[name]["subjects"]
             PROVE  Len(t) \in Nat
  BY DEF SubjectsInv
<1>1. CASE name = Shared
  <2>1. t \in Seq(Token)
    BY <1>1, SharedKept DEF SharedInv
  <2> QED BY <2>1, LenProperties
<1>2. ASSUME name # Shared, NEW r \in Pods, NEW k \in todo[r], WriteStream(r, k)
      PROVE  Len(t) \in Nat
  <2>1. PICK was, do, built :
          /\ was = seen[r][k] /\ do = HandleExistingStream(opt[r], k, was)
          /\ built = BuildConfig(opt[r], k)
    OBVIOUS
  <2>2. /\ k \in AllKinds
        /\ \/ name \in DOMAIN streams /\ streams'[name] = streams[name]
           \/ name = NameOf(opt[r], k) /\ streams'[name] = built
           \/ /\ name = NameOf(opt[r], k) /\ was # Nothing /\ do.call \in {"update", "migrate"}
              /\ streams'[name] = do.config ++ streams[name]
    BY <1>2, <2>1, WriteOutcome
  <2>3. \A s \in built["subjects"] : Len(s) \in Nat
    BY <2>1, <2>2, OptionsTyped, SubjectsBuilt
  <2>4. CASE /\ name = NameOf(opt[r], k) /\ was # Nothing /\ do.call \in {"update", "migrate"}
             /\ streams'[name] = do.config ++ streams[name]
    <3>1. PICK there, new : there = streams[name] /\ new = do.config ++ there
      OBVIOUS
    <3>2. Rewritten(opt[r], k, built, was, there, new)
      <4>1. do.call \in {"update", "migrate"}
        BY <2>4
      <4> QED BY <2>1, <2>2, <3>1, <4>1, StreamRewritten
    <3>3. k # "broadcast"
      BY <1>2, <2>4 DEF NameOf, StreamName, Shared
    <3>4. new["subjects"] = built["subjects"]
      BY <3>2, <3>3 DEF Rewritten
    <3> QED BY <2>3, <2>4, <3>1, <3>4
  <2> QED BY <2>2, <2>3, <2>4 DEF SubjectsInv
<1> QED BY <1>1, <1>2, OnlyWrites DEF SubjectsInv

LEMMA InitSubjects == Init => SubjectsInv
<1> SUFFICES ASSUME Init PROVE SubjectsInv
  OBVIOUS
<1>1. PICK s \in Scenarios : streams = s.streams
  BY DEF Init
<1>2. \A name \in DOMAIN streams : streams[name]["subjects"] \subseteq Seq(STRING)
  BY <1>1, DeploymentAssumption
<1> QED BY <1>2, LenProperties DEF SubjectsInv

\* What a handler's client publishes is stored where the kind's stream is provided.
LEMMA ProvidedMatches ==
  ASSUME OptionsInv, SubjectsInv, NEW p \in Pods, NEW h \in opt[p].handlers, NEW k \in Kinds,
         Provided(p, k)
  PROVE  StoredBy(StreamName(opt[p], k), Subject(opt[p], k, h.pattern))
<1>1. PICK name, subject :
        name = StreamName(opt[p], k) /\ subject = Subject(opt[p], k, h.pattern)
  OBVIOUS
<1>2. k # "dlq"
  BY DEF Kinds
<1>3. name \in DOMAIN streams /\ Stores(streams[name]["subjects"], FilterSubject(opt[p], k))
  BY <1>1, <1>2 DEF Provided, Has, NameOf, Needs
<1>4. PICK t \in streams[name]["subjects"] : CoversOrEquals(t, FilterSubject(opt[p], k))
  BY <1>3 DEF Stores
<1>5. Len(t) \in Nat
  BY <1>3 DEF SubjectsInv
<1>6. Matches(t, subject)
  BY <1>1, <1>4, <1>5, HandlerSubject
<1> QED BY <1>1, <1>3, <1>6 DEF StoredBy

LEMMA DeadLettersStored ==
  ASSUME SubjectsInv, NEW p \in Pods, Provided(p, "dlq")
  PROVE  StoredBy(DlqStreamName(opt[p]), DlqStreamName(opt[p]))
<1>1. PICK name : name = DlqStreamName(opt[p])
  OBVIOUS
<1>2. name \in DOMAIN streams /\ Stores(streams[name]["subjects"], name)
  BY <1>1 DEF Provided, Has, NameOf, Needs
<1>3. Len(name) \in Nat
  BY <1>1 DEF DlqStreamName
<1>4. PICK t \in streams[name]["subjects"] : CoversOrEquals(t, name)
  BY <1>2 DEF Stores
<1>5. Matches(t, name)
  BY <1>2, <1>3, <1>4, CoverMatches DEF SubjectsInv
<1> QED BY <1>1, <1>2, <1>5 DEF StoredBy

--------------------------------------------------------------------------------
(***************************************************************************)
(* Wired: the consumers.                                                   *)
(***************************************************************************)
\* Filters that take the subject of every handler of the kind.
Serves(p, k, filters) ==
  \A h \in {h \in opt[p].handlers : h.kind = k} :
    filters = {} \/ \E f \in filters : Matches(f, Subject(opt[p], k, h.pattern))

\* The pod is through with its consumer of the kind.
Attached(p, k) ==
  /\ k \in DurableKinds(opt[p])
  /\ error[p] = "none"
  /\ phase[p] = "up" \/ (phase[p] = "consumers" /\ k \notin todo[p])

\* The pod has looked for its consumer of the kind and found none.
Missed(p, k) == phase[p] = "consumers" /\ k \in DOMAIN seen[p] /\ ~seen[p][k]

\* The filters that the pod gives its consumer, or that its binder accepts.
Fits(p, k, filters) ==
  filters = Filters(opt[p], k) \/ BindsConsumer(opt[p], k, filters)

\* So are those of a consumer that a pod is through with, or that came after the pod looked
\* for it.
ConsumersInv ==
  /\ \A c \in DOMAIN consumers : \A f \in consumers[c] : Len(f) \in Nat
  /\ \A p \in Pods : \A k \in DurableKinds(opt[p]) :
       ConsumerOf(p, k) \in DOMAIN consumers /\ (Attached(p, k) \/ Missed(p, k)) =>
         Fits(p, k, consumers[ConsumerOf(p, k)])

LEMMA FiltersServe ==
  ASSUME OptionsInv, NEW p \in Pods, NEW k
  PROVE  /\ Serves(p, k, Filters(opt[p], k))
         /\ \A f \in Filters(opt[p], k) : Len(f) \in Nat
<1>1. PICK wide : wide = FilterSubject(opt[p], k)
  OBVIOUS
<1>2. Len(wide) \in Nat
  <2>1. wide \in Seq(Letters(opt[p], k))
    BY <1>1, OptionsTyped, PrefixTyped
  <2> QED BY <2>1, LenProperties
<1>3. ASSUME NEW h \in {h \in opt[p].handlers : h.kind = k}
      PROVE  /\ Len(Subject(opt[p], k, h.pattern)) \in Nat
             /\ Matches(Subject(opt[p], k, h.pattern), Subject(opt[p], k, h.pattern))
             /\ Matches(wide, Subject(opt[p], k, h.pattern))
  <2>1. PICK subject : subject = Subject(opt[p], k, h.pattern)
    OBVIOUS
  <2>2. Len(subject) \in Nat /\ Matches(wide, subject)
    BY <1>1, <1>2, <2>1, HandlerSubject DEF CoversOrEquals
  <2> QED BY <2>1, <2>2, CoverMatches DEF CoversOrEquals
<1>4. SubjectsOf(opt[p], k) =
        {Subject(opt[p], k, h.pattern) : h \in {h \in opt[p].handlers : h.kind = k}}
  BY DEF SubjectsOf, PatternsOf
<1>5. Filters(opt[p], k) \in {SubjectsOf(opt[p], k), {wide}}
  BY <1>1 DEF Filters
<1>6. CASE Filters(opt[p], k) = SubjectsOf(opt[p], k)
  BY <1>3, <1>4, <1>6 DEF Serves
<1>7. CASE Filters(opt[p], k) = {wide}
  BY <1>2, <1>3, <1>7 DEF Serves
<1> QED BY <1>5, <1>6, <1>7

\* What the binder accepts serves.
LEMMA CoveredServes ==
  ASSUME OptionsInv, NEW p \in Pods, NEW k, NEW filters, \A f \in filters : Len(f) \in Nat,
         HandlersCovered(opt[p], k, filters)
  PROVE  Serves(p, k, filters)
<1> SUFFICES ASSUME NEW h \in {h \in opt[p].handlers : h.kind = k}, filters # {}
             PROVE  \E f \in filters : Matches(f, Subject(opt[p], k, h.pattern))
  BY DEF Serves
<1>1. PICK subject : subject = Subject(opt[p], k, h.pattern)
  OBVIOUS
<1>2. subject \in SubjectsOf(opt[p], k)
  BY <1>1 DEF SubjectsOf, PatternsOf
<1>3. PICK f \in filters : CoversOrEquals(f, subject)
  BY <1>2 DEF HandlersCovered, FilterCoversSubject
<1>4. Len(subject) \in Nat
  BY <1>1, HandlerSubject
<1> QED BY <1>1, <1>3, <1>4, CoverMatches

\* A consumer is only ever written with the filters of a pod whose consumer it is.
LEMMA OnlyFilters ==
  ASSUME TypeInv, SeenInv, [Next]_vars, NEW c \in DOMAIN consumers'
  PROVE  \/ c \in DOMAIN consumers /\ consumers'[c] = consumers[c]
         \/ \E r \in Pods : \E l \in DurableKinds(opt[r]) :
              c = ConsumerOf(r, l) /\ consumers'[c] = Filters(opt[r], l)
<1>1. ASSUME NEW r \in Pods, NEW l, NEW d, NEW filters,
             l \in DurableKinds(opt[r]), d = ConsumerOf(r, l), filters = Filters(opt[r], l),
             consumers' = Only(d, filters) ++ consumers
      PROVE  \/ c \in DOMAIN consumers /\ consumers'[c] = consumers[c]
             \/ c = d /\ consumers'[c] = filters
  BY <1>1, Single, Spread
<1>2. ASSUME NEW r \in Pods, NEW l \in todo[r], WriteConsumer(r, l)
      PROVE  consumers' = consumers \/
             (l \in DurableKinds(opt[r]) /\
              consumers' = Only(ConsumerOf(r, l), Filters(opt[r], l)) ++ consumers)
  <2>1. l \in DurableKinds(opt[r])
    BY <1>2 DEF WriteConsumer, TypeInv, PodsTyped, KindsOf
  <2> QED BY <1>2, <2>1 DEF WriteConsumer
<1>3. ASSUME NEW r \in Pods, NEW l, RecoverConsumer(r, l)
      PROVE  /\ l \in DurableKinds(opt[r])
             /\ consumers' = Only(ConsumerOf(r, l), Filters(opt[r], l)) ++ consumers
  BY <1>3 DEF RecoverConsumer
<1>4. ASSUME NEW d, DeleteConsumer(d)
      PROVE  c \in DOMAIN consumers /\ consumers'[c] = consumers[c]
  BY <1>4 DEF DeleteConsumer
<1>5. ASSUME NEW r \in Pods, NEW l \in todo[r], WriteStream(r, l)
      PROVE  c \in DOMAIN consumers /\ consumers'[c] = consumers[c]
  <2>1. PICK name : name = NameOf(opt[r], l)
    OBVIOUS
  <2>2. \/ consumers' = consumers
        \/ consumers' = [d \in {d \in DOMAIN consumers : d[1] # name} |-> consumers[d]]
    BY <1>5, <2>1 DEF WriteStream, AddStream, UpdateStream, MigrateStream, broker
  <2> QED BY <2>2
<1>6. \/ consumers' = consumers
      \/ \E r \in Pods : \E l \in todo[r] : WriteConsumer(r, l) \/ WriteStream(r, l)
      \/ \E r \in Pods : \E l \in Kinds : RecoverConsumer(r, l)
      \/ \E d \in DOMAIN consumers : DeleteConsumer(d)
  BY DEF Next, vars, broker, Boot, Exit, ReadStream, BindStream, ReadConsumer, BindConsumer,
         CallFails
<1> QED BY <1>1, <1>2, <1>3, <1>4, <1>5, <1>6

\* Pods that share a consumer agree on its filters.
LEMMA ConsumersStay ==
  ASSUME PodsAgree, OptionsInv, TypeInv, SeenInv, [Next]_vars,
         NEW p \in Pods, NEW k \in DurableKinds(opt[p]),
         NEW c \in DOMAIN consumers', c = ConsumerOf(p, k)
  PROVE  \/ c \in DOMAIN consumers /\ consumers'[c] = consumers[c]
         \/ consumers'[c] = Filters(opt[p], k)
<1> SUFFICES ASSUME NEW r \in Pods, NEW l \in DurableKinds(opt[r]),
                    c = ConsumerOf(r, l), consumers'[c] = Filters(opt[r], l)
             PROVE  consumers'[c] = Filters(opt[p], k)
  BY OnlyFilters
<1>1. l = k /\ opt[r].svc = opt[p].svc
  <2>1. ConsumerName(opt[r], l) = ConsumerName(opt[p], k)
    BY DEF ConsumerOf
  <2> QED BY <2>1 DEF ConsumerName
<1>2. k \in StreamKinds(opt[p]) /\ k \in StreamKinds(opt[r]) /\ k # "ordered"
  BY <1>1 DEF DurableKinds
<1>3. Filters(opt[r], l) = Filters(opt[p], k)
  BY <1>1, <1>2, Agreed
<1> QED BY <1>3

\* A pod that has missed a consumer has done so before, or looks for it now.
LEMMA Misses ==
  ASSUME TypeInv, SeenInv, [Next]_vars, NEW q \in Pods, NEW k, Missed(q, k)'
  PROVE  Missed(q, k) \/ (ConsumerOf(q, k) \notin DOMAIN consumers /\ consumers' = consumers)
<1>1. PodsTyped /\ phase'[q] = "consumers" /\ k \in DOMAIN seen'[q] /\ ~seen'[q][k]
  BY DEF TypeInv, Missed
<1>2. ASSUME NEW p \in Pods, NEW j \in todo[p], Done(p, j)
      PROVE  Missed(q, k)
  <2> DEFINE next == IF error[p] # "none" \/ todo[p] # {j} THEN phase[p] ELSE After(p)
  <2>1. /\ phase' = [phase EXCEPT ![p] = next]
        /\ seen' = [seen EXCEPT ![p] = [i \in DOMAIN @ \ {j} |-> @[i]]]
    BY <1>2 DEF Done
  <2>2. CASE q # p
    BY <1>1, <2>1, <2>2 DEF PodsTyped, Missed
  <2>3. CASE q = p
    <3>1. seen'[p] = [i \in DOMAIN seen[p] \ {j} |-> seen[p][i]]
      BY <1>1, <2>1 DEF PodsTyped
    <3>2. k \in DOMAIN seen[p] \ {j} /\ seen'[p][k] = seen[p][k]
      BY <1>1, <2>3, <3>1
    <3>3. todo[p] # {j}
      BY <1>1, <3>2 DEF PodsTyped
    <3>4. phase'[p] = phase[p]
      BY <1>1, <2>1, <3>3 DEF PodsTyped
    <3> QED BY <1>1, <2>3, <3>2, <3>4 DEF Missed
  <2> QED BY <2>2, <2>3
<1>3. ASSUME NEW p \in Pods, NEW j \in todo[p], NEW why, Fails(p, j, why)
      PROVE  Missed(q, k)
  <2>1. /\ phase' = phase
        /\ seen' = [seen EXCEPT ![p] = [i \in DOMAIN @ \ {j} |-> @[i]]]
    BY <1>3 DEF Fails
  <2> QED BY <1>1, <2>1 DEF PodsTyped, Missed
<1>4. ASSUME NEW p \in Pods, NEW j \in todo[p], WriteStream(p, j)
      PROVE  Missed(q, k)
  <2>1. Done(p, j) \/ \E why \in Errors \ {"none"} : Fails(p, j, why)
    BY <1>4, WriteOutcome
  <2> QED BY <1>2, <1>3, <2>1
<1>5. ASSUME NEW p \in Pods, NEW j \in todo[p],
             BindStream(p, j) \/ WriteConsumer(p, j) \/ BindConsumer(p, j) \/ CallFails(p, j)
      PROVE  Missed(q, k)
  <2>1. Done(p, j) \/ \E why : Fails(p, j, why)
    BY <1>5 DEF BindStream, WriteConsumer, BindConsumer, CallFails
  <2> QED BY <1>2, <1>3, <2>1
<1>6. ASSUME NEW p \in Pods, Boot(p)
      PROVE  Missed(q, k)
  <2>1. seen' = seen /\ phase[p] = "down" /\ \A r \in Pods \ {p} : phase'[r] = phase[r]
    BY <1>1, <1>6 DEF Boot, PodsTyped
  <2>2. q # p
    BY <1>1, <2>1, Phases DEF PodsTyped
  <2> QED BY <1>1, <2>1, <2>2 DEF Missed
<1>7. ASSUME NEW p \in Pods, Exit(p)
      PROVE  Missed(q, k)
  <2>1. /\ seen'[p] = Nothing /\ DOMAIN Nothing = {}
        /\ \A r \in Pods \ {p} : seen'[r] = seen[r] /\ phase'[r] = phase[r]
    BY <1>1, <1>7 DEF Exit, PodsTyped, Nothing
  <2> QED BY <1>1, <2>1 DEF Missed
<1>8. ASSUME NEW p \in Pods, NEW j \in todo[p], ReadStream(p, j)
      PROVE  Missed(q, k)
  <2>1. /\ phase' = phase /\ phase[p] # "consumers"
        /\ \A r \in Pods \ {p} : seen'[r] = seen[r]
    BY <1>1, <1>8 DEF ReadStream, PodsTyped
  <2> QED BY <1>1, <2>1 DEF Missed
<1>9. ASSUME NEW p \in Pods, NEW j \in todo[p], ReadConsumer(p, j)
      PROVE  \/ Missed(q, k)
             \/ ConsumerOf(q, k) \notin DOMAIN consumers /\ consumers' = consumers
  <2>1. PICK found : /\ seen' = [seen EXCEPT ![p] = Only(j, found) ++ @]
                     /\ ConsumerOf(p, j) \in DOMAIN consumers => found
    BY <1>9 DEF ReadConsumer
  <2>2. phase' = phase /\ consumers' = consumers
    BY <1>9 DEF ReadConsumer, broker
  <2>3. /\ seen'[p] = Only(j, found) ++ seen[p]
        /\ \A r \in Pods \ {p} : seen'[r] = seen[r]
    BY <1>1, <2>1 DEF PodsTyped
  <2>4. CASE q # p \/ k # j
    <3>1. k \in DOMAIN seen[q] /\ seen'[q][k] = seen[q][k]
      BY <1>1, <2>3, <2>4, Single, Spread
    <3> QED BY <1>1, <2>2, <3>1 DEF Missed
  <2>5. CASE q = p /\ k = j
    <3>1. ~found
      BY <1>1, <2>3, <2>5, Single, Spread
    <3> QED BY <2>1, <2>2, <2>5, <3>1
  <2> QED BY <2>4, <2>5
<1>10. CASE UNCHANGED <<phase, seen>>
  BY <1>1, <1>10 DEF Missed
<1> QED BY <1>4, <1>5, <1>6, <1>7, <1>8, <1>9, <1>10
         DEF Next, vars, RecoverConsumer, DeleteConsumer

\* A pod comes to be through with a consumer by writing or by binding it.
LEMMA DoneAttaches ==
  ASSUME TypeInv, NEW q \in Pods, NEW j \in todo[q], Done(q, j), NEW k, Attached(q, k)'
  PROVE  Attached(q, k) \/ (k = j /\ phase[q] = "consumers")
<1> DEFINE next == IF error[q] # "none" \/ todo[q] # {j} THEN phase[q] ELSE After(q)
<1>1. /\ phase' = [phase EXCEPT ![q] = next]
      /\ todo' = [todo EXCEPT ![q] = IF next = phase[q] THEN @ \ {j} ELSE KindsOf(q, next)]
      /\ opt' = opt /\ error' = error
  BY DEF Done
<1>2. /\ phase'[q] = next
      /\ todo'[q] = IF next = phase[q] THEN todo[q] \ {j} ELSE KindsOf(q, next)
      /\ phase[q] \in {"streams", "dlq", "consumers"}
  BY <1>1, Phases DEF TypeInv, PodsTyped
<1>3. /\ k \in DurableKinds(opt[q]) /\ error[q] = "none"
      /\ phase'[q] = "up" \/ (phase'[q] = "consumers" /\ k \notin todo'[q])
  BY <1>1 DEF Attached
<1>4. CASE phase[q] = "consumers"
  <2>1. k \notin todo[q] \/ k = j
    <3>1. CASE next = phase[q]
      BY <1>2, <1>3, <1>4, <3>1
    <3>2. CASE next # phase[q]
      BY <3>2
    <3> QED BY <3>1, <3>2
  <2> QED BY <1>3, <1>4, <2>1 DEF Attached
<1>5. CASE phase[q] # "consumers"
  <2>1. next \in {"streams", "dlq", "consumers"}
    BY <1>2, <1>3, <1>5 DEF After, FromDlq, FromConsumers
  <2>2. next = "consumers" /\ next # phase[q]
    BY <1>2, <1>3, <1>5, <2>1
  <2>3. todo'[q] = DurableKinds(opt[q])
    BY <1>2, <2>2 DEF KindsOf
  <2> QED BY <1>2, <1>3, <2>2, <2>3
<1> QED BY <1>4, <1>5

LEMMA Attaches ==
  ASSUME TypeInv, SeenInv, [Next]_vars, NEW q \in Pods, NEW k, Attached(q, k)'
  PROVE  \/ Attached(q, k)
         \/ k \in todo[q] /\ error'[q] = "none" /\ (WriteConsumer(q, k) \/ BindConsumer(q, k))
<1>1. /\ PodsTyped /\ opt' = opt /\ error'[q] = "none" /\ k \in DurableKinds(opt[q])
      /\ phase'[q] = "up" \/ (phase'[q] = "consumers" /\ k \notin todo'[q])
  BY OptionsStay DEF TypeInv, Attached
<1>2. ASSUME NEW p \in Pods, NEW j \in todo[p], NEW why \in Errors \ {"none"}, Fails(p, j, why)
      PROVE  Attached(q, k)
  <2>1. p # q
    BY <1>1, <1>2, FailsTyped
  <2>2. phase' = phase /\ error'[q] = error[q] /\ todo'[q] = todo[q]
    BY <1>1, <1>2, <2>1 DEF Fails, PodsTyped
  <2> QED BY <1>1, <2>2 DEF Attached
<1>3. ASSUME NEW p \in Pods, NEW j \in todo[p], Done(p, j), p # q
      PROVE  Attached(q, k)
  <2>1. phase'[q] = phase[q] /\ error'[q] = error[q] /\ todo'[q] = todo[q]
    BY <1>1, <1>3 DEF Done, PodsTyped
  <2> QED BY <1>1, <2>1 DEF Attached
<1>4. ASSUME NEW p \in Pods, NEW j \in todo[p], WriteStream(p, j)
      PROVE  Attached(q, k)
  <2>1. Done(p, j) \/ \E why \in Errors \ {"none"} : Fails(p, j, why)
    BY <1>4, WriteOutcome
  <2>2. CASE Done(p, j) /\ p = q
    <3>1. phase[q] # "consumers"
      BY <1>4, <2>2 DEF WriteStream
    <3> QED BY <2>2, <3>1, DoneAttaches
  <2> QED BY <1>2, <1>3, <2>1, <2>2
<1>5. ASSUME NEW p \in Pods, NEW j \in todo[p],
             BindStream(p, j) \/ WriteConsumer(p, j) \/ BindConsumer(p, j) \/ CallFails(p, j)
      PROVE  Attached(q, k) \/ (k \in todo[q] /\ (WriteConsumer(q, k) \/ BindConsumer(q, k)))
  <2>1. \/ Done(p, j) /\ (WriteConsumer(p, j) \/ BindConsumer(p, j) \/ phase[p] # "consumers")
        \/ \E why \in {"unbound", "rejected", "api"} : Fails(p, j, why)
    BY <1>5 DEF BindStream, WriteConsumer, BindConsumer, CallFails
  <2>2. CASE /\ Done(p, j) /\ p = q
             /\ WriteConsumer(p, j) \/ BindConsumer(p, j) \/ phase[p] # "consumers"
    BY <2>2, DoneAttaches
  <2> QED BY <1>2, <1>3, <2>1, <2>2 DEF Errors
<1>6. ASSUME NEW p \in Pods, Boot(p)
      PROVE  Attached(q, k)
  <2>1. CASE p # q
    <3>1. phase'[q] = phase[q] /\ error'[q] = error[q] /\ todo'[q] = todo[q]
      BY <1>1, <1>6, <2>1 DEF Boot, PodsTyped
    <3> QED BY <1>1, <3>1 DEF Attached
  <2>2. CASE p = q
    <3> DEFINE first == IF StreamKinds(opt[q]) = {} THEN "up" ELSE "streams"
    <3>1. \/ error' = [error EXCEPT ![q] = "options"]
          \/ phase' = [phase EXCEPT ![q] = first]
      BY <1>6, <2>2 DEF Boot
    <3>2. phase'[q] = first
      BY <1>1, <3>1 DEF PodsTyped
    <3>3. StreamKinds(opt[q]) # {}
      BY <1>1 DEF DurableKinds
    <3> QED BY <1>1, <3>2, <3>3
  <2> QED BY <2>1, <2>2
<1>7. ASSUME NEW p \in Pods, Exit(p)
      PROVE  Attached(q, k)
  <2>1. CASE p # q
    <3>1. phase'[q] = phase[q] /\ error'[q] = error[q] /\ todo'[q] = todo[q]
      BY <1>1, <1>7, <2>1 DEF Exit, PodsTyped
    <3> QED BY <1>1, <3>1 DEF Attached
  <2>2. CASE p = q
    <3>1. phase'[q] = "down"
      BY <1>1, <1>7, <2>2 DEF Exit, PodsTyped
    <3> QED BY <1>1, <3>1
  <2> QED BY <2>1, <2>2
<1>8. CASE UNCHANGED <<phase, todo, error>>
  BY <1>1, <1>8 DEF Attached
<1> QED BY <1>1, <1>4, <1>5, <1>6, <1>7, <1>8
        DEF Next, vars, ReadStream, ReadConsumer, RecoverConsumer, DeleteConsumer

LEMMA ConsumersKept ==
  ASSUME PodsAgree, OptionsInv, TypeInv, SeenInv, ConsumersInv, [Next]_vars
  PROVE  ConsumersInv'
<1>1. opt' = opt /\ OptionsInv'
  BY OptionsStay DEF OptionsInv
<1>2. ASSUME NEW c \in DOMAIN consumers', NEW f \in consumers'[c]
      PROVE  Len(f) \in Nat
  <2>1. CASE c \in DOMAIN consumers /\ consumers'[c] = consumers[c]
    BY <1>2, <2>1 DEF ConsumersInv
  <2>2. CASE \E r \in Pods : \E l \in DurableKinds(opt[r]) : consumers'[c] = Filters(opt[r], l)
    BY <1>2, <2>2, FiltersServe
  <2> QED BY <2>1, <2>2, OnlyFilters
<1>3. ASSUME NEW p \in Pods, NEW k \in DurableKinds(opt[p]),
             NEW c, c = ConsumerOf(p, k), c \in DOMAIN consumers',
             Attached(p, k)' \/ Missed(p, k)'
      PROVE  Fits(p, k, consumers'[c])
  <2>1. CASE c \in DOMAIN consumers /\ consumers'[c] = consumers[c]
    <3>1. CASE Attached(p, k) \/ Missed(p, k)
      BY <1>3, <2>1, <3>1 DEF ConsumersInv
    <3>2. CASE k \in todo[p] /\ error'[p] = "none" /\ WriteConsumer(p, k)
      <4>1. ~\E why \in {"rejected", "api"} : Fails(p, k, why)
        <5>1. ~\E why \in Errors \ {"none"} : Fails(p, k, why)
          BY <3>2, FailsTyped DEF TypeInv
        <5> QED BY <5>1 DEF Errors
      <4>2. Missed(p, k) \/ consumers' = Only(c, Filters(opt[p], k)) ++ consumers
        BY <1>3, <3>2, <4>1 DEF WriteConsumer, Missed
      <4>3. CASE consumers' = Only(c, Filters(opt[p], k)) ++ consumers
        <5>1. consumers'[c] = Filters(opt[p], k)
          BY <4>3, Single, Spread
        <5> QED BY <5>1 DEF Fits
      <4> QED BY <3>1, <4>2, <4>3
    <3>3. CASE k \in todo[p] /\ error'[p] = "none" /\ BindConsumer(p, k)
      <4>1. ~Fails(p, k, "unbound")
        BY <3>3, FailsTyped DEF TypeInv, Errors
      <4>2. BindsConsumer(opt[p], k, consumers[c])
        BY <1>3, <3>3, <4>1 DEF BindConsumer
      <4> QED BY <2>1, <4>2 DEF Fits
    <3>4. CASE consumers' = consumers /\ c \notin DOMAIN consumers
      BY <1>3, <3>4
    <3> QED BY <1>3, <3>1, <3>2, <3>3, <3>4, Attaches, Misses
  <2> QED BY <1>3, <2>1, ConsumersStay DEF Fits
<1>4. /\ \A p \in Pods : DurableKinds(opt'[p]) = DurableKinds(opt[p])
      /\ \A p \in Pods : \A k : ConsumerOf(p, k)' = ConsumerOf(p, k)
  BY <1>1 DEF ConsumerOf
<1>5. ASSUME NEW p \in Pods, NEW k \in DurableKinds(opt'[p]),
             ConsumerOf(p, k)' \in DOMAIN consumers', Attached(p, k)' \/ Missed(p, k)'
      PROVE  Fits(p, k, consumers[ConsumerOf(p, k)])'
  <2>1. PICK c : c = ConsumerOf(p, k)
    OBVIOUS
  <2>2. ConsumerOf(p, k)' = c /\ k \in DurableKinds(opt[p])
    BY <1>4, <1>5, <2>1
  <2>3. Fits(p, k, consumers'[c])
    BY <1>3, <1>5, <2>1, <2>2
  <2> QED BY <1>1, <2>2, <2>3 DEF Fits
<1> QED BY <1>2, <1>5 DEF ConsumersInv

LEMMA InitConsumers == Init => ConsumersInv
<1> SUFFICES ASSUME Init PROVE ConsumersInv
  OBVIOUS
<1>1. PICK s \in Scenarios : consumers = s.consumers /\ phase = [p \in Pods |-> "down"]
  BY DEF Init
<1>2. \A c \in DOMAIN consumers : consumers[c] \subseteq Seq(STRING)
  BY <1>1, DeploymentAssumption
<1>3. \A p \in Pods : \A k : ~Attached(p, k) /\ ~Missed(p, k)
  BY <1>1 DEF Attached, Missed
<1> QED BY <1>2, <1>3, LenProperties DEF ConsumersInv

--------------------------------------------------------------------------------
(***************************************************************************)
(* Wired: the client and the registry.                                     *)
(***************************************************************************)
\* A client publishes to the subject that the handler's pod knows the pattern by.
LEMMA ClientsAgree ==
  ASSUME NEW p \in Pods, NEW k, NEW client \in Clients(p, k), NEW pattern
  PROVE  ClientSubject(client, opt[p].svc, k, pattern) = Subject(opt[p], k, pattern)
<1>1. CASE client = opt[p]
  BY <1>1 DEF ClientSubject
<1>2. CASE \E q \in Pods : /\ client = opt[q] /\ ~HasCustomPrefix(opt[p], k)
                           /\ ~HasCustomPrefix(opt[q], k)
  <2>1. PICK q \in Pods : /\ client = opt[q] /\ ~HasCustomPrefix(opt[p], k)
                          /\ ~HasCustomPrefix(opt[q], k)
    BY <1>2
  <2>2. /\ Prefix(opt[p], k) = ConventionPrefix(opt[p].svc, k)
        /\ Prefix(client, k) = ConventionPrefix(client.svc, k)
    BY <2>1 DEF Prefix
  <2>3. k = "broadcast" => ConventionPrefix(client.svc, k) = ConventionPrefix(opt[p].svc, k)
    BY DEF ConventionPrefix
  <2>4. CASE k = "broadcast"
    BY <2>2, <2>3, <2>4 DEF ClientSubject, Subject
  <2>5. CASE k # "broadcast"
    BY <2>2, <2>5 DEF ClientSubject, Subject
  <2> QED BY <2>4, <2>5
<1> QED BY <1>1, <1>2 DEF Clients

\* The registry has one handler for its subject.
LEMMA OneHandler ==
  ASSUME OptionsInv, NEW p \in Pods, NEW h \in opt[p].handlers, h.kind # "both"
  PROVE  GetHandler(opt[p], Subject(opt[p], h.kind, h.pattern)) = {h}
<1>1. PICK s \in Scenarios : opt = s.opts
  BY DEF OptionsInv
<1>2. ASSUME NEW g \in opt[p].handlers, g.kind # "both",
             Subject(opt[p], g.kind, g.pattern) = Subject(opt[p], h.kind, h.pattern)
      PROVE  g = h
  BY <1>1, <1>2, DeploymentAssumption
<1> QED BY <1>2 DEF GetHandler

\* A pod that is up has its streams and consumers.
LEMMA UpHas ==
  ASSUME TypeInv, ProvidedInv, NEW p \in Pods, phase[p] = "up"
  PROVE  /\ \A k \in Wanted(p) :
              /\ Provided(p, k)
              /\ \A need \in Required(opt[p], k) : Has(p, k, need)
         /\ \A k \in DurableKinds(opt[p]) : Attached(p, k)
<1>1. error[p] = "none"
  BY DEF TypeInv, PodsTyped
<1>2. \A k \in Wanted(p) : Finished(p, k) /\ Needs(opt[p], k) \in Required(opt[p], k)
  BY <1>1 DEF Finished, Required
<1> QED BY <1>1, <1>2 DEF ProvidedInv, Provided, Attached

\* Where the pods of a service agree on its names, where the streams that the operator is
\* to provide take what the handlers need and nobody overwrites the shared stream's
\* subjects, whatever a client publishes for a handler of a pod that is up is stored, is
\* delivered if the consumer is there and finds that handler, and dead letters are stored:
\* for any pods, options and patterns, however the starts and failures interleave.
THEOREM UpIsWiredHolds ==
  ASSUME SharedExclusive, PodsAgree, OperatorProvides
  PROVE  Spec => []UpIsWired
<1> DEFINE Inv == /\ TypeInv /\ SeenInv /\ SharedInv /\ OptionsInv /\ SubjectsInv
                  /\ ProvidedInv /\ ConsumersInv
<1>1. Init => Inv
  <2>1. Init => SeenInv
    BY DEF Init, SeenInv, Saw, Looking, Nothing
  <2> QED BY <2>1, InitTyped, InitShared, InitSubjects, InitProvided, InitConsumers
<1>2. Inv /\ [Next]_vars => Inv'
  <2> SUFFICES ASSUME Inv, [Next]_vars PROVE Inv'
    OBVIOUS
  <2>1. TypeInv'
    BY PodsStayTyped, ServerStaysTyped DEF TypeInv
  <2>2. SeenInv' /\ SharedInv'
    BY SeenKept, SharedKept
  <2>3. OptionsInv'
    BY OptionsStay DEF OptionsInv
  <2>4. SubjectsInv' /\ ProvidedInv' /\ ConsumersInv'
    BY SubjectsKept, ProvidedKept, ConsumersKept
  <2> QED BY <2>1, <2>2, <2>3, <2>4
<1>3. Inv => UpIsWired
  <2> SUFFICES ASSUME Inv, NEW p \in Pods, phase[p] = "up"
               PROVE  /\ \A h \in {h \in opt[p].handlers : h.kind \in StreamKinds(opt[p])} :
                           \A client \in Clients(p, h.kind) :
                             LET k == h.kind
                                 subject == ClientSubject(client, opt[p].svc, k, h.pattern)
                             IN /\ StoredBy(StreamName(opt[p], k), subject)
                                /\ GetHandler(opt[p], subject) = {h}
                                /\ (k # "ordered" /\ ConsumerOf(p, k) \in DOMAIN consumers) =>
                                     Takes(ConsumerOf(p, k), subject)
                      /\ (StreamKinds(opt[p]) # {} /\ IsDlqEnabled(opt[p])) =>
                           StoredBy(DlqStreamName(opt[p]), DlqStreamName(opt[p]))
    BY DEF UpIsWired
  <2>1. ASSUME NEW h \in {h \in opt[p].handlers : h.kind \in StreamKinds(opt[p])},
               NEW client \in Clients(p, h.kind)
        PROVE  LET k == h.kind
                   subject == ClientSubject(client, opt[p].svc, k, h.pattern)
               IN /\ StoredBy(StreamName(opt[p], k), subject)
                  /\ GetHandler(opt[p], subject) = {h}
                  /\ (k # "ordered" /\ ConsumerOf(p, k) \in DOMAIN consumers) =>
                       Takes(ConsumerOf(p, k), subject)
    <3>1. PICK k, subject, c :
            /\ k = h.kind /\ c = ConsumerOf(p, k)
            /\ subject = ClientSubject(client, opt[p].svc, k, h.pattern)
      OBVIOUS
    <3>2. subject = Subject(opt[p], k, h.pattern)
      BY <2>1, <3>1, ClientsAgree
    <3>3. k \in StreamKinds(opt[p]) /\ k \in Kinds /\ k \in Wanted(p) /\ k # "both"
      BY <3>1 DEF StreamKinds, Kinds, Wanted
    <3>4. StoredBy(StreamName(opt[p], k), subject)
      BY <3>2, <3>3, UpHas, ProvidedMatches
    <3>5. GetHandler(opt[p], subject) = {h}
      BY <3>1, <3>2, <3>3, OneHandler
    <3>6. ASSUME k # "ordered", c \in DOMAIN consumers PROVE Takes(c, subject)
      <4>1. k \in DurableKinds(opt[p])
        BY <3>3, <3>6 DEF DurableKinds
      <4>2. Fits(p, k, consumers[c]) /\ \A f \in consumers[c] : Len(f) \in Nat
        BY <3>1, <3>6, <4>1, UpHas DEF ConsumersInv
      <4>3. Serves(p, k, consumers[c])
        BY <4>2, FiltersServe, CoveredServes DEF Fits, BindsConsumer
      <4> QED BY <3>1, <3>2, <4>3 DEF Serves, Takes
    <3> QED BY <3>1, <3>4, <3>5, <3>6
  <2>2. ASSUME StreamKinds(opt[p]) # {}, IsDlqEnabled(opt[p])
        PROVE  StoredBy(DlqStreamName(opt[p]), DlqStreamName(opt[p]))
    <3>1. "dlq" \in Wanted(p)
      BY <2>2 DEF Wanted
    <3> QED BY <3>1, UpHas, DeadLettersStored
  <2> QED BY <2>1, <2>2
<1> QED BY <1>1, <1>2, <1>3, PTL DEF Spec

--------------------------------------------------------------------------------
(***************************************************************************)
(* What the server accepts.                                                *)
(***************************************************************************)
Schedules(config) ==
  "allow_msg_schedules" \in DOMAIN config /\ config["allow_msg_schedules"]

\* The options turn schedules off.
TurnsOff(config) ==
  "allow_msg_schedules" \in DOMAIN config /\ ~config["allow_msg_schedules"]

\* What was seen of a stream still says what an update of it may not change.
Compatible(o, built, was, there) ==
  /\ there["retention"] = was["retention"]
  /\ there["storage"] = was["storage"] \/ (o.destructive /\ was["storage"] # built["storage"])
  /\ TurnsOff(built) =>
       /\ Schedules(there) => Schedules(was)
       /\ ~o.destructive => (Schedules(was) => Schedules(there))

CompatibleInv ==
  \A p \in Pods, k \in AllKinds :
    Saw(p, k) => Compatible(opt[p], BuildConfig(opt[p], k), seen[p][k], streams[NameOf(opt[p], k)])

\* Streams hold no more than the scenario lets them.
HoldsInv ==
  \E s \in Scenarios :
    /\ opt = s.opts
    /\ \A name \in DOMAIN streams :
         /\ streams[name]["subjects"] \subseteq MayHold(s, name)
         /\ name \in DOMAIN s.streams \/ \E q \in Pods, l \in AllKinds : name = NameOf(s.opts[q], l)

\* The properties of a stream other than its subjects and metadata are what the options
\* and the defaults say.
LEMMA DesiredRest ==
  ASSUME NEW o, NEW k \in AllKinds, NEW current, NEW built, NEW desired,
         built = BuildConfig(o, k), desired = Desired(o, k, current),
         NEW x, x \notin {"subjects", "metadata"}
  PROVE  /\ x \in DOMAIN desired <=> x \in DOMAIN built
         /\ x \in DOMAIN built => desired[x] = built[x]
         /\ x \in {"storage", "retention"} => x \in DOMAIN built
<1>1. \A metadata : x \notin DOMAIN MetadataBlock(metadata)
  BY DEF MetadataBlock, Nothing, Only
<1>2. \A subjects, metadata, config :
        /\ x \in DOMAIN (Only("subjects", subjects) ++ (MetadataBlock(metadata) ++ config))
             <=> x \in DOMAIN config
        /\ x \in DOMAIN config =>
             (Only("subjects", subjects) ++ (MetadataBlock(metadata) ++ config))[x] = config[x]
  BY <1>1, Single, Spread
<1>3. PICK subjects, metadata :
        desired = Only("subjects", subjects) ++ (MetadataBlock(metadata) ++ built)
  BY DEF Desired
<1>4. PICK mine, own :
        built = Only("subjects", mine) ++ (MetadataBlock(own) ++ (Overrides(o, k) ++ Defaults(k)))
  BY DEF BuildConfig
<1>5. x \in {"storage", "retention"} => x \in DOMAIN (Overrides(o, k) ++ Defaults(k))
  <2>1. "storage" \in DOMAIN Defaults(k) /\ "retention" \in DOMAIN Defaults(k)
    BY DEF Defaults
  <2> QED BY <2>1, Spread
<1> QED BY <1>2, <1>3, <1>4, <1>5

\* The mutability classes: what is sent has the retention that was seen, and its storage
\* unless the stream is recreated; an update turns schedules off only if they were off.
LEMMA SentClasses ==
  ASSUME NEW o, NEW k \in AllKinds, NEW was, NEW do, NEW built, NEW sent,
         do = HandleExistingStream(o, k, was), do.call \in {"update", "migrate"},
         built = BuildConfig(o, k), sent = do.config
  PROVE  /\ "retention" \in DOMAIN sent /\ sent["retention"] = was["retention"]
         /\ "storage" \in DOMAIN sent
         /\ "allow_msg_schedules" \in DOMAIN sent <=> "allow_msg_schedules" \in DOMAIN built
         /\ do.call = "migrate" =>
              /\ o.destructive
              /\ sent["storage"] = built["storage"]
              /\ Schedules(sent) => Schedules(built)
         /\ do.call = "update" =>
              /\ sent["storage"] = was["storage"]
              /\ sent["storage"] = built["storage"] \/ ~o.destructive
              /\ Schedules(built) => Schedules(sent)
              /\ TurnsOff(built) => (Schedules(sent) <=> Schedules(was))
              /\ TurnsOff(built) /\ o.destructive => ~Schedules(sent)
<1> DEFINE a == "allow_msg_schedules"
<1>1. PICK desired, part :
        desired = Desired(o, k, was) /\ part = BuildMutableOnlyConfig(was, desired)
  OBVIOUS
<1>2. /\ "retention" \in DOMAIN desired
      /\ "storage" \in DOMAIN desired /\ desired["storage"] = built["storage"]
      /\ a \in DOMAIN desired <=> a \in DOMAIN built
      /\ a \in DOMAIN built => desired[a] = built[a]
  BY <1>1, DesiredRest
<1>3. /\ ChangesOf(was, desired, {"transport-controlled"}) = {}
      /\ \/ do.call = "update" /\ sent = desired /\ ChangesOf(was, desired, {"immutable"}) = {}
         \/ do.call = "update" /\ sent = part /\ ~o.destructive
         \/ do.call = "migrate" /\ sent = desired /\ o.destructive
  BY <1>1 DEF HandleExistingStream
<1>4. /\ ClassifyMutability("retention", was, desired) = "transport-controlled"
      /\ ClassifyMutability("storage", was, desired) = "immutable"
      /\ ClassifyMutability(a, was, desired) =
           IF a \in DOMAIN was /\ was[a] /\ ~desired[a] THEN "immutable" ELSE "enable-only"
  BY DEF ClassifyMutability, EnableOnly
<1>5. "retention" \notin Changes(was, desired)
  BY <1>3, <1>4 DEF ChangesOf
<1>6. desired["retention"] = was["retention"]
  BY <1>2, <1>5 DEF Changes
<1>7. /\ DOMAIN part = DOMAIN desired
      /\ part["retention"] = was["retention"]
      /\ part["storage"] = was["storage"]
      /\ a \in DOMAIN desired =>
           part[a] = IF a \in DOMAIN was /\ was[a] /\ ~desired[a] THEN was[a] ELSE desired[a]
  <2>1. DOMAIN part = DOMAIN desired
    BY <1>1 DEF BuildMutableOnlyConfig
  <2>2. "retention" \notin ChangesOf(was, desired, {"immutable", "transport-controlled"})
    BY <1>5 DEF ChangesOf
  <2>3. part["retention"] = was["retention"]
    BY <1>1, <1>2, <1>6, <2>2 DEF BuildMutableOnlyConfig
  <2>4. part["storage"] = was["storage"]
    BY <1>1, <1>2, <1>4 DEF BuildMutableOnlyConfig, ChangesOf, Changes
  <2>5. ASSUME a \in DOMAIN desired
        PROVE  part[a] = IF a \in DOMAIN was /\ was[a] /\ ~desired[a] THEN was[a] ELSE desired[a]
    <3>1. a \in ChangesOf(was, desired, {"immutable", "transport-controlled"}) =>
            a \in DOMAIN was /\ was[a] /\ ~desired[a]
      BY <1>4 DEF ChangesOf
    <3>2. a \in DOMAIN was /\ was[a] /\ ~desired[a] =>
            a \in ChangesOf(was, desired, {"immutable", "transport-controlled"})
      BY <1>4, <2>5 DEF ChangesOf, Changes
    <3> QED BY <1>1, <2>5, <3>1, <3>2 DEF BuildMutableOnlyConfig
  <2> QED BY <2>1, <2>3, <2>4, <2>5
<1>8. CASE do.call = "update" /\ sent = desired /\ ChangesOf(was, desired, {"immutable"}) = {}
  <2>1. "storage" \notin Changes(was, desired)
    BY <1>4, <1>8 DEF ChangesOf
  <2>2. desired["storage"] = was["storage"]
    BY <1>2, <2>1 DEF Changes
  <2>3. a \in DOMAIN desired => ~(a \in DOMAIN was /\ was[a] /\ ~desired[a])
    BY <1>4, <1>8 DEF ChangesOf, Changes
  <2> QED BY <1>2, <1>6, <1>8, <2>2, <2>3 DEF Schedules, TurnsOff
<1>9. CASE do.call = "update" /\ sent = part /\ ~o.destructive
  BY <1>2, <1>7, <1>9 DEF Schedules, TurnsOff
<1>10. CASE do.call = "migrate" /\ sent = desired /\ o.destructive
  BY <1>2, <1>6, <1>10 DEF Schedules, TurnsOff
<1> QED BY <1>3, <1>8, <1>9, <1>10

\* An update of what is still compatible is one that the server takes.
LEMMA UpdateFits ==
  ASSUME NEW o, NEW k \in AllKinds, NEW was, NEW there, NEW do, NEW built, NEW sent,
         do = HandleExistingStream(o, k, was), do.call = "update",
         built = BuildConfig(o, k), sent = do.config, Compatible(o, built, was, there)
  PROVE  /\ \A x \in DOMAIN sent \cap {"storage", "retention"} : sent[x] = there[x]
         /\ \A x \in DOMAIN sent \cap DOMAIN there \cap EnableOnly : there[x] => sent[x]
<1>1. /\ sent["retention"] = was["retention"] /\ sent["storage"] = was["storage"]
      /\ sent["storage"] = built["storage"] \/ ~o.destructive
      /\ "allow_msg_schedules" \in DOMAIN sent <=> "allow_msg_schedules" \in DOMAIN built
      /\ Schedules(built) => Schedules(sent)
      /\ TurnsOff(built) => (Schedules(sent) <=> Schedules(was))
  BY SentClasses
<1>2. sent["retention"] = there["retention"] /\ sent["storage"] = there["storage"]
  BY <1>1 DEF Compatible
<1>3. "allow_msg_schedules" \in DOMAIN sent /\ Schedules(there) => Schedules(sent)
  BY <1>1 DEF Compatible, Schedules, TurnsOff
<1> QED BY <1>2, <1>3 DEF EnableOnly, Schedules

\* What another pod of the service sends leaves it compatible.
LEMMA CompatibleStays ==
  ASSUME NEW o, NEW u, NEW k \in AllKinds, NEW was, NEW theirs, NEW there, NEW do,
         NEW mine, NEW built, NEW new,
         built = BuildConfig(u, k), Compatible(o, mine, was, there),
         Compatible(u, built, theirs, there),
         do = HandleExistingStream(u, k, theirs), do.call \in {"update", "migrate"},
         new = do.config ++ there,
         o.destructive = u.destructive, mine["storage"] = built["storage"],
         TurnsOff(mine) <=> TurnsOff(built)
  PROVE  Compatible(o, mine, was, new)
<1>1. PICK sent : sent = do.config
  OBVIOUS
<1>2. /\ "retention" \in DOMAIN sent /\ sent["retention"] = theirs["retention"]
      /\ "storage" \in DOMAIN sent
      /\ "allow_msg_schedules" \in DOMAIN sent <=> "allow_msg_schedules" \in DOMAIN built
      /\ do.call = "migrate" =>
           /\ u.destructive
           /\ sent["storage"] = built["storage"]
           /\ Schedules(sent) => Schedules(built)
      /\ do.call = "update" =>
           /\ sent["storage"] = theirs["storage"]
           /\ sent["storage"] = built["storage"] \/ ~u.destructive
           /\ TurnsOff(built) => (Schedules(sent) <=> Schedules(theirs))
           /\ TurnsOff(built) /\ u.destructive => ~Schedules(sent)
  BY <1>1, SentClasses
<1>3. /\ new["retention"] = sent["retention"] /\ new["storage"] = sent["storage"]
      /\ TurnsOff(built) => (Schedules(new) <=> Schedules(sent))
  BY <1>1, <1>2, Spread DEF Schedules, TurnsOff
<1>4. new["retention"] = was["retention"]
  BY <1>2, <1>3 DEF Compatible
<1>5. new["storage"] = was["storage"] \/ (o.destructive /\ was["storage"] # mine["storage"])
  BY <1>2, <1>3 DEF Compatible
<1>6. ASSUME TurnsOff(mine)
      PROVE  /\ Schedules(new) => Schedules(was)
             /\ ~o.destructive => (Schedules(was) => Schedules(new))
  <2>1. do.call = "migrate" => ~Schedules(sent)
    BY <1>2, <1>6 DEF Schedules, TurnsOff
  <2>2. CASE o.destructive
    BY <1>2, <1>3, <1>6, <2>1, <2>2
  <2>3. CASE ~o.destructive
    BY <1>2, <1>3, <1>6, <2>3 DEF Compatible
  <2> QED BY <2>2, <2>3
<1> QED BY <1>4, <1>5, <1>6 DEF Compatible

\* The service of a pod that looks at a stream provisions it.
LEMMA LookerProvisions ==
  ASSUME TypeInv, NEW r \in Pods, NEW k \in AllKinds, Looking(r, k)
  PROVE  k \in ProvisionedKinds(opt[r])
<1>1. ~Manual(r, k, "stream") /\ k \in todo[r] /\ todo[r] \subseteq KindsOf(r, phase[r])
      /\ phase[r] \in {"down", "streams", "dlq", "up"}
  BY DEF TypeInv, PodsTyped, Looking
<1>2. k \in StreamKinds(opt[r]) \cup {"dlq"}
  BY <1>1 DEF KindsOf
<1> QED BY <1>1, <1>2 DEF ProvisionedKinds, Manual

\* Pods of one service that look at a stream of theirs agree on it.
LEMMA LookersAgree ==
  ASSUME ConfigsAgree, OptionsInv, TypeInv, NEW p \in Pods, NEW q \in Pods,
         NEW k \in AllKinds, k # "broadcast", Looking(p, k), Looking(q, k),
         opt[p].svc = opt[q].svc, NEW mine, NEW theirs,
         mine = BuildConfig(opt[p], k), theirs = BuildConfig(opt[q], k)
  PROVE  /\ opt[p].destructive = opt[q].destructive
         /\ mine["storage"] = theirs["storage"]
         /\ TurnsOff(mine) <=> TurnsOff(theirs)
<1>1. PICK s \in Scenarios : opt = s.opts
  BY DEF OptionsInv
<1>2. k \in ProvisionedKinds(s.opts[p]) \cap ProvisionedKinds(s.opts[q])
  BY <1>1, LookerProvisions
<1>3. /\ opt[p].destructive = opt[q].destructive
      /\ \A x \in {"storage"} \cup EnableOnly :
           /\ x \in DOMAIN mine <=> x \in DOMAIN theirs
           /\ x \in DOMAIN mine => mine[x] = theirs[x]
  BY <1>1, <1>2 DEF ConfigsAgree
<1>4. "storage" \in DOMAIN mine
  BY DesiredRest
<1> QED BY <1>3, <1>4 DEF EnableOnly, TurnsOff

LEMMA CompatibleKept ==
  ASSUME SharedExclusive, ConfigsAgree, OptionsInv, TypeInv, SeenInv, SharedInv,
         CompatibleInv, [Next]_vars
  PROVE  CompatibleInv'
<1> SUFFICES ASSUME NEW p \in Pods, NEW k \in AllKinds, Saw(p, k)'
             PROVE  Compatible(opt[p], BuildConfig(opt[p], k), seen'[p][k],
                               streams'[NameOf(opt[p], k)])
  BY OptionsStay DEF CompatibleInv
<1>1. PICK name, mine, is : /\ name = NameOf(opt[p], k) /\ mine = BuildConfig(opt[p], k)
                            /\ is = seen'[p][k]
  OBVIOUS
<1>2. opt' = opt /\ Looking(p, k)' /\ is # Nothing
  BY <1>1, OptionsStay DEF Saw, Nothing
<1>3. \A o, built, config : Compatible(o, built, config, config)
  BY DEF Compatible
<1>4. CASE ~(Looking(p, k) /\ seen'[p][k] = seen[p][k])
  <2>1. streams' = streams /\ is = streams[name]
    BY <1>1, <1>2, <1>4, Looks
  <2> QED BY <1>1, <1>3, <2>1
<1>5. CASE k = "broadcast"
  <2>1. NameOf(opt[p], k) = Shared
    BY <1>5 DEF NameOf, StreamName, Shared
  <2>2. is = streams'[name]
    BY <1>1, <1>5, <2>1, SharedKept DEF SharedInv
  <2> QED BY <1>1, <1>3, <2>2
<1>6. CASE Looking(p, k) /\ seen'[p][k] = seen[p][k] /\ k # "broadcast"
  <2>1. Saw(p, k) /\ name \in DOMAIN streams
    BY <1>1, <1>2, <1>6 DEF Saw, SeenInv
  <2>2. Compatible(opt[p], mine, is, streams[name])
    BY <1>1, <1>6, <2>1 DEF CompatibleInv
  <2>3. ASSUME NEW r \in Pods, NEW l \in todo[r], WriteStream(r, l)
        PROVE  Compatible(opt[p], mine, is, streams'[name])
    <3>1. PICK theirs, do, built :
            /\ theirs = seen[r][l] /\ do = HandleExistingStream(opt[r], l, theirs)
            /\ built = BuildConfig(opt[r], l)
      OBVIOUS
    <3>2. /\ l \in AllKinds /\ Looking(r, l)
          /\ \/ streams'[name] = streams[name]
             \/ /\ name = NameOf(opt[r], l) /\ theirs # Nothing
                /\ do.call \in {"update", "migrate"}
                /\ streams'[name] = do.config ++ streams[name]
      BY <2>1, <2>3, <3>1, WriteOutcome
    <3>3. CASE /\ name = NameOf(opt[r], l) /\ theirs # Nothing
               /\ do.call \in {"update", "migrate"}
               /\ streams'[name] = do.config ++ streams[name]
      <4>1. l = k /\ opt[r].svc = opt[p].svc
        <5>1. PICK o, u : o = opt[p] /\ u = opt[r]
          OBVIOUS
        <5>2. NameOf(o, k) = NameOf(u, l)
          BY <1>1, <3>3, <5>1
        <5> QED BY <1>6, <3>2, <5>1, <5>2, NamesDiffer
      <4>2. Compatible(opt[r], built, theirs, streams[name])
        BY <3>1, <3>2, <3>3 DEF CompatibleInv, Saw
      <4>3. /\ opt[p].destructive = opt[r].destructive
            /\ mine["storage"] = built["storage"]
            /\ TurnsOff(mine) <=> TurnsOff(built)
        BY <1>1, <1>6, <3>1, <3>2, <4>1, LookersAgree
      <4>4. do.call \in {"update", "migrate"} /\ do = HandleExistingStream(opt[r], k, theirs)
            /\ built = BuildConfig(opt[r], k)
        BY <3>1, <3>3, <4>1
      <4>5. PICK there, new : there = streams[name] /\ new = do.config ++ there
        OBVIOUS
      <4>6. Compatible(opt[p], mine, is, new)
        BY <2>2, <4>2, <4>3, <4>4, <4>5, CompatibleStays
      <4> QED BY <3>3, <4>5, <4>6
    <3> QED BY <2>2, <3>2, <3>3
  <2> QED BY <1>1, <2>2, <2>3, OnlyWrites
<1> QED BY <1>4, <1>5, <1>6

LEMMA CompatibleAtFirst == Init => CompatibleInv
BY DEF Init, CompatibleInv, Saw, Looking, Nothing

\* A stream may hold what a pod that looks at it would give it.
LEMMA LookerMayGive ==
  ASSUME NEW s \in Scenarios, opt = s.opts, TypeInv, NEW r \in Pods, NEW k \in AllKinds,
         Looking(r, k)
  PROVE  /\ k \in ProvisionedKinds(s.opts[r])
         /\ BuildConfig(opt[r], k)["subjects"] \subseteq MayHold(s, NameOf(opt[r], k))
<1>1. k \in ProvisionedKinds(opt[r])
  BY LookerProvisions
<1>2. PICK name, mine : name = NameOf(opt[r], k) /\ mine = BuildConfig(opt[r], k)["subjects"]
  OBVIOUS
<1>3. mine \in {BuildConfig(s.opts[r], l)["subjects"] :
                  l \in {l \in ProvisionedKinds(s.opts[r]) : NameOf(s.opts[r], l) = name}}
  BY <1>1, <1>2
<1>4. mine \subseteq MayHold(s, name)
  BY <1>3 DEF MayHold
<1> QED BY <1>1, <1>2, <1>4

LEMMA HoldsKept ==
  ASSUME TypeInv, SeenInv, SharedInv, HoldsInv, [Next]_vars
  PROVE  HoldsInv'
<1>1. PICK s \in Scenarios :
        /\ opt = s.opts
        /\ \A name \in DOMAIN streams :
             /\ streams[name]["subjects"] \subseteq MayHold(s, name)
             /\ name \in DOMAIN s.streams \/ \E q \in Pods, l \in AllKinds : name = NameOf(s.opts[q], l)
  BY DEF HoldsInv
<1>2. opt' = opt
  BY OptionsStay
<1>3. ASSUME NEW r \in Pods, NEW k \in todo[r], WriteStream(r, k), NEW name \in DOMAIN streams'
      PROVE  /\ streams'[name]["subjects"] \subseteq MayHold(s, name)
             /\ name \in DOMAIN s.streams \/ \E q \in Pods, l \in AllKinds : name = NameOf(s.opts[q], l)
  <2>1. PICK was, do, built :
          /\ was = seen[r][k] /\ do = HandleExistingStream(opt[r], k, was)
          /\ built = BuildConfig(opt[r], k)
    OBVIOUS
  <2>2. /\ k \in AllKinds /\ Looking(r, k)
        /\ \/ name \in DOMAIN streams /\ streams'[name] = streams[name]
           \/ name = NameOf(opt[r], k) /\ streams'[name] = built
           \/ /\ name = NameOf(opt[r], k) /\ was # Nothing /\ do.call \in {"update", "migrate"}
              /\ streams'[name] = do.config ++ streams[name]
    BY <1>3, <2>1, WriteOutcome
  <2>3. name = NameOf(opt[r], k) => built["subjects"] \subseteq MayHold(s, name)
    BY <1>1, <2>1, <2>2, LookerMayGive
  <2>4. CASE /\ name = NameOf(opt[r], k) /\ was # Nothing /\ do.call \in {"update", "migrate"}
             /\ streams'[name] = do.config ++ streams[name]
    <3>1. PICK there, new : there = streams[name] /\ new = do.config ++ there
      OBVIOUS
    <3>2. Rewritten(opt[r], k, built, was, there, new)
      <4>1. do.call \in {"update", "migrate"}
        BY <2>4
      <4> QED BY <2>1, <2>2, <3>1, <4>1, StreamRewritten
    <3>3. CASE k # "broadcast"
      BY <1>1, <2>2, <2>3, <2>4, <3>1, <3>2, <3>3 DEF Rewritten
    <3>4. CASE k = "broadcast"
      <4>1. name = Shared
        BY <2>4, <3>4 DEF NameOf, StreamName, Shared
      <4>2. name \in DOMAIN streams /\ was = there
        BY <2>1, <2>2, <2>4, <3>1, <3>4, <4>1 DEF SeenInv, SharedInv, Saw
      <4>3. built["subjects"] = GetSubjects(opt[r], k)
        <5>1. built["subjects"] = IF k = "dlq" THEN {DlqStreamName(opt[r])} ELSE GetSubjects(opt[r], k)
          BY <2>1, <2>2, ConfigBuilt
        <5> QED BY <3>4, <5>1
      <4>4. new["subjects"] \subseteq built["subjects"] \cup there["subjects"]
        BY <3>2, <3>4, <4>2, <4>3 DEF Rewritten, MergeSubjects
      <4> QED BY <1>1, <2>2, <2>3, <2>4, <3>1, <4>2, <4>4
    <3> QED BY <3>3, <3>4
  <2> QED BY <1>1, <2>2, <2>3, <2>4
<1> QED BY <1>1, <1>2, <1>3, OnlyWrites DEF HoldsInv

LEMMA InitHolds == Init => HoldsInv
<1> SUFFICES ASSUME Init PROVE HoldsInv
  OBVIOUS
<1>1. PICK s \in Scenarios : opt = s.opts /\ streams = s.streams
  BY DEF Init
<1> QED BY <1>1 DEF HoldsInv, MayHold

\* What a pod sends overlaps with no other stream.
LEMMA SentIsApart ==
  ASSUME SubjectsApart, TypeInv, HoldsInv, NEW p \in Pods, NEW k \in AllKinds, Looking(p, k),
         NEW name, name = NameOf(opt[p], k), NEW subjects,
         k # "broadcast" => subjects = BuildConfig(opt[p], k)["subjects"],
         k = "broadcast" => subjects \subseteq BuildConfig(opt[p], k)["subjects"] \cup
                              (IF name \in DOMAIN streams THEN streams[name]["subjects"] ELSE {})
  PROVE  Disjoint(name, subjects)
<1>1. PICK s \in Scenarios :
        /\ opt = s.opts
        /\ \A n \in DOMAIN streams :
             /\ streams[n]["subjects"] \subseteq MayHold(s, n)
             /\ n \in DOMAIN s.streams \/ \E q \in Pods, l \in AllKinds : n = NameOf(s.opts[q], l)
  BY DEF HoldsInv
<1>2. PICK sent : sent = IF k = "broadcast" THEN MayHold(s, name)
                         ELSE BuildConfig(s.opts[p], k)["subjects"]
  OBVIOUS
<1>3. /\ k \in ProvisionedKinds(s.opts[p])
      /\ BuildConfig(opt[p], k)["subjects"] \subseteq MayHold(s, name)
  BY <1>1, LookerMayGive
<1>4. subjects \subseteq sent
  BY <1>1, <1>2, <1>3
<1>5. ASSUME NEW other \in DOMAIN streams \ {name}, NEW a \in sent, NEW b \in MayHold(s, other)
      PROVE  ~Overlaps(a, b)
  <2>1. other \in (DOMAIN s.streams \cup {NameOf(s.opts[q], l) : q \in Pods, l \in Kinds \cup {"dlq"}})
                    \ {name}
    BY <1>1, <1>5 DEF AllKinds
  <2> QED BY <1>1, <1>2, <1>3, <1>5, <2>1 DEF SubjectsApart
<1> QED BY <1>1, <1>4, <1>5 DEF Disjoint

\* A subject that matches another one overlaps with it.
LEMMA MatchOverlaps ==
  ASSUME NEW t, NEW f, Len(t) \in Nat, Len(f) \in Nat, Matches(t, f)
  PROVE  Overlaps(f, t)
BY DEF Matches, Overlaps, Fixed

\* The filters of a consumer can match something in a stream that is provided.
LEMMA FiltersFit ==
  ASSUME OptionsInv, SubjectsInv, NEW p \in Pods, NEW k \in Kinds, Provided(p, k)
  PROVE  AcceptsConsumer(StreamName(opt[p], k), Filters(opt[p], k))
<1>1. PICK name, wide : name = StreamName(opt[p], k) /\ wide = FilterSubject(opt[p], k)
  OBVIOUS
<1>2. k # "dlq"
  BY DEF Kinds
<1>3. name \in DOMAIN streams /\ Stores(streams[name]["subjects"], wide)
  BY <1>1, <1>2 DEF Provided, Has, NameOf, Needs
<1>4. PICK t \in streams[name]["subjects"] : CoversOrEquals(t, wide)
  BY <1>3 DEF Stores
<1>5. Len(t) \in Nat
  BY <1>3 DEF SubjectsInv
<1>6. ASSUME NEW f \in Filters(opt[p], k) PROVE Overlaps(f, t)
  <2>1. Len(f) \in Nat
    BY FiltersServe
  <2>2. Matches(t, f)
    <3>1. CASE f = wide
      BY <1>4, <1>5, <2>1, <3>1, CoverMatches
    <3>2. CASE f # wide
      <4>1. f \in SubjectsOf(opt[p], k)
        BY <1>1, <3>2 DEF Filters
      <4>2. PICK h \in opt[p].handlers : f = Subject(opt[p], k, h.pattern)
        BY <4>1 DEF SubjectsOf, PatternsOf
      <4> QED BY <1>1, <1>4, <1>5, <4>2, HandlerSubject
    <3> QED BY <3>1, <3>2
  <2> QED BY <1>5, <2>1, <2>2, MatchOverlaps
<1> QED BY <1>1, <1>3, <1>4, <1>6 DEF AcceptsConsumer

\* A failure for another reason is not a rejection.
LEMMA OtherwiseFails ==
  ASSUME NeverRejected, NEW p \in Pods, NEW k, NEW why, why # "rejected",
         error \in [Pods -> Errors], Fails(p, k, why)
  PROVE  NeverRejected'
BY DEF NeverRejected, Fails

LEMMA DoneIsNoFailure ==
  ASSUME NeverRejected, NEW p \in Pods, NEW k, Done(p, k)
  PROVE  NeverRejected'
BY DEF NeverRejected, Done

\* No write of a stream is refused.
LEMMA WriteIsTaken ==
  ASSUME SubjectsApart, TypeInv, SeenInv, SharedInv, CompatibleInv, HoldsInv, NeverRejected,
         NEW p \in Pods, NEW k \in todo[p], WriteStream(p, k)
  PROVE  NeverRejected'
<1>1. PICK name, was, do, built :
        /\ name = NameOf(opt[p], k) /\ was = seen[p][k]
        /\ do = HandleExistingStream(opt[p], k, was) /\ built = BuildConfig(opt[p], k)
  OBVIOUS
<1>2. k \in AllKinds /\ Looking(p, k) /\ error \in [Pods -> Errors]
  BY WriteOutcome DEF TypeInv, PodsTyped
<1>3. built["subjects"] = IF k = "dlq" THEN {DlqStreamName(opt[p])} ELSE GetSubjects(opt[p], k)
  BY <1>1, <1>2, ConfigBuilt
<1>4. CASE was = Nothing
  <2>1. AddStream(p, k, name)
    BY <1>1, <1>4 DEF WriteStream
  <2>2. Disjoint(name, built["subjects"])
    BY <1>1, <1>2, SentIsApart
  <2>3. Done(p, k) \/ Fails(p, k, "owned") \/ Fails(p, k, "api")
    BY <1>1, <2>1, <2>2 DEF AddStream, AcceptsAdd
  <2> QED BY <1>2, <2>3, OtherwiseFails, DoneIsNoFailure
<1>5. CASE was # Nothing /\ do.call = "update"
  <2>1. PICK sent, there : sent = do.config /\ there = streams[name]
    OBVIOUS
  <2>2. UpdateStream(p, k, name, sent)
    BY <1>1, <1>5, <2>1 DEF WriteStream
  <2>3. name \in DOMAIN streams /\ Compatible(opt[p], built, was, there)
    BY <1>1, <1>2, <1>5, <2>1 DEF SeenInv, CompatibleInv, Saw
  <2>4. /\ \A x \in DOMAIN sent \cap {"storage", "retention"} : sent[x] = there[x]
        /\ \A x \in DOMAIN sent \cap DOMAIN there \cap EnableOnly : there[x] => sent[x]
    BY <1>1, <1>2, <1>5, <2>1, <2>3, UpdateFits
  <2>5. /\ k # "broadcast" => sent["subjects"] = built["subjects"]
        /\ k = "broadcast" => sent["subjects"] \subseteq built["subjects"] \cup there["subjects"]
    <3>1. PICK desired : desired = Desired(opt[p], k, was)
      OBVIOUS
    <3>2. do.call \in {"update", "migrate"}
      BY <1>5
    <3>3. sent["subjects"] = desired["subjects"]
      BY <1>1, <1>2, <2>1, <3>1, <3>2, WhatIsSent
    <3>4. /\ k # "broadcast" => desired["subjects"] = built["subjects"]
          /\ k = "broadcast" =>
               desired["subjects"] = MergeSubjects(GetSubjects(opt[p], k), was["subjects"])
      BY <1>1, <1>2, <3>1, WhatIsDesired
    <3>5. k = "broadcast" => was = there
      <4>1. NameOf(opt[p], "broadcast") = Shared
        BY DEF NameOf, StreamName, Shared
      <4> QED BY <1>1, <1>2, <1>5, <2>1, <4>1 DEF SharedInv, Saw
    <3>6. k = "broadcast" => built["subjects"] = GetSubjects(opt[p], k)
      BY <1>3
    <3> QED BY <3>3, <3>4, <3>5, <3>6 DEF MergeSubjects
  <2>6. Disjoint(name, sent["subjects"])
    BY <1>1, <1>2, <2>1, <2>3, <2>5, SentIsApart
  <2>7. Done(p, k)
    BY <2>1, <2>2, <2>3, <2>4, <2>6 DEF UpdateStream, AcceptsUpdate
  <2> QED BY <2>7, DoneIsNoFailure
<1>6. CASE was # Nothing /\ do.call # "update"
  <2>1. do.call # "rejected"
    BY <1>1 DEF HandleExistingStream
  <2>2. Done(p, k) \/ Fails(p, k, do.call)
    BY <1>1, <1>6 DEF WriteStream, MigrateStream
  <2> QED BY <1>2, <2>1, <2>2, OtherwiseFails, DoneIsNoFailure
<1> QED BY <1>4, <1>5, <1>6

\* No consumer is refused.
LEMMA ConsumerIsTaken ==
  ASSUME OptionsInv, TypeInv, SubjectsInv, ProvidedInv, NeverRejected,
         NEW p \in Pods, NEW k \in todo[p], WriteConsumer(p, k)
  PROVE  NeverRejected'
<1>1. /\ error \in [Pods -> Errors] /\ phase[p] = "consumers" /\ k \in DurableKinds(opt[p])
  BY DEF TypeInv, PodsTyped, WriteConsumer, KindsOf
<1>2. CASE error[p] # "none"
  <2>1. \A why : Fails(p, k, why) => error'[p] = error[p] /\ \A q \in Pods \ {p} : error'[q] = error[q]
    BY <1>1, <1>2 DEF Fails
  <2>2. Done(p, k) \/ \E why : Fails(p, k, why)
    BY DEF WriteConsumer
  <2> QED BY <2>1, <2>2, DoneIsNoFailure DEF NeverRejected
<1>3. CASE error[p] = "none"
  <2>1. k \in Kinds /\ k \in Wanted(p)
    BY <1>1 DEF DurableKinds, StreamKinds, Wanted
  <2>2. Finished(p, k)
    BY <1>1, <1>3, <2>1 DEF Finished
  <2>3. AcceptsConsumer(StreamName(opt[p], k), Filters(opt[p], k))
    <3>1. Needs(opt[p], k) \in Required(opt[p], k)
      BY DEF Required
    <3> QED BY <2>1, <2>2, <3>1, FiltersFit DEF ProvidedInv, Provided
  <2>4. AcceptsConsumer(ConsumerOf(p, k)[1], Filters(opt[p], k))
    BY <2>3 DEF ConsumerOf
  <2>5. Done(p, k) \/ Fails(p, k, "api")
    BY <2>4 DEF WriteConsumer
  <2> QED BY <1>1, <2>5, OtherwiseFails, DoneIsNoFailure
<1> QED BY <1>2, <1>3

LEMMA NothingRejected ==
  ASSUME SubjectsApart, OptionsInv, TypeInv, SeenInv, SharedInv, SubjectsInv, ProvidedInv,
         CompatibleInv, HoldsInv, NeverRejected, [Next]_vars
  PROVE  NeverRejected'
<1>1. error \in [Pods -> Errors]
  BY DEF TypeInv, PodsTyped
<1>2. ASSUME NEW p \in Pods, NEW k \in todo[p],
             BindStream(p, k) \/ BindConsumer(p, k) \/ CallFails(p, k)
      PROVE  NeverRejected'
  <2>1. Done(p, k) \/ Fails(p, k, "unbound") \/ Fails(p, k, "api")
    BY <1>2 DEF BindStream, BindConsumer, CallFails
  <2> QED BY <1>1, <2>1, OtherwiseFails, DoneIsNoFailure
<1>3. ASSUME NEW p \in Pods, Boot(p) \/ Exit(p)
      PROVE  NeverRejected'
  BY <1>1, <1>3 DEF Boot, Exit, NeverRejected
<1>4. CASE UNCHANGED error
  BY <1>4 DEF NeverRejected
<1> QED BY <1>2, <1>3, <1>4, WriteIsTaken, ConsumerIsTaken
        DEF Next, vars, ReadStream, ReadConsumer, RecoverConsumer, DeleteConsumer

\* Where the streams of different names have nothing in common, the pods of a service agree
\* on its names and on what cannot be changed, operators provide what is theirs and nobody
\* writes the shared stream between another's look and update, the server refuses nothing
\* that a start sends: for any configs that streams were left with, and however the starts,
\* failures and migrations interleave.
THEOREM NeverRejectedHolds ==
  ASSUME SharedExclusive, PodsAgree, ConfigsAgree, OperatorProvides, SubjectsApart
  PROVE  Spec => []NeverRejected
<1> DEFINE Inv == /\ TypeInv /\ SeenInv /\ SharedInv /\ OptionsInv /\ SubjectsInv
                  /\ ProvidedInv /\ CompatibleInv /\ HoldsInv /\ NeverRejected
<1>1. Init => Inv
  <2>1. Init => SeenInv /\ NeverRejected
    BY DEF Init, SeenInv, Saw, Looking, Nothing, NeverRejected
  <2> QED BY <2>1, InitTyped, InitShared, InitSubjects, InitProvided, CompatibleAtFirst, InitHolds
<1>2. Inv /\ [Next]_vars => Inv'
  <2> SUFFICES ASSUME Inv, [Next]_vars PROVE Inv'
    OBVIOUS
  <2>1. TypeInv'
    BY PodsStayTyped, ServerStaysTyped DEF TypeInv
  <2>2. SeenInv' /\ SharedInv'
    BY SeenKept, SharedKept
  <2>3. OptionsInv'
    BY OptionsStay DEF OptionsInv
  <2>4. SubjectsInv' /\ ProvidedInv'
    BY SubjectsKept, ProvidedKept
  <2>5. CompatibleInv' /\ HoldsInv' /\ NeverRejected'
    BY CompatibleKept, HoldsKept, NothingRejected
  <2> QED BY <2>1, <2>2, <2>3, <2>4, <2>5
<1> QED BY <1>1, <1>2, PTL DEF Spec

--------------------------------------------------------------------------------
(***************************************************************************)
(* Schedules.                                                              *)
(***************************************************************************)
Scheduled(p, k) ==
  /\ k \in StreamKinds(opt[p]) /\ k \in {"ev", "broadcast"}
  /\ SchedulingEnabled(opt[p], k)

\* Where the schedules of a kind wait, and one of them.
Waiting(o, k) == Append(SchedulePrefix(o, k), ">")
Holder(o, k, pattern) == Append(SchedulePrefix(o, k) \o pattern, "nuid")

\* A subject is its prefix and the rest.
LEMMA RestOfSubject ==
  ASSUME NEW S, NEW prefix \in Seq(S), NEW pattern \in Seq(S), pattern # <<>>,
         NEW subject, subject = prefix \o pattern
  PROVE  /\ IsPrefix(prefix, subject)
         /\ SubSeq(subject, Len(prefix) + 1, Len(subject)) = pattern
         /\ Len(subject) > Len(prefix)
<1>1. /\ Len(subject) = Len(prefix) + Len(pattern) /\ Len(prefix) \in Nat
      /\ Len(pattern) \in Nat /\ Len(pattern) >= 1
  BY ConcatProperties, EmptySeq
<1>2. SubSeq(subject, 1, Len(prefix)) = SubSeq(prefix, 1, Len(prefix))
  <2>1. CASE Len(prefix) = 0
    BY <1>1, <2>1, SubSeqEmpty
  <2>2. CASE Len(prefix) # 0
    BY <1>1, <2>2, SubSeqOfConcat1
  <2> QED BY <2>1, <2>2
<1>3. SubSeq(subject, Len(prefix) + 1, Len(subject)) = SubSeq(pattern, 1, Len(pattern))
  BY <1>1, SubSeqOfConcat2
<1>4. SubSeq(pattern, 1, Len(pattern)) = pattern
  BY SubSeqFull
<1> QED BY <1>1, <1>2, <1>3, <1>4 DEF IsPrefix

LEMMA FirstToken ==
  ASSUME NEW S, NEW subject \in Seq(S), subject # <<>>, NEW token \in S
  PROVE  IsPrefix(<<token>>, subject) <=> subject[1] = token
<1>1. Len(subject) \in Nat /\ Len(subject) >= 1
  BY EmptySeq
<1>2. ASSUME NEW s \in Seq(S), Len(s) >= 1
      PROVE  /\ SubSeq(s, 1, 1) \in Seq(S) /\ Len(SubSeq(s, 1, 1)) = 1
             /\ SubSeq(s, 1, 1)[1] = s[1]
  <2>1. \A i \in 1 .. 1 : s[i] \in S
    BY <1>2, ElementOfSeq, LenProperties
  <2> QED BY <2>1, SubSeqProperties
<1>3. PICK one : one = <<token>>
  OBVIOUS
<1>4. one \in Seq(S) /\ Len(one) = 1 /\ one[1] = token
  BY <1>3
<1>5. IsPrefix(one, subject) <=> SubSeq(one, 1, 1) = SubSeq(subject, 1, 1)
  BY <1>1, <1>4 DEF IsPrefix
<1>6. SubSeq(one, 1, 1) = SubSeq(subject, 1, 1) <=> token = subject[1]
  <2>1. PICK s, u : s = SubSeq(one, 1, 1) /\ u = SubSeq(subject, 1, 1)
    OBVIOUS
  <2>2. /\ s \in Seq(S) /\ Len(s) = 1 /\ s[1] = token
        /\ u \in Seq(S) /\ Len(u) = 1 /\ u[1] = subject[1]
    BY <1>1, <1>2, <1>4, <2>1
  <2>3. s[1] = u[1] => s = u
    BY <2>2, SeqEqual
  <2> QED BY <2>1, <2>2, <2>3
<1> QED BY <1>3, <1>5, <1>6

\* A schedule waits under the namespace of its kind, which is under the kind's subjects
\* where the prefix is the user's, and for broadcasts.
LEMMA HolderMatched ==
  ASSUME OptionsInv, NEW p \in Pods, NEW h \in opt[p].handlers, NEW k,
         NEW holder, holder = Holder(opt[p], k, h.pattern)
  PROVE  /\ Len(holder) \in Nat /\ Len(Waiting(opt[p], k)) \in Nat
         /\ \A t : Len(t) \in Nat /\ CoversOrEquals(t, Waiting(opt[p], k)) => Matches(t, holder)
         /\ HasCustomPrefix(opt[p], k) \/ k = "broadcast" =>
              \A t : Len(t) \in Nat /\ CoversOrEquals(t, FilterSubject(opt[p], k)) =>
                       Matches(t, holder)
         /\ \A f : Len(f) \in Nat /\ Matches(f, holder) => Overlaps(f, Waiting(opt[p], k))
<1>1. PICK S, prefix, space, pattern :
        /\ S = Letters(opt[p], k) \cup {"nuid"} /\ prefix = Prefix(opt[p], k)
        /\ space = SchedulePrefix(opt[p], k) /\ pattern = h.pattern
  OBVIOUS
<1>2. /\ prefix \in Seq(S) /\ space \in Seq(S) /\ pattern \in Seq(S) /\ pattern # <<>>
      /\ "nuid" \in S /\ "_sch" \in S
  <2>1. Letters(opt[p], k) \subseteq S /\ STRING \subseteq S /\ "nuid" \in S /\ "_sch" \in S
    BY <1>1 DEF Letters, Token
  <2>2. prefix \in Seq(Letters(opt[p], k)) /\ space \in Seq(Letters(opt[p], k))
    BY <1>1, OptionsTyped, PrefixTyped
  <2>3. pattern \in Seq(STRING) /\ pattern # <<>>
    BY <1>1, OptionsTyped
  <2> QED BY <2>1, <2>2, <2>3, SeqMonotonic
<1>3. PICK rest, id, sch : /\ rest = Append(pattern, "nuid") /\ id = <<"nuid">> /\ sch = <<"_sch">>
  OBVIOUS
<1>4. /\ rest = pattern \o id /\ id \in Seq(S) /\ sch \in Seq(S)
      /\ rest \in Seq(S) /\ Len(rest) = Len(pattern) + 1 /\ Len(pattern) \in Nat
      /\ Len(pattern) >= 1
  BY <1>2, <1>3, AppendIsConcat, AppendProperties, EmptySeq
<1>5. /\ space \in Seq(S) /\ pattern \in Seq(S) /\ rest \in Seq(S) /\ prefix \in Seq(S)
       /\ id \in Seq(S) /\ sch \in Seq(S)
  BY <1>2, <1>4
<1>6. holder = space \o rest
  <2>1. space \o pattern \in Seq(S)
    BY <1>2, ConcatProperties
  <2>2. holder = (space \o pattern) \o id
    BY <1>1, <1>2, <1>3, <2>1, AppendIsConcat DEF Holder
  <2>3. (space \o pattern) \o id = space \o (pattern \o id)
    BY <1>5, ConcatAssociative
  <2> QED BY <1>4, <2>2, <2>3
<1>7. PICK wide : wide = Waiting(opt[p], k)
  OBVIOUS
<1>8. /\ wide = Append(space, ">") /\ Len(wide) = Len(space) + 1 /\ wide[Len(space) + 1] = ">"
      /\ \A i \in 1 .. Len(space) : wide[i] = space[i]
  <2>1. PICK U : U = S \cup {">"}
    OBVIOUS
  <2>2. space \in Seq(U) /\ ">" \in U
    BY <1>2, <2>1, SeqMonotonic
  <2> QED BY <1>1, <1>7, <2>2, AppendProperties DEF Waiting
<1>9. /\ Len(holder) = Len(space) + Len(rest) /\ Len(space) \in Nat
      /\ \A i \in 1 .. Len(space) : holder[i] = space[i]
  <2>1. /\ Len(space \o rest) = Len(space) + Len(rest) /\ Len(space) \in Nat
        /\ \A i \in 1 .. Len(space) : (space \o rest)[i] = space[i]
    BY <1>5, ConcatProperties, LenProperties
  <2> QED BY <1>6, <2>1
<1>10. rest # <<>>
  BY <1>4, EmptySeq
<1>11. ASSUME NEW t, Len(t) \in Nat, CoversOrEquals(t, wide)
       PROVE  Matches(t, holder)
  BY <1>2, <1>4, <1>6, <1>8, <1>10, <1>11, WildcardMatches
<1>12. ASSUME HasCustomPrefix(opt[p], k) \/ k = "broadcast",
              NEW t, Len(t) \in Nat, CoversOrEquals(t, FilterSubject(opt[p], k))
       PROVE  Matches(t, holder)
  <2>1. space = prefix \o sch
    BY <1>1, <1>2, <1>3, <1>12, AppendIsConcat DEF SchedulePrefix
  <2>2. holder = prefix \o (sch \o rest)
    <3>1. (prefix \o sch) \o rest = prefix \o (sch \o rest)
      BY <1>5, ConcatAssociative
    <3> QED BY <1>6, <2>1, <3>1
  <2>3. sch \o rest \in Seq(S) /\ sch \o rest # <<>>
    <3>1. sch \o rest \in Seq(S) /\ Len(sch \o rest) = Len(sch) + Len(rest) /\ Len(sch) = 1
      BY <1>3, <1>4, ConcatProperties
    <3> QED BY <1>4, <3>1, EmptySeq
  <2>4. CoversOrEquals(t, Append(prefix, ">"))
    BY <1>1, <1>12 DEF FilterSubject
  <2> QED BY <1>2, <1>12, <2>2, <2>3, <2>4, WildcardMatches
<1>13. ASSUME NEW f, Len(f) \in Nat, Matches(f, holder)
       PROVE  Overlaps(f, wide)
  <2>1. Tailed(wide) /\ Fixed(wide) = Len(space)
    <3>1. wide # <<>>
      BY <1>8, <1>9
    <3> QED BY <1>8, <1>9, <3>1 DEF Tailed, Fixed
  <2>2. ~Tailed(f) => Fixed(f) >= Len(wide)
    BY <1>4, <1>8, <1>9, <1>13 DEF Matches, Fixed
  <2>3. ASSUME NEW i \in 1 .. Fixed(f), i <= Len(space)
        PROVE  f[i] = wide[i] \/ "*" \in {f[i], wide[i]}
    <3>1. f[i] \in {"*", holder[i]}
      BY <1>13 DEF Matches
    <3>2. i \in 1 .. Len(space)
      BY <1>9, <1>13, <2>3 DEF Fixed
    <3> QED BY <1>8, <1>9, <3>1, <3>2
  <2> QED BY <2>1, <2>2, <2>3 DEF Overlaps
<1> QED BY <1>4, <1>7, <1>8, <1>9, <1>11, <1>12, <1>13

\* What a client schedules for a handler waits where the handler's pod expects it.
LEMMA ScheduledByClient ==
  ASSUME NamespacesApart, OptionsInv, NEW p \in Pods, NEW h \in opt[p].handlers,
         NEW k \in {"ev", "broadcast"}, k = h.kind, NEW client \in Clients(p, k)
  PROVE  DispatchEvent(client, opt[p].svc, k, h.pattern, TRUE) = Holder(opt[p], k, h.pattern)
<1>1. PICK S, svc, prefix, pattern, subject :
        /\ S = Letters(opt[p], k) /\ svc = opt[p].svc /\ prefix = Prefix(opt[p], k)
        /\ pattern = h.pattern /\ subject = Subject(opt[p], k, pattern)
  OBVIOUS
<1>2. prefix \in Seq(S) /\ pattern \in Seq(S) /\ pattern # <<>> /\ subject = prefix \o pattern
  <2>1. STRING \subseteq S
    BY <1>1 DEF Letters, Token
  <2>2. prefix \in Seq(S) /\ pattern \in Seq(STRING) /\ pattern # <<>>
    BY <1>1, OptionsTyped, PrefixTyped
  <2> QED BY <1>1, <2>1, <2>2, SeqMonotonic DEF Subject
<1>3. /\ IsPrefix(prefix, subject) /\ Len(subject) > Len(prefix)
      /\ SubSeq(subject, Len(prefix) + 1, Len(subject)) = pattern
  BY <1>2, RestOfSubject
<1>4. ClientSubject(client, svc, k, pattern) = subject
  BY <1>1, ClientsAgree
<1>5. PICK s \in Scenarios : opt = s.opts
  BY DEF OptionsInv
<1>6. subject \in SubjectsOf(opt[p], k)
  BY <1>1 DEF SubjectsOf, PatternsOf
<1>7. SchedulePrefix(opt[p], k) \o pattern # <<>>
  <2>1. SchedulePrefix(opt[p], k) \in Seq(S)
    BY <1>1, OptionsTyped, PrefixTyped
  <2> QED BY <1>2, <2>1, ConcatSimplifications!concIsEmpty
<1>8. CASE svc = client.svc
  <2>1. /\ Prefix(client, k) = prefix
        /\ SchedulePrefix(client, k) = SchedulePrefix(opt[p], k)
    BY <1>1, <1>8 DEF Clients, Prefix, SchedulePrefix, ConventionPrefix
  <2>2. k = "ev" => ~IsPrefix(Prefix(client, "broadcast"), subject)
    <3>1. PICK q \in Pods : client = opt[q]
      BY DEF Clients
    <3> QED BY <1>1, <1>5, <1>6, <1>8, <3>1 DEF NamespacesApart
  <2>3. ScheduleSubjectBase(client, subject) = SchedulePrefix(opt[p], k) \o pattern
    BY <1>3, <2>1, <2>2 DEF ScheduleSubjectBase
  <2>4. DispatchEvent(client, svc, k, pattern, TRUE) = BuildScheduleSubject(client, svc, subject)
    BY <1>4 DEF DispatchEvent
  <2> QED BY <1>1, <1>7, <1>8, <2>3, <2>4 DEF BuildScheduleSubject, Holder
<1>9. CASE svc # client.svc
  <2>1. ~HasCustomPrefix(opt[p], k)
    BY <1>1, <1>9 DEF Clients
  <2>2. prefix = IF k = "broadcast" THEN <<"broadcast">> ELSE <<svc, "ev">>
    BY <1>1, <2>1 DEF Prefix, ConventionPrefix
  <2>3. SchedulePrefix(opt[p], k) = IF k = "broadcast" THEN <<"broadcast", "_sch">> ELSE <<svc, "_sch">>
    <3>1. Append(<<"broadcast">>, "_sch") = <<"broadcast", "_sch">>
      <4>1. PICK U, one, both :
              U = {"broadcast", "_sch"} /\ one = <<"broadcast">> /\ both = <<"broadcast", "_sch">>
        OBVIOUS
      <4>2. /\ one \in Seq(U) /\ Len(one) = 1 /\ one[1] = "broadcast" /\ "_sch" \in U
            /\ both \in Seq(U) /\ Len(both) = 2 /\ both[1] = "broadcast" /\ both[2] = "_sch"
        BY <4>1
      <4>3. PICK segment, long : segment = "_sch" /\ long = Append(one, segment)
        OBVIOUS
      <4>4. one \in Seq(U) /\ segment \in U
        BY <4>2, <4>3
      <4>5. /\ long \in Seq(U) /\ Len(long) = Len(one) + 1 /\ long[Len(one) + 1] = segment
            /\ \A i \in 1 .. Len(one) : long[i] = one[i]
        BY <4>3, <4>4, AppendProperties
      <4>6. /\ Len(long) = Len(both) /\ \A i \in 1 .. Len(long) : long[i] = both[i]
        BY <4>2, <4>3, <4>5
      <4>7. long = both
        BY <4>2, <4>5, <4>6, SeqEqual
      <4> QED BY <4>1, <4>3, <4>7
    <3>2. k = "broadcast" => SchedulePrefix(opt[p], k) = Append(prefix, "_sch")
      BY <1>1 DEF SchedulePrefix
    <3>3. k # "broadcast" => SchedulePrefix(opt[p], k) = <<svc, "_sch">>
      BY <1>1, <2>1 DEF SchedulePrefix
    <3> QED BY <2>2, <3>1, <3>2, <3>3
  <2>4. ConventionScheduleSubjectBase(svc, subject) = SchedulePrefix(opt[p], k) \o pattern
    <3>1. subject \in Seq(S) /\ subject # <<>> /\ subject[1] = prefix[1] /\ Len(prefix) >= 1
      BY <1>2, <2>2, ConcatProperties, EmptySeq
    <3>2. "broadcast" \in S /\ svc \in S
      BY <1>1 DEF Letters, Token
    <3>3. CASE k = "broadcast"
      <4>1. IsPrefix(<<"broadcast">>, subject)
        BY <1>3, <2>2, <3>3
      <4>2. Tail(subject) = pattern
        BY <1>3, <2>2, <3>1, <3>3, TailIsSubSeq
      <4> QED BY <2>3, <3>3, <4>1, <4>2 DEF ConventionScheduleSubjectBase
    <3>4. CASE k = "ev"
      <4>1. svc # "broadcast"
        BY <1>1, <1>5 DEF NamespacesApart
      <4>2. ~IsPrefix(<<"broadcast">>, subject) /\ IsPrefix(<<svc>>, subject)
        BY <2>2, <3>1, <3>2, <3>4, <4>1, FirstToken
      <4>3. Len(subject) >= 3 /\ SubSeq(subject, 3, Len(subject)) = pattern
        BY <1>3, <2>2, <3>1, <3>4, LenProperties
      <4> QED BY <2>3, <3>4, <4>2, <4>3 DEF ConventionScheduleSubjectBase
    <3> QED BY <3>3, <3>4
  <2>5. DispatchEvent(client, svc, k, pattern, TRUE) = BuildScheduleSubject(client, svc, subject)
    BY <1>4 DEF DispatchEvent
  <2> QED BY <1>1, <1>7, <1>9, <2>4, <2>5 DEF BuildScheduleSubject, Holder
<1> QED BY <1>1, <1>8, <1>9

\* A schedule is stored where the kind's stream is provided.
LEMMA HolderStored ==
  ASSUME SubjectsAgree, OptionsInv, SubjectsInv, NEW p \in Pods, NEW h \in opt[p].handlers,
         NEW k, Scheduled(p, k), Provided(p, k),
         \A need \in Required(opt[p], k) : Has(p, k, need)
  PROVE  StoredBy(StreamName(opt[p], k), Holder(opt[p], k, h.pattern))
<1>1. PICK name, holder, sought :
        /\ name = StreamName(opt[p], k) /\ holder = Holder(opt[p], k, h.pattern)
        /\ sought = IF HasCustomPrefix(opt[p], k) \/ k = "broadcast" THEN FilterSubject(opt[p], k)
                    ELSE Waiting(opt[p], k)
  OBVIOUS
<1>2. k # "dlq" /\ k \in {"ev", "broadcast"} /\ SchedulingEnabled(opt[p], k)
  BY DEF Scheduled
<1>3. name = NameOf(opt[p], k)
  BY <1>1, <1>2 DEF NameOf
<1>4. sought \in Required(opt[p], k)
  BY <1>1, <1>2 DEF Required, GetSubjects, Waiting
<1>5. name \in DOMAIN streams /\ Stores(streams[name]["subjects"], sought)
  BY <1>3, <1>4 DEF Has
<1>6. PICK t \in streams[name]["subjects"] : CoversOrEquals(t, sought)
  BY <1>5 DEF Stores
<1>7. Len(t) \in Nat
  BY <1>5 DEF SubjectsInv
<1>8. Matches(t, holder)
  BY <1>1, <1>6, <1>7, HolderMatched
<1> QED BY <1>1, <1>5, <1>8 DEF StoredBy

\* The hypothesis about handlers and consumers, of the options of the pods at hand.
LEMMA ApartHere ==
  ASSUME SchedulesApart, NEW s \in Scenarios, opt = s.opts, NEW p \in Pods, NEW k, Scheduled(p, k)
  PROVE  /\ \A q \in Pods : (k = "broadcast" \/ opt[q].svc = opt[p].svc) =>
              \A f \in SubjectsOf(opt[q], k) : ~Overlaps(f, Waiting(opt[p], k))
         /\ \A c \in {c \in DOMAIN s.consumers : c[1] = StreamName(opt[p], k)} :
              /\ c = ConsumerOf(p, k) \/ s.consumers[c] # {}
              /\ \A f \in s.consumers[c] :
                   Overlaps(f, Waiting(opt[p], k)) =>
                     (c = ConsumerOf(p, k) /\ CoversOrEquals(f, Waiting(opt[p], k)))
<1>1. k \in {l \in StreamKinds(s.opts[p]) \cap {"ev", "broadcast"} : SchedulingEnabled(s.opts[p], l)}
  BY DEF Scheduled
<1> QED BY <1>1 DEF SchedulesApart, Waiting, ConsumerOf

\* No filter that a pod gives a consumer of that stream matches a schedule.
LEMMA FiltersMiss ==
  ASSUME SchedulesApart, PodsAgree, OptionsInv, NEW p \in Pods, NEW h \in opt[p].handlers,
         NEW k, Scheduled(p, k), NEW q \in Pods, k \in DurableKinds(opt[q]),
         k = "broadcast" \/ opt[q].svc = opt[p].svc,
         NEW f \in Filters(opt[q], k)
  PROVE  ~Matches(f, Holder(opt[p], k, h.pattern))
<1>1. PICK s \in Scenarios : opt = s.opts
  BY DEF OptionsInv
<1>2. PICK holder, wide :
        holder = Holder(opt[p], k, h.pattern) /\ wide = Waiting(opt[p], k)
  OBVIOUS
<1>3. k \in {"ev", "broadcast"}
  BY DEF Scheduled
<1>4. Len(f) \in Nat
  BY FiltersServe
<1>5. Matches(f, holder) => Overlaps(f, wide)
  BY <1>2, <1>4, HolderMatched
<1>6. CASE f \in SubjectsOf(opt[q], k) \/ f \in SubjectsOf(opt[p], k)
  BY <1>1, <1>2, <1>5, <1>6, ApartHere
<1>7. CASE f \notin SubjectsOf(opt[q], k) /\ f \notin SubjectsOf(opt[p], k)
  <2>1. k = "ev" /\ opt[q].svc = opt[p].svc
    BY <1>3, <1>7 DEF Filters
  <2>2. f \in Filters(opt[p], k)
    BY <2>1, Agreed DEF Scheduled, DurableKinds
  <2>3. ~HasCustomPrefix(opt[p], k) /\ f = FilterSubject(opt[p], k)
    BY <1>7, <2>1, <2>2 DEF Filters
  <2>4. PICK svc, S : svc = opt[p].svc /\ S = {svc, "ev", "_sch", ">", "nuid"} \cup STRING
    OBVIOUS
  <2>5. f[2] = "ev" /\ 2 \in 1 .. Fixed(f)
    <3>1. PICK prefix : prefix = <<svc, "ev">>
      OBVIOUS
    <3>2. prefix \in Seq(S) /\ ">" \in S /\ Len(prefix) = 2 /\ prefix[2] = "ev"
      BY <2>4, <3>1
    <3>3. f = Append(prefix, ">")
      BY <2>1, <2>3, <2>4, <3>1 DEF FilterSubject, Prefix, ConventionPrefix
    <3>4. Len(f) = 3 /\ f[2] = "ev" /\ f[3] = ">"
      <4>1. PICK last : last = ">"
        OBVIOUS
      <4>2. prefix \in Seq(S) /\ last \in S /\ f = Append(prefix, last)
        BY <3>2, <3>3, <4>1
      <4>3. /\ Len(f) = Len(prefix) + 1 /\ f[Len(prefix) + 1] = last
            /\ \A i \in 1 .. Len(prefix) : f[i] = prefix[i]
        BY <4>2, AppendProperties
      <4> QED BY <3>2, <4>1, <4>3
    <3> QED BY <3>4 DEF Fixed
  <2>6. holder[2] = "_sch"
    <3>1. PICK space, pattern : space = <<svc, "_sch">> /\ pattern = h.pattern
      OBVIOUS
    <3>2. space \in Seq(S) /\ "nuid" \in S /\ Len(space) = 2 /\ space[2] = "_sch"
      BY <2>4, <3>1
    <3>3. pattern \in Seq(S)
      <4>1. pattern \in Seq(STRING) /\ STRING \subseteq S
        BY <2>4, <3>1, OptionsTyped
      <4> QED BY <4>1, SeqMonotonic
    <3>4. holder = Append(space \o pattern, "nuid")
      BY <1>2, <2>1, <2>3, <2>4, <3>1 DEF Holder, SchedulePrefix
    <3>5. PICK base : base = space \o pattern
      OBVIOUS
    <3>6. base \in Seq(S) /\ Len(base) >= 2 /\ base[2] = "_sch"
      <4>1. /\ space \o pattern \in Seq(S) /\ Len(space \o pattern) = Len(space) + Len(pattern)
            /\ \A i \in 1 .. Len(space) : (space \o pattern)[i] = space[i]
        <5>1. space \in Seq(S) /\ pattern \in Seq(S)
          BY <3>2, <3>3
        <5> QED BY <5>1, ConcatProperties
      <4>2. Len(pattern) \in Nat
        BY <3>3, LenProperties
      <4> QED BY <3>2, <3>5, <4>1, <4>2
    <3> QED BY <3>2, <3>4, <3>5, <3>6, AppendProperties, LenProperties
  <2> QED BY <1>2, <2>5, <2>6 DEF Matches
<1> QED BY <1>6, <1>7

\* A consumer is as the operator left it, or as a pod has written it.
OriginInv ==
  \E s \in Scenarios :
    /\ opt = s.opts
    /\ \A c \in DOMAIN consumers :
         \/ c \in DOMAIN s.consumers /\ consumers[c] = s.consumers[c]
         \/ \E r \in Pods : \E l \in DurableKinds(opt[r]) :
              c = ConsumerOf(r, l) /\ consumers[c] = Filters(opt[r], l)

LEMMA OriginKept ==
  ASSUME TypeInv, SeenInv, OriginInv, [Next]_vars
  PROVE  OriginInv'
<1>1. PICK s \in Scenarios :
        /\ opt = s.opts
        /\ \A c \in DOMAIN consumers :
             \/ c \in DOMAIN s.consumers /\ consumers[c] = s.consumers[c]
             \/ \E r \in Pods : \E l \in DurableKinds(opt[r]) :
                  c = ConsumerOf(r, l) /\ consumers[c] = Filters(opt[r], l)
  BY DEF OriginInv
<1>2. opt' = opt /\ \A r \in Pods : \A l : ConsumerOf(r, l)' = ConsumerOf(r, l)
  BY OptionsStay DEF ConsumerOf
<1>3. ASSUME NEW c \in DOMAIN consumers'
      PROVE  \/ c \in DOMAIN s.consumers /\ consumers'[c] = s.consumers[c]
             \/ \E r \in Pods : \E l \in DurableKinds(opt[r]) :
                  c = ConsumerOf(r, l) /\ consumers'[c] = Filters(opt[r], l)
  BY <1>1, OnlyFilters
<1> QED BY <1>1, <1>2, <1>3 DEF OriginInv

LEMMA OriginAtFirst == Init => OriginInv
BY DEF Init, OriginInv

\* Where pods of one service ask for the same subjects and filters, no handler and no
\* consumer of somebody else is for subjects among the schedules of a stream, events cannot
\* be taken for broadcasts, operators provide what is theirs and nobody writes the shared
\* stream between another's look and update, what a client schedules for a handler of a pod
\* that is up is stored and waits: no consumer takes it before its time, however the starts
\* and failures interleave, and whoever wrote the consumers.
THEOREM SchedulesWaitHolds ==
  ASSUME SharedExclusive, PodsAgree, SubjectsAgree, NamespacesApart, SchedulesApart,
         OperatorProvides
  PROVE  Spec => []SchedulesWait
<1> DEFINE Inv == /\ TypeInv /\ SeenInv /\ SharedInv /\ OptionsInv /\ SubjectsInv
                  /\ ProvidedInv /\ ConsumersInv /\ OriginInv
<1>1. Init => Inv
  <2>1. Init => SeenInv
    BY DEF Init, SeenInv, Saw, Looking, Nothing
  <2> QED BY <2>1, InitTyped, InitShared, InitSubjects, InitProvided, InitConsumers, OriginAtFirst
<1>2. Inv /\ [Next]_vars => Inv'
  <2> SUFFICES ASSUME Inv, [Next]_vars PROVE Inv'
    OBVIOUS
  <2>1. TypeInv'
    BY PodsStayTyped, ServerStaysTyped DEF TypeInv
  <2>2. SeenInv' /\ SharedInv'
    BY SeenKept, SharedKept
  <2>3. OptionsInv' /\ OriginInv'
    BY OptionsStay, OriginKept DEF OptionsInv
  <2>4. SubjectsInv' /\ ProvidedInv' /\ ConsumersInv'
    BY SubjectsKept, ProvidedKept, ConsumersKept
  <2> QED BY <2>1, <2>2, <2>3, <2>4
<1>3. Inv => SchedulesWait
  <2> SUFFICES ASSUME Inv, NEW p \in Pods, phase[p] = "up",
                      NEW h \in opt[p].handlers, h.kind \in StreamKinds(opt[p]) \cap {"ev", "broadcast"},
                      SchedulingEnabled(opt[p], h.kind), NEW client \in Clients(p, h.kind),
                      NEW holder, holder = DispatchEvent(client, opt[p].svc, h.kind, h.pattern, TRUE)
               PROVE  /\ StoredBy(StreamName(opt[p], h.kind), holder)
                      /\ \A c \in {c \in DOMAIN consumers : c[1] = StreamName(opt[p], h.kind)} :
                           ~Takes(c, holder)
    BY DEF SchedulesWait
  <2>1. PICK k : k = h.kind
    OBVIOUS
  <2>2. Scheduled(p, k) /\ k \in {"ev", "broadcast"} /\ client \in Clients(p, k)
    BY <2>1 DEF Scheduled
  <2>3. k \in Wanted(p) /\ k \in DurableKinds(opt[p])
    BY <2>2 DEF Scheduled, Wanted, DurableKinds
  <2>4. holder = Holder(opt[p], k, h.pattern)
    BY <2>1, <2>2, ScheduledByClient
  <2>5. StoredBy(StreamName(opt[p], k), holder)
    BY <2>2, <2>3, <2>4, UpHas, HolderStored
  <2>6. ASSUME NEW c \in DOMAIN consumers, c[1] = StreamName(opt[p], k)
        PROVE  ~Takes(c, holder)
    <3>1. ASSUME NEW r \in Pods, NEW l \in DurableKinds(opt[r]),
                 c = ConsumerOf(r, l), consumers[c] = Filters(opt[r], l)
          PROVE  ~Takes(c, holder)
      <4>1. l = k /\ (k = "broadcast" \/ opt[r].svc = opt[p].svc)
        <5>1. l \in AllKinds /\ k \in AllKinds /\ l # "dlq" /\ k # "dlq"
          BY <2>2, <3>1 DEF DurableKinds, StreamKinds, Kinds, AllKinds
        <5>2. PICK o, u : o = opt[r] /\ u = opt[p]
          OBVIOUS
        <5>3. NameOf(o, l) = NameOf(u, k)
          BY <2>6, <3>1, <5>1, <5>2 DEF NameOf, ConsumerOf
        <5> QED BY <5>1, <5>2, <5>3, NamesDiffer
      <4>2. Filters(opt[r], l) # {}
        <5>1. PICK g \in opt[r].handlers : g.kind = l
          BY <3>1 DEF DurableKinds, StreamKinds, PatternsOf
        <5>2. g.pattern \in PatternsOf(opt[r], l)
          BY <5>1 DEF PatternsOf
        <5>3. Subject(opt[r], l, g.pattern) \in SubjectsOf(opt[r], l)
          BY <5>2 DEF SubjectsOf
        <5> QED BY <5>3 DEF Filters
      <4> QED BY <2>2, <2>4, <3>1, <4>1, <4>2, FiltersMiss DEF Takes
    <3>2. ASSUME NEW s \in Scenarios, opt = s.opts, c \in DOMAIN s.consumers,
                 consumers[c] = s.consumers[c]
          PROVE  ~Takes(c, holder)
      <4>1. \A f \in consumers[c] : Len(f) \in Nat
        BY DEF ConsumersInv
      <4>2. \A f \in consumers[c] : Matches(f, holder) => Overlaps(f, Waiting(opt[p], k))
        BY <2>4, <4>1, HolderMatched
      <4>3. CASE c # ConsumerOf(p, k)
        BY <2>2, <2>6, <3>2, <4>2, <4>3, ApartHere DEF Takes
      <4>4. CASE c = ConsumerOf(p, k)
        <5>1. Fits(p, k, consumers[c])
          BY <2>3, <4>4, UpHas DEF ConsumersInv
        <5>2. CASE consumers[c] = Filters(opt[p], k)
          BY <2>3, <3>1, <4>4, <5>2
        <5>3. CASE BindsConsumer(opt[p], k, consumers[c])
          <6>1. /\ consumers[c] # {}
                /\ \A f \in consumers[c] : ~CoversOrEquals(f, Waiting(opt[p], k))
            BY <2>2, <5>3 DEF BindsConsumer, HoldersNotConsumed, Scheduled, Waiting
          <6> QED BY <2>2, <2>6, <3>2, <4>2, <6>1, ApartHere DEF Takes
        <5> QED BY <5>1, <5>2, <5>3 DEF Fits
      <4> QED BY <4>3, <4>4
    <3> QED BY <3>1, <3>2 DEF OriginInv
  <2> QED BY <2>1, <2>5, <2>6
<1> QED BY <1>1, <1>2, <1>3, PTL DEF Spec

================================================================================
