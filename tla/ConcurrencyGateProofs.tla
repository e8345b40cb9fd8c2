------------------------- MODULE ConcurrencyGateProofs -------------------------
(***************************************************************************)
(* Proofs about ConcurrencyGate for any set of jobs and any number of      *)
(* slots.  The properties are inductive only together: that the slot       *)
(* counter stays a natural number needs SlotsExact, work conservation      *)
(* needs the counter's bound, and both partition and timer accounting need *)
(* the backlog to hold each job once.                                      *)
(***************************************************************************)
EXTENDS ConcurrencyGate, FiniteSetTheorems, SequenceTheorems, TLAPS

GateInv ==
  /\ GateTypeOK
  /\ SlotsExact
  /\ NoIdleSlot
  /\ JobsPartitioned
  /\ NoTimerLeak
  /\ ClosedIsEmpty

--------------------------------------------------------------------------------
(***************************************************************************)
(* What parking and draining do to the contents of the backlog.            *)
(***************************************************************************)
\* Parking a job adds it to the set of parked jobs and keeps the entries distinct.
LEMMA AppendParks ==
  ASSUME NEW S, NEW s \in Seq(S), NEW x \in S
  PROVE  /\ Append(s, x) \in Seq(S)
         /\ Append(s, x) # <<>>
         /\ Range(Append(s, x)) = Range(s) \cup {x}
         /\ (IsInjective(s) /\ x \notin Range(s)) => IsInjective(Append(s, x))
<1>1. /\ Append(s, x) \in Seq(S)
      /\ Len(Append(s, x)) = Len(s) + 1
      /\ \A i \in 1 .. Len(s) : Append(s, x)[i] = s[i]
      /\ Append(s, x)[Len(s) + 1] = x
  OBVIOUS
<1>2. DOMAIN s = 1 .. Len(s) /\ DOMAIN Append(s, x) = 1 .. Len(s) + 1 /\ Len(s) \in Nat
  BY <1>1
<1>3. Append(s, x) # <<>>
  <2>1. Len(<<>>) = 0
    OBVIOUS
  <2>2. Len(Append(s, x)) # 0
    BY <1>1, <1>2
  <2>3. QED
    BY <2>1, <2>2
<1>4. Range(Append(s, x)) = Range(s) \cup {x}
  <2>1. ASSUME NEW y \in Range(Append(s, x)) PROVE y \in Range(s) \cup {x}
    BY <1>1, <1>2 DEF Range
  <2>2. ASSUME NEW y \in Range(s) PROVE y \in Range(Append(s, x))
    <3>1. PICK i \in 1 .. Len(s) : y = s[i]
      BY <1>2 DEF Range
    <3>2. i \in DOMAIN Append(s, x) /\ Append(s, x)[i] = y
      BY <1>1, <1>2, <3>1
    <3>3. QED
      BY <3>2 DEF Range
  <2>3. x \in Range(Append(s, x))
    <3>1. Len(s) + 1 \in DOMAIN Append(s, x)
      BY <1>2
    <3>2. QED
      BY <1>1, <3>1 DEF Range
  <2>4. QED
    BY <2>1, <2>2, <2>3
<1>5. ASSUME IsInjective(s), x \notin Range(s) PROVE IsInjective(Append(s, x))
  BY <1>1, <1>2, <1>5 DEF IsInjective, Range
<1>6. QED
  BY <1>1, <1>3, <1>4, <1>5

\* Shifting the head out of a backlog of distinct jobs removes exactly that job.
LEMMA TailShifts ==
  ASSUME NEW S, NEW s \in Seq(S), s # <<>>, IsInjective(s)
  PROVE  /\ Tail(s) \in Seq(S)
         /\ Head(s) \in Range(s)
         /\ Head(s) \in S
         /\ Range(Tail(s)) = Range(s) \ {Head(s)}
         /\ IsInjective(Tail(s))
<1>1. /\ Tail(s) \in Seq(S)
      /\ Len(s) \in Nat \ {0}
      /\ Len(Tail(s)) = Len(s) - 1
      /\ \A i \in 1 .. Len(s) - 1 : Tail(s)[i] = s[i + 1]
      /\ Head(s) = s[1]
      /\ Head(s) \in S
  OBVIOUS
<1>2. DOMAIN s = 1 .. Len(s) /\ DOMAIN Tail(s) = 1 .. Len(s) - 1
  BY <1>1
<1>3. Head(s) \in Range(s)
  <2>1. 1 \in DOMAIN s
    BY <1>1, <1>2
  <2>2. QED
    BY <1>1, <2>1 DEF Range
<1>4. Range(Tail(s)) = Range(s) \ {Head(s)}
  <2>1. ASSUME NEW y \in Range(Tail(s)) PROVE y \in Range(s) \ {Head(s)}
    <3>1. PICK i \in 1 .. Len(s) - 1 : y = Tail(s)[i]
      BY <1>2 DEF Range
    <3>2. y = s[i + 1] /\ i + 1 \in 1 .. Len(s) /\ i + 1 # 1
      BY <1>1, <3>1
    <3>3. QED
      BY <1>1, <1>2, <3>2 DEF Range, IsInjective
  <2>2. ASSUME NEW y \in Range(s), y # Head(s) PROVE y \in Range(Tail(s))
    <3>1. PICK i \in 1 .. Len(s) : y = s[i]
      BY <1>2 DEF Range
    <3>2. i # 1 /\ i - 1 \in 1 .. Len(s) - 1
      BY <1>1, <2>2, <3>1
    <3>3. Tail(s)[i - 1] = y
      BY <1>1, <3>1, <3>2
    <3>4. QED
      BY <1>2, <3>2, <3>3 DEF Range
  <2>3. QED
    BY <2>1, <2>2
<1>5. IsInjective(Tail(s))
  BY <1>1, <1>2 DEF IsInjective
<1>6. QED
  BY <1>1, <1>3, <1>4, <1>5

\* An empty backlog parks nothing.
LEMMA EmptyBacklog ==
  /\ Range(<<>>) = {}
  /\ IsInjective(<<>>)
BY DEF Range, IsInjective

--------------------------------------------------------------------------------
(***************************************************************************)
(* The inductive invariant, one lemma per action.                          *)
(***************************************************************************)
\* A new gate satisfies the invariant.
LEMMA GateInitInv == GateInit => GateInv
<1>1. SUFFICES ASSUME GateInit PROVE GateInv
  OBVIOUS
<1>2. IsFiniteSet(inflight) /\ Cardinality(inflight) = 0
  BY <1>1, FS_EmptySet DEF GateInit
<1>3. Parked = {} /\ IsInjective(backlog)
  BY <1>1, EmptyBacklog DEF GateInit, Parked
<1>4. backlog \in Seq(Jobs)
  BY <1>1 DEF GateInit
<1>5. GateTypeOK
  <2>1. active \in 0 .. MaxActive
    BY <1>1, MaxActiveAssumption DEF GateInit
  <2>2. draining \in BOOLEAN /\ open \in BOOLEAN
    BY <1>1 DEF GateInit
  <2>3. inflight \subseteq Jobs /\ finished \subseteq Jobs /\ handedBack \subseteq Jobs
        /\ timers \subseteq Jobs
    BY <1>1 DEF GateInit
  <2>4. QED
    BY <1>4, <2>1, <2>2, <2>3 DEF GateTypeOK
<1>6. SlotsExact
  BY <1>1, <1>2, MaxActiveAssumption DEF GateInit, SlotsExact
<1>7. NoIdleSlot /\ JobsPartitioned /\ NoTimerLeak /\ ClosedIsEmpty
  BY <1>1, <1>3 DEF GateInit, NoIdleSlot, JobsPartitioned, NoTimerLeak, ClosedIsEmpty
<1>8. QED
  BY <1>5, <1>6, <1>7 DEF GateInv

\* push() with every slot taken preserves the invariant.
LEMMA PushParksInv ==
  ASSUME GateInv, NEW j \in Jobs, NEW parkTimer \in BOOLEAN, PushParks(j, parkTimer)
  PROVE  GateInv'
<1> USE DEF GateInv, PushParks
<1>1. /\ backlog' \in Seq(Jobs)
      /\ backlog' # <<>>
      /\ Parked' = Parked \cup {j}
      /\ IsInjective(backlog')
  BY AppendParks DEF GateTypeOK, JobsPartitioned, Fresh, Parked
<1>2. GateTypeOK'
  BY <1>1 DEF GateTypeOK
<1>3. SlotsExact' /\ NoIdleSlot'
  BY MaxActiveAssumption DEF SlotsExact, NoIdleSlot, GateTypeOK
<1>4. JobsPartitioned'
  BY <1>1 DEF JobsPartitioned, Fresh
<1>5. NoTimerLeak' /\ ClosedIsEmpty'
  BY <1>1 DEF NoTimerLeak, ClosedIsEmpty
<1>6. QED
  BY <1>2, <1>3, <1>4, <1>5

\* push() into a free slot preserves the invariant when routing is asynchronous.
LEMMA PushRoutesAsyncInv ==
  ASSUME GateInv, NEW j \in Jobs, PushRoutesAsync(j)
  PROVE  GateInv'
<1> USE DEF GateInv, PushRoutesAsync
<1>1. IsFiniteSet(inflight') /\ Cardinality(inflight') = Cardinality(inflight) + 1
  BY FS_AddElement DEF SlotsExact, Fresh
<1>2. GateTypeOK' /\ SlotsExact'
  BY <1>1, MaxActiveAssumption DEF GateTypeOK, SlotsExact
<1>3. backlog' = <<>>
  BY MaxActiveAssumption DEF NoIdleSlot, GateTypeOK
<1>4. JobsPartitioned' /\ NoTimerLeak'
  BY DEF JobsPartitioned, NoTimerLeak, Fresh, Parked
<1>5. QED
  BY <1>2, <1>3, <1>4 DEF NoIdleSlot, ClosedIsEmpty

\* push() into a free slot preserves the invariant when routing completes at once.
LEMMA PushRoutesSyncInv ==
  ASSUME GateInv, NEW j \in Jobs, PushRoutesSync(j)
  PROVE  GateInv'
<1> USE DEF GateInv, PushRoutesSync
<1>1. backlog' = <<>>
  BY MaxActiveAssumption DEF NoIdleSlot, GateTypeOK
<1>2. JobsPartitioned' /\ NoTimerLeak'
  BY DEF JobsPartitioned, NoTimerLeak, Fresh, Parked
<1>3. QED
  BY <1>1, <1>2 DEF GateTypeOK, SlotsExact, NoIdleSlot, ClosedIsEmpty

\* A settled route gives back exactly one slot.
LEMMA RouteDoneInv ==
  ASSUME GateInv, NEW j \in Jobs, RouteDone(j)
  PROVE  GateInv'
<1> USE DEF GateInv, RouteDone
<1>1. /\ IsFiniteSet(inflight')
      /\ Cardinality(inflight') = Cardinality(inflight) - 1
  BY FS_RemoveElement DEF SlotsExact
<1>2. Cardinality(inflight') \in Nat
  BY <1>1, FS_CardinalityType
<1>3. GateTypeOK' /\ SlotsExact'
  BY <1>1, <1>2, MaxActiveAssumption DEF GateTypeOK, SlotsExact
<1>4. JobsPartitioned' /\ NoTimerLeak'
  BY DEF JobsPartitioned, NoTimerLeak, Parked
<1>5. QED
  BY <1>3, <1>4 DEF NoIdleSlot, ClosedIsEmpty

\* One turn of the drain loop moves the head of the backlog into the pipeline.
LEMMA DrainsInv ==
  ASSUME GateInv, DrainsAsync \/ DrainsSync
  PROVE  GateInv'
<1> USE DEF GateInv, DrainHead
<1> DEFINE j == Head(backlog)
<1>0. backlog # <<>> /\ draining /\ active < MaxActive /\ timers' = timers \ {j} /\ draining' = draining
      /\ open' = open /\ handedBack' = handedBack /\ backlog' = Tail(backlog)
  BY DEF DrainsAsync, DrainsSync
<1>1. /\ backlog' \in Seq(Jobs)
      /\ j \in Parked /\ j \in Jobs
      /\ Parked' = Parked \ {j}
      /\ IsInjective(backlog')
  BY <1>0, TailShifts DEF GateTypeOK, JobsPartitioned, Parked
<1>2. j \notin inflight
  BY <1>1 DEF JobsPartitioned
<1>3. GateTypeOK' /\ SlotsExact'
  <2>1. CASE DrainsAsync
    <3>1. IsFiniteSet(inflight') /\ Cardinality(inflight') = Cardinality(inflight) + 1
      BY <1>2, <2>1, FS_AddElement DEF SlotsExact, DrainsAsync
    <3>2. QED
      BY <1>0, <1>1, <2>1, <3>1, MaxActiveAssumption DEF GateTypeOK, SlotsExact, DrainsAsync
  <2>2. CASE DrainsSync
    BY <1>0, <1>1, <2>2 DEF GateTypeOK, SlotsExact, DrainsSync
  <2>3. QED
    BY <2>1, <2>2
<1>4. JobsPartitioned'
  BY <1>0, <1>1 DEF JobsPartitioned, DrainsAsync, DrainsSync
<1>5. NoTimerLeak'
  BY <1>0, <1>1 DEF NoTimerLeak
<1>6. ClosedIsEmpty' /\ NoIdleSlot'
  BY <1>0 DEF ClosedIsEmpty, NoIdleSlot
<1>7. QED
  BY <1>3, <1>4, <1>5, <1>6

\* The drain loop ends with every slot taken or nothing parked.
LEMMA DrainEndsInv ==
  ASSUME GateInv, DrainEnds
  PROVE  GateInv'
<1> USE DEF GateInv, DrainEnds
<1>1. GateTypeOK' /\ SlotsExact'
  BY DEF GateTypeOK, SlotsExact
<1>2. NoIdleSlot'
  BY MaxActiveAssumption DEF NoIdleSlot, GateTypeOK
<1>3. JobsPartitioned' /\ NoTimerLeak' /\ ClosedIsEmpty'
  BY DEF JobsPartitioned, NoTimerLeak, ClosedIsEmpty, Parked
<1>4. QED
  BY <1>1, <1>2, <1>3

\* Stopping a park timer early disturbs nothing else.
LEMMA ParkTimerLapsesInv ==
  ASSUME GateInv, NEW j \in Jobs, ParkTimerLapses(j)
  PROVE  GateInv'
BY DEF GateInv, ParkTimerLapses, GateTypeOK, SlotsExact, NoIdleSlot, JobsPartitioned, NoTimerLeak,
       ClosedIsEmpty, Parked

\* dispose() empties the backlog and hands every parked job back once.
LEMMA DisposeInv ==
  ASSUME GateInv, Dispose
  PROVE  GateInv'
<1> USE DEF GateInv, Dispose
<1>1. Parked \subseteq Jobs
  <2>1. backlog \in [1 .. Len(backlog) -> Jobs]
    BY DEF GateTypeOK
  <2>2. QED
    BY <2>1 DEF Parked, Range
<1>2. Parked' = {} /\ IsInjective(backlog')
  BY EmptyBacklog DEF Parked
<1>3. GateTypeOK' /\ SlotsExact'
  <2>1. backlog' \in Seq(Jobs)
    OBVIOUS
  <2>2. GateTypeOK'
    BY <1>1, <2>1 DEF GateTypeOK
  <2>3. QED
    BY <2>2 DEF SlotsExact
<1>4. JobsPartitioned' /\ NoTimerLeak'
  BY <1>2 DEF JobsPartitioned, NoTimerLeak
<1>5. QED
  BY <1>3, <1>4 DEF NoIdleSlot, ClosedIsEmpty

\* Every step of the gate preserves the invariant.
LEMMA GateNextInv == GateInv /\ [GateNext]_gateVars => GateInv'
<1>1. SUFFICES ASSUME GateInv, [GateNext]_gateVars PROVE GateInv'
  OBVIOUS
<1>2. CASE UNCHANGED gateVars
  BY <1>1, <1>2
  DEF gateVars, GateInv, GateTypeOK, SlotsExact, NoIdleSlot, JobsPartitioned, NoTimerLeak,
      ClosedIsEmpty, Parked
<1>3. ASSUME NEW j \in Jobs,
             \/ \E parkTimer \in BOOLEAN : PushParks(j, parkTimer)
             \/ PushRoutesAsync(j)
             \/ PushRoutesSync(j)
             \/ RouteDone(j)
             \/ ParkTimerLapses(j)
      PROVE  GateInv'
  BY <1>1, <1>3, PushParksInv, PushRoutesAsyncInv, PushRoutesSyncInv, RouteDoneInv,
     ParkTimerLapsesInv
<1>4. QED
  BY <1>1, <1>2, <1>3, DrainsInv, DrainEndsInv, DisposeInv DEF GateNext

--------------------------------------------------------------------------------
\* The gate's state is always well typed and all of its safety invariants hold.
THEOREM GateCorrect == GateSpec => []GateInv
BY GateInitInv, GateNextInv, PTL DEF GateSpec

\* Slots: push(), routeSafely() and onAsyncDone() never leak a slot, never free one
\* twice and never exceed the limit.
THEOREM GateSlotsExact == GateSpec => []SlotsExact
<1>1. GateInv => SlotsExact
  BY DEF GateInv
<1>2. QED
  BY <1>1, GateCorrect, PTL

\* Work conservation: nothing is parked while a slot is free.
THEOREM GateNoIdleSlot == GateSpec => []NoIdleSlot
<1>1. GateInv => NoIdleSlot
  BY DEF GateInv
<1>2. QED
  BY <1>1, GateCorrect, PTL

\* No job is routed twice, nor both routed and handed back by dispose().
THEOREM GateJobsPartitioned == GateSpec => []JobsPartitioned
<1>1. GateInv => JobsPartitioned
  BY DEF GateInv
<1>2. QED
  BY <1>1, GateCorrect, PTL

\* A step of the gate starts the oldest parked job, if it starts one.
LEMMA GateStepInOrder ==
  ASSUME GateInv, [GateNext]_gateVars
  PROVE  [StartedBy # {} => (backlog = <<>> \/ StartedBy = {Head(backlog)})]_gateVars
<1>1. SUFFICES ASSUME GateNext, backlog # <<>> PROVE StartedBy = {} \/ StartedBy = {Head(backlog)}
  OBVIOUS
<1>2. active >= MaxActive \/ draining
  BY <1>1, MaxActiveAssumption DEF GateInv, NoIdleSlot, GateTypeOK
<1>3. CASE DrainsAsync \/ DrainsSync
  BY <1>3 DEF DrainsAsync, DrainsSync, StartedBy
<1>4. CASE DrainEnds \/ Dispose
  BY <1>4 DEF DrainEnds, Dispose, StartedBy
<1>5. ASSUME NEW j \in Jobs, PushRoutesAsync(j) \/ PushRoutesSync(j) PROVE FALSE
  BY <1>2, <1>5, MaxActiveAssumption DEF PushRoutesAsync, PushRoutesSync, GateInv, GateTypeOK
<1>6. ASSUME NEW j \in Jobs,
             \/ \E parkTimer \in BOOLEAN : PushParks(j, parkTimer)
             \/ RouteDone(j)
             \/ ParkTimerLapses(j)
      PROVE  StartedBy = {}
  BY <1>6 DEF PushParks, RouteDone, ParkTimerLapses, StartedBy
<1>7. QED
  BY <1>1, <1>3, <1>4, <1>5, <1>6 DEF GateNext

\* Jobs start in arrival order.
THEOREM GateNoOvertaking == GateSpec => NoOvertaking
<1>1. GateInv /\ [GateNext]_gateVars
        => [StartedBy # {} => (backlog = <<>> \/ StartedBy = {Head(backlog)})]_gateVars
  BY GateStepInOrder
<1>2. QED
  BY <1>1, GateCorrect, PTL DEF GateSpec, NoOvertaking
================================================================================
