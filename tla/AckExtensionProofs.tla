--------------------------- MODULE AckExtensionProofs ---------------------------
(***************************************************************************)
(* The ack-extension pool keeps its deliveries alive and lets go of them   *)
(* in time, for every number of deliveries, interval, budget and lag.      *)
(***************************************************************************)
EXTENDS AckExtension, TLAPS

\* Only deliveries that are held have entries, and a parked one has an entry unless it
\* has no extension or its budget ran out.
EntriesAreHeld ==
  \A m \in Msgs :
    /\ m \in extended => held[m] \in {"parked", "routed"}
    /\ held[m] = "parked" => m \in extended \/ m \in missed \/ Interval(m) = 0
    /\ m \in handed => held[m] \in {"routed", "settled"}

\* How long after it was last heard of the next working() of a delivery is due.
DueWithin(m) == IF m \in handed THEN 2 * Interval(m) + MaxLag ELSE Interval(m)

\* The next working() is planned for no later than the server's patience allows.
PlannedInTime ==
  \A m \in extended \ missed : entries[m].nextFireAt <= alive[m] + DueWithin(m)

\* The inductive invariant: the timer is early enough for every entry, every entry for
\* its delivery.
PoolInv == TypeOK /\ WokenInTime /\ EntriesAreHeld /\ PlannedInTime

--------------------------------------------------------------------------------
\* resolveAckExtensionInterval() gives a number of milliseconds.
LEMMA ResolveIntervalTyped ==
  ASSUME NEW o \in Options
  PROVE  ResolveInterval(o) \in Nat
BY PoolAssumption, SMT DEF ResolveInterval

\* The timer is due at the earlier of the two deadlines.
LEMMA DueAtTyped ==
  ASSUME NEW e \in [nextFireAt : Nat, expiresAt : Nat]
  PROVE  /\ DueAt(e) \in Nat
         /\ DueAt(e) <= e.nextFireAt
         /\ DueAt(e) <= e.expiresAt
         /\ DueAt(e) = e.nextFireAt \/ DueAt(e) = e.expiresAt
BY SMT DEF DueAt, Lesser

\* What the proofs need of the constants and of one delivery.
LEMMA IntervalTyped ==
  ASSUME TypeOK, NEW m \in Msgs
  PROVE  Interval(m) \in Nat
BY ResolveIntervalTyped DEF TypeOK, Interval

--------------------------------------------------------------------------------
\* Initially the pool is empty.
LEMMA PoolInit == Init => PoolInv
<1> SUFFICES ASSUME Init PROVE PoolInv
  OBVIOUS
<1>1. TypeOK
  <2>1. extended = {} /\ entries \in [extended -> [nextFireAt : Nat, expiresAt : Nat]]
    BY SMT DEF Init, extended
  <2>2. {extended, handed, missed} \subseteq SUBSET Msgs
    BY <2>1 DEF Init
  <2>3. held \in [Msgs -> {"none", "parked", "routed", "settled"}]
    BY DEF Init
  <2>4. now \in Nat /\ alive \in [Msgs -> Nat] /\ handleFireAt \in Nat
    BY SMT DEF Init
  <2>5. armed \in BOOLEAN /\ option \in [Msgs -> Options]
    BY DEF Init
  <2> QED BY <2>1, <2>2, <2>3, <2>4, <2>5 DEF TypeOK
<1>2. WokenInTime /\ EntriesAreHeld /\ PlannedInTime
  BY SMT DEF Init, WokenInTime, EntriesAreHeld, PlannedInTime, extended
<1> QED BY <1>1, <1>2 DEF PoolInv

\* schedule() keeps the pool in order: its timer is early enough for the entries there
\* were and for the new one.
LEMMA ScheduleKeeps ==
  ASSUME TypeOK, WokenInTime, NEW m \in Msgs, Schedule(m), now' = now
  PROVE  /\ entries' \in [extended' -> [nextFireAt : Nat, expiresAt : Nat]]
         /\ extended' \subseteq Msgs
         /\ armed' \in BOOLEAN
         /\ handleFireAt' \in Nat
         /\ WokenInTime'
         /\ \A n \in Msgs \ {m} :
              /\ n \in extended' <=> n \in extended
              /\ n \in extended => entries'[n] = entries[n]
         /\ Interval(m) = 0 => entries' = entries
         /\ Interval(m) # 0 => m \in extended' /\ entries'[m].nextFireAt = now + Interval(m)
<1> USE DEF extended
<1>i. Interval(m) \in Nat /\ now \in Nat /\ Budget \in Nat /\ MaxLag \in Nat
  BY IntervalTyped, PoolAssumption DEF TypeOK
<1>1. CASE Interval(m) = 0
  BY <1>1 DEF Schedule, timerVars, TypeOK, WokenInTime
<1>2. CASE Interval(m) # 0
  <2> DEFINE new == NewEntry(m)
             due == DueAt(new)
  <2>1. /\ new \in [nextFireAt : Nat, expiresAt : Nat]
        /\ new.nextFireAt = now + Interval(m)
        /\ new.expiresAt = now + Budget
    BY <1>i DEF NewEntry
  <2>2. due \in Nat /\ now <= due
    <3> HIDE DEF new
    <3> QED BY <1>i, <2>1, DueAtTyped, SMT
  <2>3. /\ entries' = [n \in extended \cup {m} |-> IF n = m THEN new ELSE entries[n]]
        /\ armed' = TRUE
        /\ handleFireAt' = IF ArmedWithout(m) /\ handleFireAt <= due THEN handleFireAt ELSE due
    BY <1>2 DEF Schedule, EnsureWake
  <2> HIDE DEF new, due
  <2>4. /\ extended' = extended \cup {m}
        /\ entries'[m] = new
        /\ \A n \in extended \ {m} : entries'[n] = entries[n]
    BY <2>3
  <2>5. handleFireAt' \in Nat /\ handleFireAt' <= due /\ now <= handleFireAt' + MaxLag
    BY <1>i, <2>2, <2>3, SMT DEF TypeOK, WokenInTime, ArmedWithout
  <2>6. ASSUME NEW n \in extended \ {m}
        PROVE  handleFireAt' <= DueAt(entries'[n])
    <3>1. ArmedWithout(m) /\ handleFireAt <= DueAt(entries[n])
      BY DEF WokenInTime, ArmedWithout
    <3>2. DueAt(entries[n]) \in Nat
      BY DueAtTyped DEF TypeOK
    <3>3. handleFireAt' <= handleFireAt
      BY <2>2, <2>3, <3>1, SMT DEF TypeOK
    <3> QED BY <2>4, <2>5, <3>1, <3>2, <3>3, SMT DEF TypeOK
  <2>7. WokenInTime'
    <3>1. \A n \in extended' : handleFireAt' <= DueAt(entries'[n])
      BY <2>4, <2>5, <2>6 DEF due
    <3> QED BY <2>3, <2>4, <2>5, <3>1 DEF WokenInTime
  <2>8. /\ entries' \in [extended' -> [nextFireAt : Nat, expiresAt : Nat]]
        /\ extended' \subseteq Msgs
    BY <2>1, <2>3, <2>4 DEF TypeOK
  <2> QED BY <1>2, <2>1, <2>3, <2>4, <2>5, <2>7, <2>8
<1> QED BY <1>1, <1>2

\* A delivery arrives: it was not extended before, and has just been heard of.
LEMMA ArriveKeeps ==
  ASSUME PoolInv, NEW m \in Msgs, Arrive(m)
  PROVE  PoolInv'
<1> USE DEF PoolInv
<1>1. PICK h \in {"parked", "routed"} : held' = [held EXCEPT ![m] = h]
  BY DEF Arrive
<1>2. /\ held[m] = "none" /\ held'[m] = h
      /\ \A n \in Msgs \ {m} : held'[n] = held[n] /\ alive'[n] = alive[n]
      /\ alive'[m] = now
      /\ now' = now /\ option' = option /\ handed' = handed /\ missed' = missed
      /\ Schedule(m)
      /\ m \notin extended
  BY <1>1 DEF Arrive, TypeOK, EntriesAreHeld
<1>3. /\ entries' \in [extended' -> [nextFireAt : Nat, expiresAt : Nat]]
      /\ extended' \subseteq Msgs
      /\ armed' \in BOOLEAN
      /\ handleFireAt' \in Nat
      /\ WokenInTime'
      /\ \A n \in Msgs \ {m} :
           /\ n \in extended' <=> n \in extended
           /\ n \in extended => entries'[n] = entries[n]
      /\ Interval(m) = 0 => entries' = entries
      /\ Interval(m) # 0 => m \in extended' /\ entries'[m].nextFireAt = now + Interval(m)
  BY <1>2, ScheduleKeeps
<1>4. TypeOK'
  <2>1. held' \in [Msgs -> {"none", "parked", "routed", "settled"}]
    BY <1>1 DEF TypeOK
  <2>2. alive' \in [Msgs -> Nat]
    BY DEF Arrive, TypeOK
  <2> QED BY <1>2, <1>3, <2>1, <2>2 DEF TypeOK
<1>5. ASSUME NEW n \in Msgs PROVE Interval(n)' = Interval(n) /\ Interval(n) \in Nat
  BY <1>2, IntervalTyped DEF Interval
<1>6. EntriesAreHeld'
  <2>1. m \notin handed
    BY <1>2 DEF EntriesAreHeld
  <2> QED BY <1>2, <1>3, <1>5, <2>1 DEF EntriesAreHeld
<1>7. PlannedInTime'
  <2>1. CASE Interval(m) = 0
    <3>1. m \notin extended'
      BY <1>2, <1>3, <2>1 DEF extended
    <3> QED BY <1>2, <1>3, <1>5, <3>1 DEF PlannedInTime, DueWithin
  <2>2. CASE Interval(m) # 0
    <3>1. entries'[m].nextFireAt <= alive'[m] + DueWithin(m)'
      BY <1>2, <1>3, <1>5, <2>2, PoolAssumption, SMT DEF DueWithin, TypeOK
    <3> QED BY <1>2, <1>3, <1>5, <3>1 DEF PlannedInTime, DueWithin
  <2> QED BY <2>1, <2>2
<1> QED BY <1>3, <1>4, <1>6, <1>7

\* A delivery leaves the backlog: the server may have heard nothing of it for an interval,
\* and another one begins.
LEMMA LeaveBacklogKeeps ==
  ASSUME PoolInv, NEW m \in Msgs, LeaveBacklog(m)
  PROVE  PoolInv'
<1> USE DEF PoolInv
<1>2. /\ held[m] = "parked" /\ held'[m] = "routed"
      /\ held' \in [Msgs -> {"none", "parked", "routed", "settled"}]
      /\ \A n \in Msgs \ {m} : held'[n] = held[n]
      /\ handed' = handed \cup {m} /\ m \notin handed
      /\ now' = now /\ option' = option /\ alive' = alive /\ missed' = missed
      /\ Schedule(m)
  BY DEF LeaveBacklog, TypeOK, EntriesAreHeld
<1>3. /\ entries' \in [extended' -> [nextFireAt : Nat, expiresAt : Nat]]
      /\ extended' \subseteq Msgs
      /\ armed' \in BOOLEAN
      /\ handleFireAt' \in Nat
      /\ WokenInTime'
      /\ \A n \in Msgs \ {m} :
           /\ n \in extended' <=> n \in extended
           /\ n \in extended => entries'[n] = entries[n]
      /\ Interval(m) = 0 => entries' = entries
      /\ Interval(m) # 0 => m \in extended' /\ entries'[m].nextFireAt = now + Interval(m)
  BY <1>2, ScheduleKeeps
<1>4. TypeOK'
  BY <1>2, <1>3 DEF TypeOK
<1>5. ASSUME NEW n \in Msgs PROVE Interval(n)' = Interval(n) /\ Interval(n) \in Nat
  BY <1>2, IntervalTyped DEF Interval
<1>6. EntriesAreHeld'
  BY <1>2, <1>3, <1>5 DEF EntriesAreHeld
<1>7. \A n \in extended' \ missed' : n # m => entries'[n].nextFireAt <= alive'[n] + DueWithin(n)'
  BY <1>2, <1>3, <1>5 DEF PlannedInTime, DueWithin
<1>8. m \in extended' \ missed' => entries'[m].nextFireAt <= alive'[m] + DueWithin(m)'
  <2> SUFFICES ASSUME m \in extended', m \notin missed
               PROVE  entries'[m].nextFireAt <= alive[m] + 2 * Interval(m) + MaxLag
    BY <1>2, <1>5, PoolAssumption, SMT DEF DueWithin, TypeOK
  <2>1. CASE Interval(m) = 0
    <3>1. m \in extended /\ entries' = entries
      BY <1>3, <2>1 DEF extended
    <3>2. entries[m].nextFireAt <= alive[m]
      BY <1>2, <2>1, <3>1, SMT DEF PlannedInTime, DueWithin, TypeOK
    <3> QED BY <2>1, <3>1, <3>2, PoolAssumption, SMT DEF TypeOK
  <2>2. CASE Interval(m) # 0
    <3>1. m \in extended /\ entries[m].nextFireAt <= alive[m] + Interval(m)
      BY <1>2, <2>2 DEF EntriesAreHeld, PlannedInTime, DueWithin
    <3>2. now <= handleFireAt + MaxLag /\ handleFireAt <= DueAt(entries[m])
      BY <3>1 DEF WokenInTime
    <3>3. /\ DueAt(entries[m]) \in Nat
          /\ DueAt(entries[m]) <= entries[m].nextFireAt
          /\ entries[m].nextFireAt \in Nat
      BY <3>1, DueAtTyped DEF TypeOK
    <3>4. now <= alive[m] + Interval(m) + MaxLag
      BY <1>5, <3>1, <3>2, <3>3, PoolAssumption, SMT DEF TypeOK
    <3> QED BY <1>3, <1>5, <2>2, <3>4, PoolAssumption, SMT DEF TypeOK
  <2> QED BY <2>1, <2>2
<1> QED BY <1>3, <1>4, <1>6, <1>7, <1>8 DEF PlannedInTime

\* A settled delivery leaves the pool; what is left keeps its timer.
LEMMA SettleKeeps ==
  ASSUME PoolInv, NEW m \in Msgs, Settle(m)
  PROVE  PoolInv'
<1> USE DEF PoolInv
<1>1. /\ extended' = extended \ {m}
      /\ \A n \in extended \ {m} : entries'[n] = entries[n]
      /\ entries' \in [extended' -> [nextFireAt : Nat, expiresAt : Nat]]
  BY DEF Settle, TypeOK, extended
<1>2. /\ held'[m] = "settled"
      /\ held' \in [Msgs -> {"none", "parked", "routed", "settled"}]
      /\ \A n \in Msgs \ {m} : held'[n] = held[n] /\ alive'[n] = alive[n]
      /\ alive' \in [Msgs -> Nat]
      /\ now' = now /\ option' = option /\ handed' = handed /\ missed' = missed
  BY DEF Settle, TypeOK
<1>3. /\ armed' \in BOOLEAN /\ handleFireAt' \in Nat
      /\ armed' <=> armed /\ extended # {m}
      /\ armed' => handleFireAt' = handleFireAt
  BY DEF Settle, ArmedWithout, TypeOK
<1>4. TypeOK'
  BY <1>1, <1>2, <1>3 DEF TypeOK
<1>5. ASSUME NEW n \in Msgs PROVE Interval(n)' = Interval(n)
  BY <1>2 DEF Interval
<1>6. WokenInTime'
  BY <1>1, <1>2, <1>3 DEF WokenInTime
<1>7. EntriesAreHeld'
  BY <1>1, <1>2, <1>5 DEF EntriesAreHeld
<1>8. PlannedInTime'
  BY <1>1, <1>2, <1>5 DEF PlannedInTime, DueWithin, TypeOK
<1> QED BY <1>4, <1>6, <1>7, <1>8

\* tick() drops what has expired, renews what was due and sets the timer for the rest.
LEMMA TickKeeps ==
  ASSUME PoolInv, Tick
  PROVE  PoolInv'
<1> USE DEF PoolInv
<1>1. /\ extended' = extended \ Expired
      /\ \A n \in extended' : entries'[n] = IF n \in Firing THEN Renewed(n) ELSE entries[n]
  BY DEF Tick, extended
<1>2. PICK lost \in SUBSET Firing :
        /\ alive' = [n \in Msgs |-> IF n \in Firing \ lost THEN now ELSE alive[n]]
        /\ handed' = handed \ (Firing \ lost)
        /\ missed' = missed \cup Expired \cup lost
  BY DEF Tick
<1>3. now' = now /\ option' = option /\ held' = held
  BY DEF Tick
<1>4. ASSUME NEW n \in Msgs PROVE Interval(n)' = Interval(n) /\ Interval(n) \in Nat
  BY <1>3, IntervalTyped DEF Interval
<1>5. Expired \subseteq extended /\ Firing \subseteq extended /\ extended \subseteq Msgs
  BY DEF Expired, Firing, TypeOK
<1>6. ASSUME NEW n \in extended'
      PROVE  /\ entries'[n] \in [nextFireAt : Nat, expiresAt : Nat]
             /\ now <= DueAt(entries'[n])
             /\ n \in Firing => entries'[n].nextFireAt = now + Interval(n)
             /\ n \notin Firing => entries'[n] = entries[n]
  <2>1. /\ n \in extended \ Expired /\ n \in Msgs
        /\ entries[n] \in [nextFireAt : Nat, expiresAt : Nat]
        /\ now \in Nat /\ Interval(n) \in Nat
    BY <1>1, <1>4, <1>5 DEF TypeOK
  <2>2. ~(entries[n].expiresAt <= now)
    BY <2>1 DEF Expired
  <2>3. CASE n \in Firing
    <3>1. entries'[n] = [entries[n] EXCEPT !.nextFireAt = now + Interval(n)]
      BY <1>1, <2>3 DEF Renewed
    <3>2. /\ entries'[n] \in [nextFireAt : Nat, expiresAt : Nat]
          /\ entries'[n].nextFireAt = now + Interval(n)
          /\ entries'[n].expiresAt = entries[n].expiresAt
      BY <2>1, <3>1
    <3> QED BY <2>1, <2>2, <2>3, <3>2, DueAtTyped, SMT
  <2>4. CASE n \notin Firing
    <3>1. entries'[n] = entries[n]
      BY <1>1, <2>4
    <3>2. ~(entries[n].nextFireAt <= now)
      BY <2>1, <2>4 DEF Firing
    <3> QED BY <2>1, <2>2, <2>4, <3>1, <3>2, DueAtTyped, SMT
  <2> QED BY <2>3, <2>4
<1>7. /\ armed' = (extended' # {})
      /\ extended' = {} => handleFireAt' = 0
      /\ extended' # {} =>
           /\ \E n \in extended' : handleFireAt' = DueAt(entries'[n])
           /\ \A n \in extended' : handleFireAt' <= DueAt(entries'[n])
  BY DEF Tick
<1>8. handleFireAt' \in Nat /\ (armed' => now <= handleFireAt' + MaxLag)
  <2>1. CASE extended' = {}
    <3>1. ~armed' /\ handleFireAt' = 0
      BY <1>7, <2>1
    <3> QED BY <3>1
  <2>2. CASE extended' # {}
    <3>1. PICK n \in extended' : handleFireAt' = DueAt(entries'[n])
      BY <1>7, <2>2
    <3>2. DueAt(entries'[n]) \in Nat /\ now <= DueAt(entries'[n])
      BY <1>6, DueAtTyped
    <3> QED BY <3>1, <3>2, PoolAssumption, SMT DEF TypeOK
  <2> QED BY <2>1, <2>2
<1>9. WokenInTime'
  BY <1>3, <1>7, <1>8 DEF WokenInTime
<1>10. TypeOK'
  <2>1. entries' \in [extended' -> [nextFireAt : Nat, expiresAt : Nat]]
    <3>1. entries' = [n \in extended' |-> entries'[n]]
      BY <1>1 DEF Tick
    <3> QED BY <1>6, <3>1
  <2>2. alive' \in [Msgs -> Nat]
    BY <1>2 DEF TypeOK
  <2>3. {extended', handed', missed'} \subseteq SUBSET Msgs
    BY <1>1, <1>2, <1>5 DEF TypeOK
  <2>4. armed' \in BOOLEAN
    BY <1>7
  <2> QED BY <1>3, <1>8, <2>1, <2>2, <2>3, <2>4 DEF TypeOK
<1>11. EntriesAreHeld'
  BY <1>1, <1>2, <1>3, <1>4 DEF EntriesAreHeld
<1>12. PlannedInTime'
  <2> SUFFICES ASSUME NEW n \in extended', n \notin missed'
               PROVE  entries'[n].nextFireAt <= alive'[n] + DueWithin(n)'
    BY DEF PlannedInTime
  <2>1. n \in Msgs /\ n \in extended \ missed
    BY <1>1, <1>2, <1>5
  <2>2. CASE n \in Firing
    <3>1. alive'[n] = now /\ n \notin handed' /\ entries'[n].nextFireAt = now + Interval(n)
      BY <1>2, <1>6, <2>1, <2>2
    <3> QED BY <1>4, <2>1, <3>1, SMT DEF DueWithin, TypeOK
  <2>3. CASE n \notin Firing
    <3>1. alive'[n] = alive[n] /\ (n \in handed' <=> n \in handed) /\ entries'[n] = entries[n]
      BY <1>2, <1>6, <2>1, <2>3
    <3> QED BY <1>4, <2>1, <3>1 DEF PlannedInTime, DueWithin
  <2> QED BY <2>2, <2>3
<1> QED BY <1>9, <1>10, <1>11, <1>12

\* Time passes.
LEMMA PassKeeps ==
  ASSUME PoolInv, Pass
  PROVE  PoolInv'
<1>1. /\ now' = now + 1 /\ (armed => now < handleFireAt + MaxLag)
      /\ UNCHANGED <<option, held, entries, armed, handleFireAt, alive, handed, missed>>
  BY DEF Pass, timerVars
<1>2. now \in Nat /\ handleFireAt \in Nat /\ MaxLag \in Nat
  BY PoolAssumption DEF PoolInv, TypeOK
<1>3. now' \in Nat /\ (armed => now' <= handleFireAt + MaxLag)
  BY <1>1, <1>2, SMT
<1>4. TypeOK'
  BY <1>1, <1>3 DEF PoolInv, TypeOK, extended
<1>5. WokenInTime'
  BY <1>1, <1>3 DEF PoolInv, WokenInTime, extended
<1>6. EntriesAreHeld' /\ PlannedInTime'
  BY <1>1 DEF PoolInv, EntriesAreHeld, PlannedInTime, DueWithin, extended, Interval
<1> QED BY <1>4, <1>5, <1>6 DEF PoolInv

--------------------------------------------------------------------------------
\* The pool's invariant holds throughout.
THEOREM PoolInvariant == Spec => []PoolInv
<1>1. Init => PoolInv
  BY PoolInit
<1>2. PoolInv /\ [Next]_vars => PoolInv'
  <2> SUFFICES ASSUME PoolInv, [Next]_vars PROVE PoolInv'
    OBVIOUS
  <2>1. CASE UNCHANGED vars
    BY <2>1 DEF vars, timerVars, PoolInv, TypeOK, WokenInTime, EntriesAreHeld, PlannedInTime,
                DueWithin, extended, Interval
  <2>2. ASSUME NEW m \in Msgs, Arrive(m) PROVE PoolInv'
    BY <2>2, ArriveKeeps
  <2>3. ASSUME NEW m \in Msgs, LeaveBacklog(m) PROVE PoolInv'
    BY <2>3, LeaveBacklogKeeps
  <2>4. ASSUME NEW m \in Msgs, Settle(m) PROVE PoolInv'
    BY <2>4, SettleKeeps
  <2>5. CASE Tick
    BY <2>5, TickKeeps
  <2>6. CASE Pass
    BY <2>6, PassKeeps
  <2> QED BY <2>1, <2>2, <2>3, <2>4, <2>5, <2>6 DEF Next
<1> QED BY <1>1, <1>2, PTL DEF Spec

\* The server hears of every extended delivery in time, whatever the other entries do to
\* the timer they share (tick() and ensureWake()).
THEOREM PoolKeepsAlive == Spec => []KeptAlive
<1>1. PoolInv => KeptAlive
  <2> SUFFICES ASSUME PoolInv, NEW m \in extended, m \notin missed
               PROVE  now - alive[m] <= Silence(m)
    BY DEF KeptAlive
  <2> USE DEF PoolInv
  <2>1. m \in Msgs /\ entries[m] \in [nextFireAt : Nat, expiresAt : Nat]
    BY DEF TypeOK
  <2>2. now <= handleFireAt + MaxLag /\ handleFireAt <= DueAt(entries[m])
    BY DEF WokenInTime
  <2>3. DueAt(entries[m]) \in Nat /\ DueAt(entries[m]) <= entries[m].nextFireAt
    BY <2>1, DueAtTyped
  <2>4. entries[m].nextFireAt <= alive[m] + DueWithin(m)
    BY DEF PlannedInTime
  <2>5. Interval(m) \in Nat /\ now \in Nat /\ alive[m] \in Nat /\ handleFireAt \in Nat
        /\ MaxLag \in Nat /\ entries[m].nextFireAt \in Nat
    BY <2>1, IntervalTyped, PoolAssumption DEF TypeOK
  <2>6. CASE m \in handed
    BY <2>2, <2>3, <2>4, <2>5, <2>6, SMT DEF DueWithin, Silence
  <2>7. CASE m \notin handed
    BY <2>2, <2>3, <2>4, <2>5, <2>7, SMT DEF DueWithin, Silence
  <2> QED BY <2>6, <2>7
<1> QED BY <1>1, PoolInvariant, PTL

\* No entry outlives its budget or its delivery, and no timer its entries (tick() and
\* cancel()).
THEOREM PoolExtensionEnds == Spec => []ExtensionEnds
<1>1. PoolInv => ExtensionEnds
  <2> SUFFICES ASSUME PoolInv PROVE ExtensionEnds
    OBVIOUS
  <2> USE DEF PoolInv
  <2>1. ASSUME NEW m \in extended
        PROVE  now <= entries[m].expiresAt + MaxLag /\ held[m] # "settled"
    <3>1. m \in Msgs /\ entries[m] \in [nextFireAt : Nat, expiresAt : Nat]
      BY DEF TypeOK
    <3>2. now <= handleFireAt + MaxLag /\ handleFireAt <= DueAt(entries[m])
      BY DEF WokenInTime
    <3>3. DueAt(entries[m]) \in Nat /\ DueAt(entries[m]) <= entries[m].expiresAt
      BY <3>1, DueAtTyped
    <3>4. now \in Nat /\ handleFireAt \in Nat /\ MaxLag \in Nat /\ entries[m].expiresAt \in Nat
      BY <3>1, PoolAssumption DEF TypeOK
    <3>5. now <= entries[m].expiresAt + MaxLag
      BY <3>2, <3>3, <3>4, SMT
    <3> QED BY <3>1, <3>5 DEF EntriesAreHeld
  <2> QED BY <2>1 DEF ExtensionEnds, WokenInTime
<1> QED BY <1>1, PoolInvariant, PTL
================================================================================
