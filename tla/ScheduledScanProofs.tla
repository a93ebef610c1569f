-------------------------- MODULE ScheduledScanProofs --------------------------
(* Invariants of the scheduledcompliancescan controller, for all constants. *)
EXTENDS ScheduledScanController, FiniteSetTheorems, NaturalsInduction,
        WellFoundedInduction, TLAPS

-----------------------------------------------------------------------------
(* Cron. *)

LEMMA LeastNumber ==
  ASSUME NEW T \in SUBSET Nat, T # {}
  PROVE  Min(T) \in T /\ \A j \in T : Min(T) <= j
<1> DEFINE Less == {ss \in Nat \X Nat : ss[1] < ss[2]}
<1>1. IsWellFoundedOn(Less, Nat)
  BY NatLessThanWellFounded, Zenon DEF OpToRel
<1>2. PICK i \in T : \A j \in T : <<j, i>> \notin Less
  <2> HIDE DEF Less
  <2> QED BY <1>1, WFMin
<1>3. \A j \in T : ~(j < i)
  BY <1>2
<1>4. \A j \in T : i <= j
  BY <1>3
<1> QED BY <1>4 DEF Min

\* cron.Schedule.Next is a match after the given time, if there is one.
LEMMA NextMatchValue ==
  ASSUME NEW x \in Schedules, NEW t \in Nat
  PROVE  /\ NextMatch(x, t) \in Nat
         /\ (\E s \in Slots[x] : s > t) => /\ NextMatch(x, t) \in Slots[x]
                                           /\ NextMatch(x, t) > t
<1> DEFINE later == {s \in Slots[x] : s > t}
<1>1. later \subseteq Nat /\ later \subseteq Slots[x]
  BY ScheduleAssumption
<1>2. CASE later = {}
  BY <1>2 DEF NextMatch
<1>3. CASE later # {}
  <2>1. Min(later) \in later
    <3> HIDE DEF later
    <3> QED BY <1>1, <1>3, LeastNumber
  <2>2. NextMatch(x, t) = Min(later)
    BY <1>3 DEF NextMatch
  <2> QED BY <1>1, <2>1, <2>2
<1> QED BY <1>2, <1>3

-----------------------------------------------------------------------------
(* Types. *)

Working == {"list", "clear", "recover", "due", "create", "setActive", "cleanup"}

\* The worker has read the clock.
NowIsRead == pc \in Working \ {"list"} => now \in Names

Typed == TypeOK /\ NowIsRead

LEMMA TimeTypes == 0 \in 0..MaxTime /\ Times \subseteq Nat \ {0} /\ Names = 1..MaxTime
BY BoundsAssumption DEF Times, Names

LEMMA SchedValues ==
  /\ Schedules # {} => NoSched \in Scheds
  /\ NoSched.exists = FALSE
  /\ \A x \in Schedules : NewSched(x) \in Scheds
  /\ \A o \in Scheds, x \in Schedules :
       /\ [o EXCEPT !.schedule = x] \in Scheds
       /\ [o EXCEPT !.schedule = x].exists = o.exists
       /\ [o EXCEPT !.schedule = x].schedule = x
       /\ [o EXCEPT !.schedule = x].active = o.active
       /\ [o EXCEPT !.schedule = x].lastSchedule = o.lastSchedule
       /\ [o EXCEPT !.schedule = x].lastCompletion = o.lastCompletion
  /\ \A o \in Scheds, c \in Names \cup {0}, t \in 0..MaxTime :
       /\ [o EXCEPT !.active = c, !.lastSchedule = t] \in Scheds
       /\ [o EXCEPT !.active = c, !.lastCompletion = t] \in Scheds
<1>1. \A x \in Schedules : NewSched(x) \in Scheds
  BY TimeTypes DEF NewSched, Scheds
<1>2. \A x : [NewSched(x) EXCEPT !.exists = FALSE].exists = FALSE
  BY DEF NewSched
<1>3. NoSched.exists = FALSE
  BY <1>2 DEF NoSched
<1>4. Schedules # {} => NoSched \in Scheds
  <2>1. \A o \in Scheds : [o EXCEPT !.exists = FALSE] \in Scheds
    BY DEF Scheds
  <2> QED BY <1>1, <2>1 DEF NoSched
<1>5. \A o \in Scheds, x \in Schedules :
        /\ [o EXCEPT !.schedule = x] \in Scheds
        /\ [o EXCEPT !.schedule = x].exists = o.exists
        /\ [o EXCEPT !.schedule = x].schedule = x
        /\ [o EXCEPT !.schedule = x].active = o.active
        /\ [o EXCEPT !.schedule = x].lastSchedule = o.lastSchedule
        /\ [o EXCEPT !.schedule = x].lastCompletion = o.lastCompletion
  BY DEF Scheds
<1>6. \A o \in Scheds, c \in Names \cup {0}, t \in 0..MaxTime :
        /\ [o EXCEPT !.active = c, !.lastSchedule = t] \in Scheds
        /\ [o EXCEPT !.active = c, !.lastCompletion = t] \in Scheds
  BY DEF Scheds
<1> QED BY <1>1, <1>3, <1>4, <1>5, <1>6

\* A patch keeps the spec and sets the fields of the status that changed.
LEMMA MergeValue ==
  ASSUME NEW server \in Scheds, NEW base \in Scheds, NEW new \in Scheds
  PROVE  LET merged == MergeStatus(server, base, new)
         IN  /\ merged \in Scheds
             /\ merged.exists = server.exists
             /\ merged.schedule = server.schedule
             /\ merged.active = IF new.active = base.active THEN server.active
                                                            ELSE new.active
             /\ merged.lastSchedule =
                  IF new.lastSchedule = base.lastSchedule
                    THEN server.lastSchedule ELSE new.lastSchedule
BY DEF MergeStatus, Scheds

LEMMA ChildValues ==
  /\ NoChild \in Children
  /\ \A t \in 0..MaxTime : [phase |-> "", created |-> t] \in Children
  /\ \A o \in Children, to \in ScanPhases :
       /\ [o EXCEPT !.phase = to] \in Children
       /\ [o EXCEPT !.phase = to].phase = to
       /\ [o EXCEPT !.phase = to].created = o.created
BY TimeTypes DEF NoChild, Children, ScanPhases

LEMMA HeadAndTail ==
  ASSUME NEW S, NEW q \in Seq(S), q # << >>
  PROVE  /\ Head(q) \in S /\ Head(q) = q[1]
         /\ Tail(q) \in Seq(S) /\ Len(Tail(q)) = Len(q) - 1
         /\ \A i \in 1..Len(Tail(q)) : Tail(q)[i] = q[i + 1]
         /\ Tail(q) = << >> => Head(q) = q[Len(q)]
         /\ Tail(q) # << >> => Tail(q)[Len(Tail(q))] = q[Len(q)]
<1>1. /\ Head(q) \in S /\ Head(q) = q[1]
      /\ Tail(q) \in Seq(S) /\ Len(Tail(q)) = Len(q) - 1
      /\ \A i \in 1..Len(Tail(q)) : Tail(q)[i] = q[i + 1]
  OBVIOUS
<1>2. Len(q) \in Nat /\ Len(q) # 0
  OBVIOUS
<1>3. Tail(q) = << >> => Len(q) = 1
  <2>1. Len(<< >>) = 0
    OBVIOUS
  <2>2. Tail(q) = << >> => Len(Tail(q)) = 0
    BY <2>1, Zenon
  <2> QED BY <1>1, <1>2, <2>2
<1>4. Tail(q) # << >> => Len(Tail(q)) \in 1..Len(Tail(q)) /\ Len(Tail(q)) + 1 = Len(q)
  BY <1>1, <1>2
<1> QED BY <1>1, <1>3, <1>4

LEMMA AppendValue ==
  ASSUME NEW S, NEW q \in Seq(S), NEW e \in S
  PROVE  /\ Append(q, e) \in Seq(S) /\ Len(Append(q, e)) = Len(q) + 1
         /\ Append(q, e)[Len(q) + 1] = e
         /\ \A i \in 1..Len(q) : Append(q, e)[i] = q[i]
         /\ Len(q) \in Nat
OBVIOUS

LEMMA StoreSchedTyped ==
  ASSUME TypeOK, NEW o \in Scheds, StoreSched(o)
  PROVE  /\ sched' = o /\ sched' \in Scheds
         /\ schedEvents' \in Seq(Scheds) /\ schedEvents' # << >>
         /\ schedEvents'[Len(schedEvents')] = o
BY DEF TypeOK, StoreSched

LEMMA StoreChildTyped ==
  ASSUME TypeOK, NEW c \in Names, NEW o \in Children, StoreChild(c, o)
  PROVE  /\ child' \in [Names -> Children] /\ child'[c] = o
         /\ \A d \in Names : d # c => child'[d] = child[d]
         /\ childEvents' \in Seq([name : Names, object : Children])
<1>1. [name |-> c, object |-> o] \in [name : Names, object : Children]
  OBVIOUS
<1> QED BY <1>1 DEF TypeOK, StoreChild

LEMMA LeaveTyped ==
  ASSUME TypeOK, Leave
  PROVE  /\ pc' = "idle" /\ sl' \in Scheds /\ view' \in [Names -> Children]
         /\ now' = 0 /\ expr' \in Schedules /\ toDelete' = {}
<1>1. Schedules # {}
  BY DEF TypeOK
<1>2. NoSched \in Scheds /\ NoSched.schedule \in Schedules
  BY <1>1, SchedValues DEF Scheds
<1> QED BY <1>2, ChildValues DEF Leave

LEMMA BoundsTyped ==
  ASSUME TypeOK, \/ \E kind \in {"rejected", "lost"} : Fault(kind)
                 \/ Edit \/ UNCHANGED boundVars
  PROVE  /\ faults' \in 0..MaxFaults /\ restarts' \in 0..MaxRestarts
         /\ edits' \in 0..MaxEdits
<1>1. MaxFaults \in Nat /\ MaxRestarts \in Nat /\ MaxEdits \in Nat
  BY BoundsAssumption
<1> QED BY <1>1 DEF TypeOK, Fault, Edit, boundVars

LEMMA PatchTyped ==
  ASSUME TypeOK, NEW new \in Scheds, PatchOk(new) \/ PatchFails(new)
  PROVE  /\ Merged(new) \in Scheds
         /\ sched' \in Scheds /\ schedEvents' \in Seq(Scheds)
         /\ child' = child /\ childEvents' = childEvents /\ lastRun' = lastRun
         /\ faults' \in 0..MaxFaults /\ restarts' \in 0..MaxRestarts
         /\ edits' \in 0..MaxEdits
<1>1. sched \in Scheds /\ sl \in Scheds /\ schedEvents \in Seq(Scheds)
  BY DEF TypeOK
<1>2. Merged(new) \in Scheds
  BY <1>1, MergeValue DEF Merged
<1>3. /\ child' = child /\ childEvents' = childEvents /\ lastRun' = lastRun
      /\ StoreSched(Merged(new)) \/ (sched' = sched /\ schedEvents' = schedEvents)
  BY DEF PatchOk, PatchFails
<1>4. /\ faults' \in 0..MaxFaults /\ restarts' \in 0..MaxRestarts
      /\ edits' \in 0..MaxEdits
  <2>1. \/ \E kind \in {"rejected", "lost"} : Fault(kind)
        \/ UNCHANGED boundVars
    BY DEF PatchOk, PatchFails, CallRejected, CallLost
  <2> QED BY <2>1, BoundsTyped
<1> QED BY <1>1, <1>2, <1>3, <1>4, StoreSchedTyped

LEMMA ActiveTyped ==
  ASSUME TypeOK, NEW c \in Names, NEW t \in 0..MaxTime
  PROVE  /\ SetActive(c, t) \in Scheds
         /\ SetActive(c, t).active = c
         /\ SetActive(c, t).lastSchedule = t
<1>1. sl \in Scheds
  BY DEF TypeOK
<1>2. SetActive(c, t) \in Scheds
  BY <1>1, SchedValues DEF SetActive
<1>3. SetActive(c, t).active = c /\ SetActive(c, t).lastSchedule = t
  BY <1>1 DEF SetActive, Scheds
<1> QED BY <1>2, <1>3

\* Requeued after a delay the key has a time at which it will be added.
LEMMA ReturnAfterTimer ==
  ASSUME TypeOK, NEW delay \in Nat, ReturnAfter(delay)
  PROVE  /\ timer' \in Nat
         /\ delay # 0 \/ timer # 0 => timer' # 0
BY TimeTypes DEF ReturnAfter, Earlier, TypeOK

LEMMA ExcessTyped ==
  ASSUME GotoCleanup
  PROVE  /\ toDelete' \subseteq Names
         /\ pc' = "cleanup" /\ UNCHANGED <<queued, timer>>
BY DEF GotoCleanup, Goto, Excess

-----------------------------------------------------------------------------
(* The invariant of all steps. *)

LEMMA InitTyped == Init => Typed
<1> SUFFICES ASSUME Init PROVE Typed
  OBVIOUS
<1>1. PICK x \in Schedules : sched = NewSched(x)
  BY DEF Init
<1>2. sched \in Scheds /\ NoSched \in Scheds /\ NoSched.schedule \in Schedules
  BY <1>1, SchedValues DEF Scheds
<1>3. child \in [Names -> Children]
  BY ChildValues DEF Init
<1>4. <<sched>> \in Seq(Scheds)
  BY <1>2
<1>5. TypeOK
  <2>1. << >> \in Seq([name : Names, object : Children])
    OBVIOUS
  <2>2. /\ clock \in Times /\ now \in 0..clock /\ lastRun \in 0..clock
        /\ faults \in 0..MaxFaults /\ restarts \in 0..MaxRestarts
        /\ edits \in 0..MaxEdits
    BY BoundsAssumption DEF Init, Times
  <2>3. schedEvents \in Seq(Scheds) /\ childEvents \in Seq([name : Names, object : Children])
    BY <1>4, <2>1 DEF Init
  <2>4. /\ seenSched \in Scheds /\ sl \in Scheds /\ expr \in Schedules
        /\ seen \in [Names -> Children] /\ view \in [Names -> Children]
    BY <1>2, <1>3 DEF Init
  <2>5. queued \in BOOLEAN /\ timer \in Nat /\ pc = "idle" /\ toDelete = {}
    BY DEF Init
  <2> QED BY <1>2, <1>3, <2>2, <2>3, <2>4, <2>5 DEF TypeOK
<1>6. NowIsRead
  BY DEF Init, NowIsRead, Working
<1> QED BY <1>5, <1>6 DEF Typed

\* Users, the compliancescan controller, the garbage collector, the clock.
LEMMA EnvironmentTyped ==
  ASSUME Typed,
         \/ \E x \in Schedules : EditSchedule(x)
         \/ DeleteSched
         \/ \E c \in Names : ScanAdvances(c) \/ ChildVanishes(c)
         \/ Tick
  PROVE  Typed'
<1> USE DEF Typed
<1>1. ASSUME NEW x \in Schedules, EditSchedule(x)
      PROVE  Typed'
  <2>1. sched' \in Scheds /\ schedEvents' \in Seq(Scheds)
    <3>1. [sched EXCEPT !.schedule = x] \in Scheds
      BY SchedValues DEF TypeOK
    <3> QED BY <1>1, <3>1, StoreSchedTyped DEF EditSchedule
  <2>2. /\ faults' \in 0..MaxFaults /\ restarts' \in 0..MaxRestarts
        /\ edits' \in 0..MaxEdits
    BY <1>1, BoundsTyped DEF EditSchedule
  <2> QED BY <1>1, <2>1, <2>2 DEF TypeOK, NowIsRead, EditSchedule, cacheVars, localVars
<1>2. CASE DeleteSched
  <2>1. sched' \in Scheds /\ schedEvents' \in Seq(Scheds)
    <3>1. NoSched \in Scheds
      BY SchedValues DEF TypeOK
    <3> QED BY <1>2, <3>1, StoreSchedTyped DEF DeleteSched
  <2>2. /\ faults' \in 0..MaxFaults /\ restarts' \in 0..MaxRestarts
        /\ edits' \in 0..MaxEdits
    BY <1>2, BoundsTyped DEF DeleteSched
  <2> QED BY <1>2, <2>1, <2>2 DEF TypeOK, NowIsRead, DeleteSched, cacheVars, localVars
<1>3. ASSUME NEW c \in Names, ScanAdvances(c)
      PROVE  Typed'
  <2>1. PICK to \in ScanPhases : StoreChild(c, [child[c] EXCEPT !.phase = to])
    BY <1>3 DEF ScanAdvances
  <2>2. [child[c] EXCEPT !.phase = to] \in Children
    BY ChildValues DEF TypeOK
  <2>3. /\ child' \in [Names -> Children]
        /\ childEvents' \in Seq([name : Names, object : Children])
    BY <2>1, <2>2, StoreChildTyped
  <2> QED BY <1>3, <2>3 DEF TypeOK, NowIsRead, ScanAdvances, cacheVars, localVars, boundVars
<1>4. ASSUME NEW c \in Names, ChildVanishes(c)
      PROVE  Typed'
  <2>1. /\ child' \in [Names -> Children]
        /\ childEvents' \in Seq([name : Names, object : Children])
    BY <1>4, StoreChildTyped, ChildValues DEF ChildVanishes
  <2>2. /\ faults' \in 0..MaxFaults /\ restarts' \in 0..MaxRestarts
        /\ edits' \in 0..MaxEdits
    BY <1>4, BoundsTyped DEF ChildVanishes
  <2> QED BY <1>4, <2>1, <2>2 DEF TypeOK, NowIsRead, ChildVanishes, cacheVars, localVars
<1>5. CASE Tick
  <2>1. /\ clock \in 1..MaxTime /\ now \in 0..clock /\ lastRun \in 0..clock
        /\ clock < MaxTime /\ clock' = clock + 1 /\ MaxTime \in Nat
    BY <1>5, BoundsAssumption DEF Tick, TypeOK, Times
  <2>2. clock' \in Times /\ now \in 0..clock' /\ lastRun \in 0..clock'
    BY <2>1 DEF Times
  <2> QED BY <1>5, <2>2 DEF TypeOK, NowIsRead, Tick, serverVars, cacheVars, localVars, boundVars
<1> QED BY <1>1, <1>2, <1>3, <1>4, <1>5

LEMMA InformerTyped ==
  ASSUME Typed, Informers \/ TimerFires \/ Dequeue \/ Restart
  PROVE  Typed'
<1> USE DEF Typed
<1>1. CASE DeliverSched
  <2>1. seenSched' \in Scheds /\ schedEvents' \in Seq(Scheds)
    BY <1>1 DEF DeliverSched, TypeOK
  <2> QED BY <1>1, <2>1 DEF TypeOK, NowIsRead, DeliverSched, localVars, boundVars
<1>2. CASE DeliverChild
  <2>1. /\ Head(childEvents) \in [name : Names, object : Children]
        /\ childEvents' \in Seq([name : Names, object : Children])
    BY <1>2, HeadAndTail DEF DeliverChild, TypeOK
  <2>2. seen' \in [Names -> Children]
    BY <1>2, <2>1 DEF DeliverChild, TypeOK
  <2> QED BY <1>2, <2>1, <2>2 DEF TypeOK, NowIsRead, DeliverChild, localVars, boundVars
<1>3. CASE TimerFires
  BY <1>3 DEF TypeOK, NowIsRead, TimerFires, serverVars, cacheVars, localVars, boundVars
<1>4. CASE Dequeue
  BY <1>4 DEF TypeOK, NowIsRead, Dequeue, serverVars, cacheVars, localVars, boundVars, Working
<1>5. CASE Restart
  <2>1. /\ pc' = "idle" /\ sl' \in Scheds /\ view' \in [Names -> Children]
        /\ now' = 0 /\ expr' \in Schedules /\ toDelete' = {}
    BY <1>5, LeaveTyped DEF Restart
  <2>2. restarts' \in 0..MaxRestarts /\ 0 \in 0..clock
    BY <1>5, BoundsAssumption, TimeTypes DEF Restart, TypeOK
  <2>3. << >> \in Seq(Scheds) /\ << >> \in Seq([name : Names, object : Children])
    OBVIOUS
  <2>4. queued' \in BOOLEAN /\ timer' = 0
    BY <1>5, Zenon DEF Restart
  <2> QED BY <1>5, <2>1, <2>2, <2>3, <2>4 DEF TypeOK, NowIsRead, Working, Restart
<1> QED BY <1>1, <1>2, <1>3, <1>4, <1>5 DEF Informers

\* A reconciliation that returns leaves its variables typed.
LEMMA ReturnTyped ==
  ASSUME TypeOK,
         ReturnError \/ \E delay \in Nat : ReturnAfter(delay)
  PROVE  /\ pc' = "idle" /\ sl' \in Scheds /\ view' \in [Names -> Children]
         /\ now' = 0 /\ expr' \in Schedules /\ toDelete' = {}
         /\ queued' \in BOOLEAN /\ timer' \in Nat
         /\ 0 \in 0..clock
<1>1. CASE ReturnError
  <2>1. queued' \in BOOLEAN /\ timer' \in Nat
    BY <1>1 DEF ReturnError, TypeOK
  <2>2. Leave
    BY <1>1 DEF ReturnError
  <2>3. 0 \in 0..clock
    BY TimeTypes DEF TypeOK
  <2> QED BY <2>1, <2>2, <2>3, LeaveTyped
<1>2. ASSUME NEW delay \in Nat, ReturnAfter(delay)
      PROVE  /\ pc' = "idle" /\ sl' \in Scheds /\ view' \in [Names -> Children]
             /\ now' = 0 /\ expr' \in Schedules /\ toDelete' = {}
             /\ queued' \in BOOLEAN /\ timer' \in Nat
             /\ 0 \in 0..clock
  <2>1. queued' \in BOOLEAN
    BY <1>2 DEF ReturnAfter, TypeOK
  <2>2. Leave
    BY <1>2 DEF ReturnAfter
  <2>3. 0 \in 0..clock
    BY TimeTypes DEF TypeOK
  <2> QED BY <1>2, <2>1, <2>2, <2>3, LeaveTyped, ReturnAfterTimer
<1> QED BY <1>1, <1>2

LEMMA ReconcileGetTyped == Typed /\ ReconcileGet => Typed'
<1> SUFFICES ASSUME Typed, ReconcileGet PROVE Typed'
  OBVIOUS
<1> USE DEF Typed
<1>1. UNCHANGED <<serverVars, clock, cacheVars>>
  BY DEF ReconcileGet
<1>2. CASE CallRejected /\ ReturnError
  <2>1. /\ faults' \in 0..MaxFaults /\ restarts' \in 0..MaxRestarts
        /\ edits' \in 0..MaxEdits
    BY <1>2, BoundsTyped DEF CallRejected
  <2> QED BY <1>1, <1>2, <2>1, ReturnTyped
       DEF TypeOK, NowIsRead, Working, serverVars, cacheVars
<1>3. CASE ReturnAfter(0) /\ UNCHANGED boundVars
  BY <1>1, <1>3, ReturnTyped DEF TypeOK, NowIsRead, Working, serverVars, cacheVars, boundVars
<1>4. CASE /\ sl' = seenSched /\ Goto("list")
           /\ UNCHANGED <<view, now, expr, toDelete, boundVars>>
  BY <1>1, <1>4 DEF TypeOK, NowIsRead, Working, Goto, serverVars, cacheVars, boundVars
<1> QED BY <1>2, <1>3, <1>4 DEF ReconcileGet

LEMMA ReconcileListTyped == Typed /\ ReconcileList => Typed'
<1> SUFFICES ASSUME Typed, ReconcileList PROVE Typed'
  OBVIOUS
<1> USE DEF Typed
<1>1. UNCHANGED <<serverVars, clock, cacheVars>>
  BY DEF ReconcileList
<1>2. CASE CallRejected /\ ReturnError
  <2>1. /\ faults' \in 0..MaxFaults /\ restarts' \in 0..MaxRestarts
        /\ edits' \in 0..MaxEdits
    BY <1>2, BoundsTyped DEF CallRejected
  <2> QED BY <1>1, <1>2, <2>1, ReturnTyped
       DEF TypeOK, NowIsRead, Working, serverVars, cacheVars
<1>3. CASE ReturnAfter(RequeueDelay) /\ UNCHANGED boundVars
  BY <1>1, <1>3, ReturnTyped, BoundsAssumption
     DEF TypeOK, NowIsRead, Working, serverVars, cacheVars, boundVars
<1>4. CASE /\ view' = seen /\ now' = clock
           /\ Goto(IF Active(seen) # {} THEN "recover"
                   ELSE IF sl.active # 0 THEN "clear" ELSE "due")
           /\ UNCHANGED <<sl, expr, toDelete, boundVars>>
  <2>1. /\ pc' \in {"recover", "clear", "due"}
        /\ UNCHANGED <<queued, timer>>
    BY <1>4 DEF Goto
  <2>2. clock \in Names /\ clock \in 0..clock
    BY TimeTypes DEF TypeOK, Names
  <2> QED BY <1>1, <1>4, <2>1, <2>2 DEF TypeOK, NowIsRead, Working, serverVars, cacheVars, boundVars
<1> QED BY <1>2, <1>3, <1>4 DEF ReconcileList

LEMMA ClearActiveTyped == Typed /\ ClearActive => Typed'
<1> SUFFICES ASSUME Typed, ClearActive PROVE Typed'
  OBVIOUS
<1> DEFINE new == [sl EXCEPT !.active = 0, !.lastCompletion = now]
<1> USE DEF Typed
<1>1. new \in Scheds
  <2>1. now \in 0..MaxTime
    BY BoundsAssumption DEF TypeOK, Times
  <2> QED BY <2>1, SchedValues DEF TypeOK
<1>2. UNCHANGED <<clock, cacheVars>> /\ now \in Names
  BY DEF ClearActive, NowIsRead, Working
<1>3. CASE /\ PatchOk(new) /\ sl' = Merged(new) /\ Goto("due")
           /\ UNCHANGED <<view, now, expr, toDelete>>
  <2> HIDE DEF new
  <2>1. pc' = "due" /\ UNCHANGED <<queued, timer>>
    BY <1>3 DEF Goto
  <2> QED BY <1>1, <1>2, <1>3, <2>1, PatchTyped DEF TypeOK, NowIsRead, cacheVars
<1>4. CASE PatchFails(new) /\ ReturnError
  <2> HIDE DEF new
  <2> QED BY <1>1, <1>2, <1>4, PatchTyped, ReturnTyped
       DEF TypeOK, NowIsRead, Working, cacheVars
<1> QED BY <1>3, <1>4 DEF ClearActive

LEMMA RecoverActiveTyped == Typed /\ RecoverActive => Typed'
<1> SUFFICES ASSUME Typed, RecoverActive PROVE Typed'
  OBVIOUS
<1> USE DEF Typed
<1>1. PICK c \in Active(view) :
        \/ PatchOk(SetActive(c, view[c].created)) /\ ReturnAfter(RequeueDelay)
        \/ PatchFails(SetActive(c, view[c].created)) /\ ReturnError
  BY DEF RecoverActive
<1>2. c \in Names /\ view[c].created \in 0..MaxTime
  BY DEF Active, TypeOK, Children
<1>3. SetActive(c, view[c].created) \in Scheds
  BY <1>2, ActiveTyped
<1>4. UNCHANGED <<clock, cacheVars>>
  BY DEF RecoverActive
<1> QED BY <1>1, <1>3, <1>4, PatchTyped, ReturnTyped, BoundsAssumption
     DEF TypeOK, NowIsRead, Working, cacheVars

LEMMA DecideToCreateTyped == Typed /\ DecideToCreate => Typed'
<1> SUFFICES ASSUME Typed, DecideToCreate PROVE Typed'
  OBVIOUS
<1> USE DEF Typed
<1>1. UNCHANGED <<serverVars, clock, cacheVars, boundVars>>
  BY DEF DecideToCreate
<1>2. CASE ReturnAfter(0)
  BY <1>1, <1>2, ReturnTyped DEF TypeOK, NowIsRead, Working, serverVars, cacheVars, boundVars
<1>3. CASE /\ expr' = sl.schedule /\ UNCHANGED <<sl, view, now>>
           /\ \/ Goto("create") /\ UNCHANGED toDelete
              \/ GotoCleanup
  <2>1. now \in Names
    BY DEF DecideToCreate, NowIsRead, Working
  <2>2. sl.schedule \in Schedules
    BY DEF TypeOK, Scheds
  <2>3. /\ pc' \in {"create", "cleanup"} /\ UNCHANGED <<queued, timer>>
        /\ toDelete' \subseteq Names
    BY <1>3, ExcessTyped DEF Goto, TypeOK
  <2> QED BY <1>1, <1>3, <2>1, <2>2, <2>3
       DEF TypeOK, NowIsRead, serverVars, cacheVars, boundVars
<1> QED BY <1>2, <1>3 DEF DecideToCreate

LEMMA DeployComplianceScanTyped == Typed /\ DeployComplianceScan => Typed'
<1> SUFFICES ASSUME Typed, DeployComplianceScan PROVE Typed'
  OBVIOUS
<1> USE DEF Typed
<1> DEFINE deployed == /\ ~Present(now)
                       /\ StoreChild(now, [phase |-> "", created |-> clock])
                       /\ lastRun' = now
           kept == UNCHANGED <<child, childEvents, lastRun>>
<1>1. now \in Names /\ now \in 0..clock
  BY DEF DeployComplianceScan, NowIsRead, Working, TypeOK
<1>2. UNCHANGED <<sched, schedEvents, clock, cacheVars>>
  BY DEF DeployComplianceScan
<1>3. deployed => /\ child' \in [Names -> Children]
                  /\ childEvents' \in Seq([name : Names, object : Children])
                  /\ lastRun' \in 0..clock
  <2>1. clock \in 0..MaxTime
    BY TimeTypes DEF TypeOK, Times
  <2>2. [phase |-> "", created |-> clock] \in Children
    BY <2>1, ChildValues
  <2> QED BY <1>1, <2>2, StoreChildTyped
<1>4. kept => /\ child' \in [Names -> Children]
              /\ childEvents' \in Seq([name : Names, object : Children])
              /\ lastRun' \in 0..clock
  BY DEF TypeOK
<1>5. CASE deployed /\ Goto("setActive") /\ UNCHANGED <<localVars, boundVars>>
  <2> HIDE DEF deployed
  <2>1. pc' = "setActive" /\ UNCHANGED <<queued, timer>>
    BY <1>5 DEF Goto
  <2> QED BY <1>1, <1>2, <1>3, <1>5, <2>1
       DEF TypeOK, NowIsRead, cacheVars, localVars, boundVars
<1>6. CASE /\ \/ kept /\ UNCHANGED boundVars
              \/ CallRejected /\ kept
              \/ CallLost /\ deployed
           /\ ReturnError
  <2> HIDE DEF deployed, kept
  <2>1. /\ faults' \in 0..MaxFaults /\ restarts' \in 0..MaxRestarts
        /\ edits' \in 0..MaxEdits
    BY <1>6, BoundsTyped DEF CallRejected, CallLost
  <2> QED BY <1>2, <1>3, <1>4, <1>6, <2>1, ReturnTyped
       DEF TypeOK, NowIsRead, Working, cacheVars
<1> QED BY <1>5, <1>6 DEF DeployComplianceScan

LEMMA SetActiveScanTyped == Typed /\ SetActiveScan => Typed'
<1> SUFFICES ASSUME Typed, SetActiveScan PROVE Typed'
  OBVIOUS
<1> DEFINE new == SetActive(now, now)
<1> USE DEF Typed
<1>1. UNCHANGED <<clock, cacheVars>> /\ now \in Names
  BY DEF SetActiveScan, NowIsRead, Working
<1>2. new \in Scheds
  BY <1>1, ActiveTyped, TimeTypes
<1>3. CASE PatchOk(new) /\ sl' = Merged(new) /\ GotoCleanup /\ UNCHANGED <<view, now, expr>>
  <2> HIDE DEF new
  <2> QED BY <1>1, <1>2, <1>3, PatchTyped, ExcessTyped DEF TypeOK, NowIsRead, cacheVars
<1>4. CASE PatchFails(new) /\ ReturnError
  <2> HIDE DEF new
  <2> QED BY <1>1, <1>2, <1>4, PatchTyped, ReturnTyped
       DEF TypeOK, NowIsRead, Working, cacheVars
<1> QED BY <1>3, <1>4 DEF SetActiveScan

LEMMA CleanupOldScanTyped == Typed /\ CleanupOldScan => Typed'
<1> SUFFICES ASSUME Typed, CleanupOldScan PROVE Typed'
  OBVIOUS
<1> USE DEF Typed
<1>1. PICK c \in toDelete :
        /\ toDelete' = toDelete \ {c}
        /\ \/ /\ StoreChild(c, NoChild)
              /\ UNCHANGED boundVars \/ CallLost
           \/ /\ CallRejected \/ UNCHANGED boundVars
              /\ UNCHANGED <<child, childEvents>>
  BY DEF CleanupOldScan
<1>2. c \in Names
  BY DEF TypeOK
<1>3. /\ child' \in [Names -> Children]
      /\ childEvents' \in Seq([name : Names, object : Children])
  BY <1>1, <1>2, StoreChildTyped, ChildValues DEF TypeOK
<1>4. /\ faults' \in 0..MaxFaults /\ restarts' \in 0..MaxRestarts
      /\ edits' \in 0..MaxEdits
  BY <1>1, BoundsTyped DEF CallRejected, CallLost
<1> QED BY <1>1, <1>3, <1>4 DEF CleanupOldScan, TypeOK, NowIsRead, cacheVars

LEMMA RequeueForNextRunTyped == Typed /\ RequeueForNextRun => Typed'
<1> SUFFICES ASSUME Typed, RequeueForNextRun PROVE Typed'
  OBVIOUS
<1> USE DEF Typed
<1>1. PICK delay \in Nat : ReturnAfter(delay)
  <2>1. PICK t \in Nat : t = IF sl.lastSchedule # 0 THEN sl.lastSchedule ELSE now
    <3>1. sl.lastSchedule \in 0..MaxTime /\ now \in 0..clock
      BY DEF TypeOK, Scheds
    <3>2. sl.lastSchedule \in Nat /\ now \in Nat
      BY <3>1, BoundsAssumption DEF TypeOK, Times
    <3> QED BY <3>2
  <2>2. PICK next \in Nat : next = NextMatch(expr, t)
    BY NextMatchValue DEF TypeOK
  <2>3. now \in Nat
    BY TimeTypes DEF TypeOK
  <2>4. (IF next > now THEN next - now ELSE 0) \in Nat
    BY <2>2, <2>3
  <2>5. ReturnAfter(IF next > now THEN next - now ELSE 0)
    BY <2>1, <2>2 DEF RequeueForNextRun
  <2> QED BY <2>4, <2>5
<1>2. UNCHANGED <<serverVars, clock, cacheVars, boundVars>>
  BY DEF RequeueForNextRun
<1> QED BY <1>1, <1>2, ReturnTyped
     DEF TypeOK, NowIsRead, Working, serverVars, cacheVars, boundVars

LEMMA NextTyped == Typed /\ [Next]_vars => Typed'
<1> SUFFICES ASSUME Typed, [Next]_vars PROVE Typed'
  OBVIOUS
<1>1. CASE UNCHANGED vars
  BY <1>1 DEF Typed, TypeOK, NowIsRead, vars, serverVars, cacheVars, localVars, boundVars
<1>2. CASE Next
  BY <1>2, EnvironmentTyped, InformerTyped, ReconcileGetTyped, ReconcileListTyped,
     ClearActiveTyped, RecoverActiveTyped, DecideToCreateTyped, DeployComplianceScanTyped,
     SetActiveScanTyped, CleanupOldScanTyped, RequeueForNextRunTyped
     DEF Next, Worker
<1> QED BY <1>1, <1>2

(***************************************************************************)
(* The variables of the scheduledcompliancescan controller keep their       *)
(* types, and the time a reconciliation works with, which names the child   *)
(* it creates, is never later than the clock.                               *)
(***************************************************************************)
THEOREM SchedTypeOK == Spec => []TypeOK
<1>1. Init => Typed
  BY InitTyped
<1>2. Typed /\ [Next]_vars => Typed'
  BY NextTyped
<1>3. Typed => TypeOK
  BY DEF Typed
<1> QED BY <1>1, <1>2, <1>3, PTL DEF Spec

-----------------------------------------------------------------------------
(***************************************************************************)
(* The informer of the parent: every write is an event on the way, and with *)
(* no event on the way the cache holds what the API server holds.           *)
(***************************************************************************)
SchedFollows ==
  /\ schedEvents = << >> => seenSched = sched
  /\ schedEvents # << >> => schedEvents[Len(schedEvents)] = sched

\* Three actions of the worker patch the status.
LEMMA PatchSteps ==
  ASSUME Typed, ClearActive \/ RecoverActive \/ SetActiveScan
  PROVE  \E new \in Scheds : PatchOk(new) \/ PatchFails(new)
<1>1. CASE ClearActive
  <2>1. now \in 0..MaxTime
    BY <1>1, BoundsAssumption DEF ClearActive, Typed, NowIsRead, Working, Names, Times
  <2>2. [sl EXCEPT !.active = 0, !.lastCompletion = now] \in Scheds
    BY <2>1, SchedValues DEF Typed, TypeOK
  <2> QED BY <1>1, <2>2 DEF ClearActive
<1>2. CASE RecoverActive
  <2>1. PICK c \in Active(view) : \/ PatchOk(SetActive(c, view[c].created))
                                  \/ PatchFails(SetActive(c, view[c].created))
    BY <1>2 DEF RecoverActive
  <2>2. SetActive(c, view[c].created) \in Scheds
    BY <2>1, ActiveTyped DEF Typed, TypeOK, Active, Children
  <2> QED BY <2>1, <2>2
<1>3. CASE SetActiveScan
  <2>1. SetActive(now, now) \in Scheds
    BY <1>3, ActiveTyped, TimeTypes DEF SetActiveScan, Typed, NowIsRead, Working
  <2> QED BY <1>3, <2>1 DEF SetActiveScan
<1> QED BY <1>1, <1>2, <1>3

\* What a step does with the parent and its informer.
LEMMA SchedSteps ==
  ASSUME Typed, [Next]_vars
  PROVE  \/ UNCHANGED <<sched, schedEvents, seenSched>>
         \/ UNCHANGED seenSched /\ \E o \in Scheds : StoreSched(o)
         \/ DeliverSched
         \/ Restart
<1> DEFINE Goal == \/ UNCHANGED <<sched, schedEvents, seenSched>>
                   \/ UNCHANGED seenSched /\ \E o \in Scheds : StoreSched(o)
                   \/ DeliverSched
                   \/ Restart
<1>1. CASE UNCHANGED vars
  BY <1>1 DEF vars, serverVars, cacheVars
<1>2. ASSUME NEW x \in Schedules, EditSchedule(x) PROVE Goal
  BY <1>2, SchedValues DEF EditSchedule, cacheVars, Typed, TypeOK
<1>3. CASE DeleteSched
  BY <1>3, SchedValues DEF DeleteSched, cacheVars, Typed, TypeOK
<1>4. CASE \/ \E c \in Names : ScanAdvances(c) \/ ChildVanishes(c)
           \/ Tick \/ DeliverChild \/ TimerFires \/ Dequeue
  BY <1>4 DEF ScanAdvances, ChildVanishes, Tick, DeliverChild, TimerFires, Dequeue,
              serverVars, cacheVars
<1>5. CASE \/ ReconcileGet \/ ReconcileList \/ DecideToCreate \/ DeployComplianceScan
           \/ CleanupOldScan \/ RequeueForNextRun
  BY <1>5 DEF ReconcileGet, ReconcileList, DecideToCreate, DeployComplianceScan,
              CleanupOldScan, RequeueForNextRun, serverVars, cacheVars
<1>6. ASSUME NEW new \in Scheds, PatchOk(new) \/ PatchFails(new), UNCHANGED cacheVars
      PROVE  Goal
  <2>1. Merged(new) \in Scheds
    BY <1>6, PatchTyped DEF Typed
  <2> QED BY <1>6, <2>1 DEF PatchOk, PatchFails, cacheVars
<1>7. CASE ClearActive \/ RecoverActive \/ SetActiveScan
  <2>1. UNCHANGED cacheVars
    BY <1>7 DEF ClearActive, RecoverActive, SetActiveScan
  <2> QED BY <1>6, <1>7, <2>1, PatchSteps
<1> QED BY <1>1, <1>2, <1>3, <1>4, <1>5, <1>7 DEF Next, Informers, Worker

LEMMA SchedFollowsKept ==
  ASSUME Typed, SchedFollows, [Next]_vars
  PROVE  SchedFollows'
<1>1. CASE UNCHANGED <<sched, schedEvents, seenSched>>
  BY <1>1 DEF SchedFollows
<1>2. ASSUME NEW o \in Scheds, StoreSched(o)
      PROVE  SchedFollows'
  BY <1>2, StoreSchedTyped DEF Typed, SchedFollows
<1>3. CASE DeliverSched
  <2>1. PICK q \in Seq(Scheds) : q = schedEvents
    BY DEF Typed, TypeOK
  <2>2. /\ q # << >> /\ seenSched' = Head(q) /\ schedEvents' = Tail(q)
        /\ sched' = sched /\ q[Len(q)] = sched
    BY <1>3, <2>1 DEF DeliverSched, SchedFollows
  <2>3. /\ Tail(q) = << >> => Head(q) = q[Len(q)]
        /\ Tail(q) # << >> => Tail(q)[Len(Tail(q))] = q[Len(q)]
    BY <2>2, HeadAndTail
  <2> QED BY <2>2, <2>3 DEF SchedFollows
<1>4. CASE Restart
  BY <1>4 DEF Restart, SchedFollows
<1> QED BY <1>1, <1>2, <1>3, <1>4, SchedSteps

-----------------------------------------------------------------------------
(***************************************************************************)
(* Something reconciles the parent again. The three parts below strengthen  *)
(* AlwaysArmed: a reconciliation works with the schedule of the parent      *)
(* unless the key is going to be queued anyway, and it ends with a requeue  *)
(* that has a delay.                                                        *)
(***************************************************************************)
Waiting == queued \/ schedEvents # << >>

ScheduleIsRead ==
  pc \in Working /\ sched.exists => Waiting \/ sl.schedule = sched.schedule

NextIsLater ==
  pc = "cleanup" =>
    \/ Waiting
    \/ NextMatch(expr, IF sl.lastSchedule # 0 THEN sl.lastSchedule ELSE now) > now

Armed == Typed /\ SchedFollows /\ ScheduleIsRead /\ NextIsLater /\ AlwaysArmed

LEMMA SchedChangeWaits ==
  ASSUME Typed, [Next]_vars, ~Waiting', ~Restart
  PROVE  UNCHANGED <<sched, schedEvents, seenSched>>
<1>1. ASSUME NEW o \in Scheds, StoreSched(o) PROVE FALSE
  BY <1>1, StoreSchedTyped DEF Typed, Waiting
<1>2. ~DeliverSched
  BY DEF DeliverSched, Waiting
<1> QED BY <1>1, <1>2, SchedSteps

\* What the other processes do with the worker and its queue.
LEMMA OtherSteps ==
  ASSUME [Next]_vars, ~Worker, ~Restart, ~Dequeue
  PROVE  /\ UNCHANGED <<pc, localVars>>
         /\ queued' = queued \/ queued' = TRUE
         /\ timer' = timer \/ queued' = TRUE
<1>1. CASE UNCHANGED vars
  BY <1>1 DEF vars
<1>2. CASE \/ \E x \in Schedules : EditSchedule(x)
           \/ DeleteSched
           \/ \E c \in Names : ScanAdvances(c) \/ ChildVanishes(c)
           \/ Tick
  BY <1>2 DEF EditSchedule, DeleteSched, ScanAdvances, ChildVanishes, Tick
<1>3. CASE DeliverSched \/ DeliverChild \/ TimerFires
  BY <1>3 DEF DeliverSched, DeliverChild, TimerFires
<1> QED BY <1>1, <1>2, <1>3 DEF Next, Informers

\* A patch of the worker is an event that queues the key again.
LEMMA PatchWaits ==
  ASSUME Typed, NEW new \in Scheds, PatchOk(new)
  PROVE  Waiting'
<1>1. Merged(new) \in Scheds
  BY PatchTyped DEF Typed
<1> QED BY <1>1, StoreSchedTyped DEF Typed, PatchOk, Waiting

LEMMA ErrorArms == ReturnError => pc' = "idle" /\ Waiting' /\ AlwaysArmed'
BY DEF ReturnError, Leave, Waiting, AlwaysArmed

LEMMA DelayArms ==
  ASSUME Typed, NEW delay \in Nat, delay # 0, ReturnAfter(delay)
  PROVE  pc' = "idle" /\ AlwaysArmed'
BY ReturnAfterTimer DEF Typed, ReturnAfter, Leave, AlwaysArmed

LEMMA ArmedKeptByOthers ==
  ASSUME Armed, [Next]_vars, ~Worker
  PROVE  ScheduleIsRead' /\ NextIsLater' /\ AlwaysArmed'
<1>1. CASE Restart
  BY <1>1 DEF Restart, Leave, ScheduleIsRead, NextIsLater, AlwaysArmed, Working
<1>2. CASE Dequeue
  BY <1>2 DEF Dequeue, ScheduleIsRead, NextIsLater, AlwaysArmed, Working
<1>3. CASE ~Restart /\ ~Dequeue
  <2>1. CASE Waiting'
    BY <2>1 DEF ScheduleIsRead, NextIsLater, AlwaysArmed, Waiting
  <2>2. CASE ~Waiting'
    <3>1. UNCHANGED <<sched, schedEvents, pc, localVars>> /\ ~queued'
      BY <1>3, <2>2, SchedChangeWaits, OtherSteps DEF Armed, Waiting
    <3>2. ~queued /\ timer' = timer /\ ~Waiting
      BY <1>3, <2>2, <3>1, OtherSteps DEF Armed, Typed, TypeOK, Waiting
    <3> QED BY <3>1, <3>2 DEF Armed, ScheduleIsRead, NextIsLater, AlwaysArmed, Waiting,
                              localVars
  <2> QED BY <2>1, <2>2
<1> QED BY <1>1, <1>2, <1>3

LEMMA ArmedKeptByWorker ==
  ASSUME Armed, Worker
  PROVE  ScheduleIsRead' /\ NextIsLater' /\ AlwaysArmed'
<1> DEFINE Goal == ScheduleIsRead' /\ NextIsLater' /\ AlwaysArmed'
<1> USE DEF Armed
<1>1. ReturnError => Goal
  BY ErrorArms DEF ScheduleIsRead, NextIsLater, Working
<1>2. ASSUME NEW delay \in Nat, delay # 0, ReturnAfter(delay) PROVE Goal
  BY <1>2, DelayArms DEF ScheduleIsRead, NextIsLater, Working
<1>3. pc' # "idle" /\ Waiting' => Goal
  BY DEF ScheduleIsRead, NextIsLater, AlwaysArmed
<1>4. CASE ReconcileGet
  <2>1. UNCHANGED <<sched, schedEvents>>
    BY <1>4 DEF ReconcileGet, serverVars
  <2>2. CASE ~seenSched.exists /\ ReturnAfter(0)
    <3>1. sched.exists => schedEvents # << >>
      BY <2>2 DEF SchedFollows
    <3>2. pc' = "idle"
      BY <2>2 DEF ReturnAfter, Leave
    <3> QED BY <2>1, <3>1, <3>2 DEF AlwaysArmed, ScheduleIsRead, NextIsLater, Working
  <2>3. CASE sl' = seenSched /\ Goto("list")
    BY <2>1, <2>3 DEF SchedFollows, Goto, Waiting, AlwaysArmed, ScheduleIsRead, NextIsLater
  <2> QED BY <1>1, <1>4, <2>2, <2>3 DEF ReconcileGet
<1>5. CASE ReconcileList
  <2>1. CASE /\ UNCHANGED <<sl, expr, toDelete>>
             /\ Goto(IF Active(seen) # {} THEN "recover"
                     ELSE IF sl.active # 0 THEN "clear" ELSE "due")
    BY <1>5, <2>1 DEF ReconcileList, Goto, serverVars, Waiting, AlwaysArmed,
                      ScheduleIsRead, NextIsLater, Working
  <2>2. RequeueDelay \in Nat /\ RequeueDelay # 0
    BY BoundsAssumption
  <2> QED BY <1>1, <1>2, <1>5, <2>1, <2>2 DEF ReconcileList
<1>6. CASE ClearActive
  <2>1. now \in 0..MaxTime
    BY <1>6, BoundsAssumption DEF ClearActive, Typed, NowIsRead, Working, Names, Times
  <2>2. [sl EXCEPT !.active = 0, !.lastCompletion = now] \in Scheds
    BY <2>1, SchedValues DEF Typed, TypeOK
  <2> QED BY <1>1, <1>3, <1>6, <2>2, PatchWaits DEF ClearActive, Goto
<1>7. CASE RecoverActive
  <2>1. RequeueDelay \in Nat /\ RequeueDelay # 0
    BY BoundsAssumption
  <2> QED BY <1>1, <1>2, <1>7, <2>1 DEF RecoverActive
<1>8. CASE DecideToCreate
  <2>1. UNCHANGED <<sched, schedEvents>> /\ pc \in Working
    BY <1>8 DEF DecideToCreate, serverVars, Working
  <2>2. CASE sl.schedule \in Unparsable /\ ReturnAfter(0)
    <3>1. pc' = "idle" /\ UNCHANGED queued
      BY <2>2 DEF ReturnAfter, Leave
    <3> QED BY <2>1, <2>2, <3>1 DEF AlwaysArmed, ScheduleIsRead, NextIsLater, Working, Waiting
  <2>3. CASE Goto("create") /\ UNCHANGED sl
    BY <2>1, <2>3 DEF Goto, AlwaysArmed, ScheduleIsRead, NextIsLater, Waiting
  <2>4. CASE /\ ~ShouldCreate(sl.schedule, sl.lastSchedule, now)
             /\ GotoCleanup /\ expr' = sl.schedule /\ UNCHANGED <<sl, view, now>>
    <3>1. pc' = "cleanup" /\ UNCHANGED queued
      BY <2>4 DEF GotoCleanup, Goto
    <3>2. /\ sl.schedule \in Schedules /\ sl.lastSchedule \in Nat /\ now \in Nat
      BY BoundsAssumption DEF Typed, TypeOK, Scheds, Times
    <3>3. NextMatch(sl.schedule, sl.lastSchedule) \in Nat
      BY <3>2, NextMatchValue
    <3>4. sl.lastSchedule # 0 /\ NextMatch(sl.schedule, sl.lastSchedule) > now
      BY <2>4, <3>2, <3>3 DEF ShouldCreate
    <3>5. NextIsLater'
      <4>1. sl'.lastSchedule # 0 /\ NextMatch(expr', sl'.lastSchedule) > now'
        BY <2>4, <3>4
      <4> QED BY <4>1 DEF NextIsLater
    <3> QED BY <2>1, <2>4, <3>1, <3>5 DEF AlwaysArmed, ScheduleIsRead, Waiting
  <2> QED BY <1>8, <2>2, <2>3, <2>4 DEF DecideToCreate
<1>9. CASE DeployComplianceScan
  <2>1. UNCHANGED <<sched, schedEvents>> /\ pc \in Working
    BY <1>9 DEF DeployComplianceScan, Working
  <2>2. CASE Goto("setActive") /\ UNCHANGED localVars
    BY <2>1, <2>2 DEF Goto, localVars, AlwaysArmed, ScheduleIsRead, NextIsLater, Waiting
  <2> QED BY <1>1, <1>9, <2>2 DEF DeployComplianceScan
<1>10. CASE SetActiveScan
  <2>1. SetActive(now, now) \in Scheds
    BY <1>10, ActiveTyped, TimeTypes DEF SetActiveScan, Typed, NowIsRead, Working
  <2> QED BY <1>1, <1>3, <1>10, <2>1, PatchWaits DEF SetActiveScan, GotoCleanup, Goto
<1>11. CASE CleanupOldScan
  <2>1. UNCHANGED <<sched, schedEvents, queued, timer, pc, sl, now, expr>>
    BY <1>11 DEF CleanupOldScan
  <2> QED BY <2>1 DEF AlwaysArmed, ScheduleIsRead, NextIsLater, Waiting
<1>12. CASE RequeueForNextRun
  <2>1. PICK t \in Nat : t = IF sl.lastSchedule # 0 THEN sl.lastSchedule ELSE now
    <3>1. sl.lastSchedule \in 0..MaxTime /\ now \in 0..clock
      BY DEF Typed, TypeOK, Scheds
    <3>2. sl.lastSchedule \in Nat /\ now \in Nat
      BY <3>1, BoundsAssumption DEF Typed, TypeOK, Times
    <3> QED BY <3>2
  <2>2. PICK next \in Nat : next = NextMatch(expr, t)
    BY NextMatchValue DEF Typed, TypeOK
  <2>3. ReturnAfter(IF next > now THEN next - now ELSE 0) /\ UNCHANGED <<sched, schedEvents>>
    BY <1>12, <2>1, <2>2 DEF RequeueForNextRun, serverVars
  <2>4. now \in Nat
    BY BoundsAssumption DEF Typed, TypeOK, Times
  <2>5. CASE next > now
    <3>1. next - now \in Nat /\ next - now # 0 /\ ReturnAfter(next - now)
      BY <2>3, <2>4, <2>5
    <3> QED BY <1>2, <3>1
  <2>6. CASE ~(next > now)
    <3>1. Waiting
      BY <1>12, <2>1, <2>2, <2>6 DEF RequeueForNextRun, NextIsLater
    <3>2. Waiting' /\ pc' = "idle"
      BY <2>3, <3>1 DEF Waiting, ReturnAfter, Leave
    <3> QED BY <3>2 DEF AlwaysArmed, ScheduleIsRead, NextIsLater, Waiting
  <2> QED BY <2>5, <2>6
<1> QED BY <1>4, <1>5, <1>6, <1>7, <1>8, <1>9, <1>10, <1>11, <1>12 DEF Worker

LEMMA InitArmed == Init => Armed
<1> SUFFICES ASSUME Init PROVE Armed
  OBVIOUS
<1>1. schedEvents # << >> /\ schedEvents[Len(schedEvents)] = sched
  BY DEF Init
<1> QED BY <1>1, InitTyped
     DEF Init, Armed, SchedFollows, ScheduleIsRead, NextIsLater, AlwaysArmed, Working

(***************************************************************************)
(* Whatever calls fail, however far the caches lag and wherever the process *)
(* restarts, a parent with a valid cron expression is never left without a  *)
(* queued key, a timer or an event of its own: no run is forgotten because  *)
(* nobody reconciles (the results Reconcile returns, For in                 *)
(* SetupWithManager).                                                       *)
(***************************************************************************)
THEOREM AlwaysArmedHolds == Spec => []AlwaysArmed
<1>1. Init => Armed
  BY InitArmed
<1>2. Armed /\ [Next]_vars => Armed'
  <2> SUFFICES ASSUME Armed, [Next]_vars PROVE Armed'
    OBVIOUS
  <2>1. Typed' /\ SchedFollows'
    BY NextTyped, SchedFollowsKept DEF Armed
  <2>2. ScheduleIsRead' /\ NextIsLater' /\ AlwaysArmed'
    BY ArmedKeptByOthers, ArmedKeptByWorker
  <2> QED BY <2>1, <2>2 DEF Armed
<1>3. Armed => AlwaysArmed
  BY DEF Armed
<1> QED BY <1>1, <1>2, <1>3, PTL DEF Spec

-----------------------------------------------------------------------------
(***************************************************************************)
(* The informer of the children: the cache differs from the API server only *)
(* in children with an event on the way, and the last event on the way for  *)
(* a child holds what the API server holds.                                 *)
(***************************************************************************)
LastFor(i) == \A j \in 1..Len(childEvents) :
                j > i => childEvents[j].name # childEvents[i].name

ChildrenFollow ==
  /\ \A c \in Names :
       (\A i \in 1..Len(childEvents) : childEvents[i].name # c) => seen[c] = child[c]
  /\ \A i \in 1..Len(childEvents) :
       LastFor(i) => childEvents[i].object = child[childEvents[i].name]

\* What a step does with the children and their informer.
LEMMA ChildSteps ==
  ASSUME Typed, [Next]_vars
  PROVE  \/ UNCHANGED <<child, childEvents, seen>>
         \/ UNCHANGED seen /\ \E c \in Names, o \in Children : StoreChild(c, o)
         \/ DeliverChild
         \/ Restart
<1> DEFINE Goal == \/ UNCHANGED <<child, childEvents, seen>>
                   \/ UNCHANGED seen /\ \E c \in Names, o \in Children : StoreChild(c, o)
                   \/ DeliverChild
                   \/ Restart
<1>1. CASE UNCHANGED vars
  BY <1>1 DEF vars, serverVars, cacheVars
<1>2. CASE \/ \E x \in Schedules : EditSchedule(x)
           \/ DeleteSched \/ Tick \/ DeliverSched \/ TimerFires \/ Dequeue
  BY <1>2 DEF EditSchedule, DeleteSched, Tick, DeliverSched, TimerFires, Dequeue,
              serverVars, cacheVars
<1>3. ASSUME NEW c \in Names, ScanAdvances(c) PROVE Goal
  <2>1. PICK to \in ScanPhases : StoreChild(c, [child[c] EXCEPT !.phase = to])
    BY <1>3 DEF ScanAdvances
  <2>2. [child[c] EXCEPT !.phase = to] \in Children
    BY ChildValues DEF Typed, TypeOK
  <2> QED BY <1>3, <2>1, <2>2 DEF ScanAdvances, cacheVars
<1>4. ASSUME NEW c \in Names, ChildVanishes(c) PROVE Goal
  BY <1>4, ChildValues DEF ChildVanishes, cacheVars
<1>5. CASE \/ ReconcileGet \/ ReconcileList \/ DecideToCreate \/ RequeueForNextRun
  BY <1>5 DEF ReconcileGet, ReconcileList, DecideToCreate, RequeueForNextRun,
              serverVars, cacheVars
<1>6. CASE ClearActive \/ RecoverActive \/ SetActiveScan
  BY <1>6 DEF ClearActive, RecoverActive, SetActiveScan, PatchOk, PatchFails, cacheVars
<1>7. CASE DeployComplianceScan
  <2>1. now \in Names
    BY <1>7 DEF DeployComplianceScan, Typed, NowIsRead, Working
  <2>2. clock \in 0..MaxTime
    BY BoundsAssumption DEF Typed, TypeOK, Times
  <2>3. [phase |-> "", created |-> clock] \in Children
    BY <2>2, ChildValues
  <2>4. \/ StoreChild(now, [phase |-> "", created |-> clock])
        \/ UNCHANGED <<child, childEvents>>
    BY <1>7 DEF DeployComplianceScan
  <2> QED BY <1>7, <2>1, <2>3, <2>4 DEF DeployComplianceScan, cacheVars
<1>8. CASE CleanupOldScan
  <2>1. PICK c \in toDelete : \/ StoreChild(c, NoChild)
                              \/ UNCHANGED <<child, childEvents>>
    BY <1>8 DEF CleanupOldScan
  <2>2. c \in Names /\ NoChild \in Children
    BY ChildValues DEF Typed, TypeOK
  <2> QED BY <1>8, <2>1, <2>2 DEF CleanupOldScan, cacheVars
<1> QED BY <1>1, <1>2, <1>3, <1>4, <1>5, <1>6, <1>7, <1>8 DEF Next, Informers, Worker

LEMMA StoreChildFollows ==
  ASSUME Typed, ChildrenFollow, UNCHANGED seen,
         NEW c \in Names, NEW o \in Children, StoreChild(c, o)
  PROVE  ChildrenFollow'
<1> DEFINE Event == [name : Names, object : Children]
<1>1. PICK q \in Seq(Event) : q = childEvents
  BY DEF Typed, TypeOK
<1>2. PICK e \in Event : e = [name |-> c, object |-> o]
  OBVIOUS
<1>3. e.name = c /\ e.object = o
  BY <1>2
<1>4. PICK r \in Seq(Event) : r = Append(q, e)
  <2> HIDE DEF Event
  <2> QED BY AppendValue
<1>5. /\ Len(r) = Len(q) + 1 /\ r[Len(q) + 1] = e
      /\ \A i \in 1..Len(q) : r[i] = q[i]
      /\ Len(q) \in Nat
  <2> HIDE DEF Event
  <2> QED BY <1>4, AppendValue
<1>6. childEvents' = r /\ seen' = seen
  BY <1>1, <1>2, <1>4 DEF StoreChild
<1>7. child'[c] = o /\ \A d \in Names : d # c => child'[d] = child[d]
  BY StoreChildTyped DEF Typed
<1>8. /\ \A d \in Names : (\A i \in 1..Len(q) : q[i].name # d) => seen[d] = child[d]
      /\ \A i \in 1..Len(q) :
           (\A j \in 1..Len(q) : j > i => q[j].name # q[i].name)
             => q[i].object = child[q[i].name]
  BY <1>1 DEF ChildrenFollow, LastFor
<1>9. ASSUME NEW d \in Names, \A i \in 1..Len(r) : r[i].name # d
      PROVE  seen'[d] = child'[d]
  <2>1. Len(q) + 1 \in 1..Len(r) /\ \A i \in 1..Len(q) : i \in 1..Len(r)
    BY <1>5
  <2>2. d # c
    BY <1>3, <1>5, <1>9, <2>1
  <2>3. \A i \in 1..Len(q) : q[i].name # d
    BY <1>5, <1>9, <2>1
  <2> QED BY <1>6, <1>7, <1>8, <2>2, <2>3
<1>10. ASSUME NEW i \in 1..Len(r), \A j \in 1..Len(r) : j > i => r[j].name # r[i].name
       PROVE  r[i].object = child'[r[i].name]
  <2>1. CASE i = Len(q) + 1
    BY <1>3, <1>5, <1>7, <2>1
  <2>2. CASE i # Len(q) + 1
    <3>1. i \in 1..Len(q) /\ Len(q) + 1 \in 1..Len(r) /\ Len(q) + 1 > i
      BY <1>5, <2>2
    <3>2. r[i] = q[i] /\ q[i].name # c /\ q[i].name \in Names
      <4>1. r[i] = q[i] /\ q[i] \in Event
        <5> HIDE DEF Event
        <5> QED BY <1>5, <3>1
      <4>2. r[Len(q) + 1].name # r[i].name
        BY <1>10, <3>1
      <4> QED BY <1>3, <1>5, <4>1, <4>2
    <3>3. \A j \in 1..Len(q) : j > i => q[j].name # q[i].name
      <4>1. \A j \in 1..Len(q) : j \in 1..Len(r) /\ r[j] = q[j]
        BY <1>5
      <4> QED BY <1>10, <3>2, <4>1
    <3> QED BY <1>7, <1>8, <3>1, <3>2, <3>3
  <2> QED BY <2>1, <2>2
<1> QED BY <1>6, <1>9, <1>10 DEF ChildrenFollow, LastFor

LEMMA DeliverChildFollows ==
  ASSUME Typed, ChildrenFollow, DeliverChild
  PROVE  ChildrenFollow'
<1> DEFINE Event == [name : Names, object : Children]
<1>1. PICK q \in Seq(Event) : q = childEvents
  BY DEF Typed, TypeOK
<1>2. PICK r \in Seq(Event) : r = Tail(q)
  BY <1>1, HeadAndTail DEF DeliverChild
<1>3. /\ q # << >> /\ Head(q) = q[1] /\ Len(r) = Len(q) - 1 /\ Len(q) \in Nat \ {0}
      /\ \A i \in 1..Len(r) : r[i] = q[i + 1]
  BY <1>1, <1>2, HeadAndTail DEF DeliverChild
<1>4. PICK e \in Event : e = q[1]
  <2>1. Head(q) \in Event
    BY <1>3, HeadAndTail
  <2> QED BY <1>3, <2>1
<1>5. /\ childEvents' = r /\ child' = child
      /\ seen' = [seen EXCEPT ![e.name] = e.object]
  BY <1>1, <1>2, <1>3, <1>4 DEF DeliverChild
<1>6. seen \in [Names -> Children]
  BY DEF Typed, TypeOK
<1>7. /\ \A d \in Names : (\A i \in 1..Len(q) : q[i].name # d) => seen[d] = child[d]
      /\ \A i \in 1..Len(q) :
           (\A j \in 1..Len(q) : j > i => q[j].name # q[i].name)
             => q[i].object = child[q[i].name]
  BY <1>1 DEF ChildrenFollow, LastFor
<1>8. \A j \in 1..Len(q) : j > 1 => j - 1 \in 1..Len(r) /\ r[j - 1] = q[j]
  BY <1>3
<1>9. ASSUME NEW d \in Names, \A i \in 1..Len(r) : r[i].name # d
      PROVE  seen'[d] = child'[d]
  <2>1. \A j \in 1..Len(q) : j > 1 => q[j].name # d
    BY <1>8, <1>9
  <2>2. CASE e.name = d
    <3>1. 1 \in 1..Len(q)
      BY <1>3
    <3>2. q[1].object = child[d]
      BY <1>4, <1>7, <2>1, <2>2, <3>1
    <3> QED BY <1>4, <1>5, <1>6, <2>2, <3>2
  <2>3. CASE e.name # d
    <3>1. \A j \in 1..Len(q) : q[j].name # d
      <4>1. \A j \in 1..Len(q) : j = 1 \/ j > 1
        BY <1>3
      <4> QED BY <1>4, <2>1, <2>3, <4>1
    <3> QED BY <1>5, <1>6, <1>7, <2>3, <3>1
  <2> QED BY <2>2, <2>3
<1>10. ASSUME NEW i \in 1..Len(r), \A j \in 1..Len(r) : j > i => r[j].name # r[i].name
       PROVE  r[i].object = child'[r[i].name]
  <2>1. i + 1 \in 1..Len(q) /\ r[i] = q[i + 1]
    BY <1>3
  <2>2. \A j \in 1..Len(q) : j > i + 1 => q[j].name # q[i + 1].name
    <3>1. \A j \in 1..Len(q) : j > i + 1 => j > 1 /\ j - 1 > i
      BY <1>3
    <3> QED BY <1>8, <1>10, <2>1, <3>1
  <2> QED BY <1>5, <1>7, <2>1, <2>2
<1> QED BY <1>5, <1>9, <1>10 DEF ChildrenFollow, LastFor

LEMMA ChildrenFollowKept ==
  ASSUME Typed, ChildrenFollow, [Next]_vars
  PROVE  ChildrenFollow'
<1>1. CASE UNCHANGED <<child, childEvents, seen>>
  BY <1>1 DEF ChildrenFollow, LastFor
<1>2. CASE Restart
  <2>1. seen' = child' /\ childEvents' = << >>
    BY <1>2 DEF Restart
  <2>2. \A i \in 1..Len(childEvents') : FALSE
    BY <2>1
  <2> QED BY <2>1, <2>2 DEF ChildrenFollow
<1> QED BY <1>1, <1>2, ChildSteps, StoreChildFollows, DeliverChildFollows

\* A reconciliation reads its caches only when no event is on the way to them.
FreshReads == MaxLag = 0

LEMMA FreshCaches ==
  ASSUME FreshReads, Typed, ChildrenFollow, SchedFollows
  PROVE  /\ ReconcileGet => seenSched = sched
         /\ ReconcileList => \A c \in Names : seen[c] = child[c]
<1>1. Len(schedEvents) \in Nat /\ Len(childEvents) \in Nat
  BY DEF Typed, TypeOK
<1>2. ASSUME ReconcileGet PROVE seenSched = sched
  <2>1. Len(schedEvents) = 0
    BY <1>1, <1>2 DEF ReconcileGet, FreshReads
  <2>2. schedEvents = << >>
    BY <2>1 DEF Typed, TypeOK
  <2> QED BY <2>2 DEF SchedFollows
<1>3. ASSUME ReconcileList PROVE \A c \in Names : seen[c] = child[c]
  <2>1. Len(childEvents) = 0
    BY <1>1, <1>3 DEF ReconcileList, FreshReads
  <2>2. \A i \in 1..Len(childEvents) : FALSE
    BY <2>1
  <2> QED BY <2>2 DEF ChildrenFollow
<1> QED BY <1>2, <1>3

-----------------------------------------------------------------------------
(***************************************************************************)
(* One active child: from the list that shows none to the creation there is *)
(* none, since only this worker creates children.                           *)
(***************************************************************************)
NoneActive == pc \in {"clear", "due", "create"} => Active(child) = {}

OneActive == \A c, d \in Active(child) : c = d

Alone == Typed /\ SchedFollows /\ ChildrenFollow /\ NoneActive /\ OneActive

LEMMA InactiveStays ==
  ASSUME Typed, NEW c \in Names, NEW o \in Children, StoreChild(c, o),
         IsActive(o) => IsActive(child[c])
  PROVE  Active(child)' \subseteq Active(child)
<1>1. /\ child'[c] = o
      /\ \A d \in Names : d # c => child'[d] = child[d]
  BY StoreChildTyped DEF Typed
<1> QED BY <1>1 DEF Active, IsActive

\* Only the creation by the worker adds an active child.
LEMMA ActiveSteps ==
  ASSUME Typed, [Next]_vars
  PROVE  \/ Active(child)' \subseteq Active(child)
         \/ /\ pc = "create" /\ pc' \in {"setActive", "idle"}
            /\ Active(child)' \subseteq Active(child) \cup {now}
<1> DEFINE Goal == Active(child)' \subseteq Active(child)
<1>1. child' = child => Goal
  BY DEF Active, IsActive
<1>2. CASE UNCHANGED vars
  BY <1>1, <1>2 DEF vars, serverVars
<1>3. CASE \/ \E x \in Schedules : EditSchedule(x)
           \/ DeleteSched \/ Tick \/ Informers \/ TimerFires \/ Dequeue \/ Restart
  BY <1>1, <1>3 DEF EditSchedule, DeleteSched, Tick, Informers, DeliverSched, DeliverChild,
                    TimerFires, Dequeue, Restart, serverVars
<1>4. ASSUME NEW c \in Names, ScanAdvances(c) PROVE Goal
  <2>1. PICK to \in ScanPhases : /\ <<child[c].phase, to>> \in Lifecycle!Moves
                                 /\ StoreChild(c, [child[c] EXCEPT !.phase = to])
    BY <1>4 DEF ScanAdvances
  <2>2. [child[c] EXCEPT !.phase = to] \in Children
    BY ChildValues DEF Typed, TypeOK
  <2>3. IsActive(child[c])
    BY <2>1 DEF Lifecycle!Moves, IsActive
  <2> QED BY <2>1, <2>2, <2>3, InactiveStays
<1>5. ~IsActive(NoChild) /\ NoChild \in Children
  BY ChildValues DEF IsActive, NoChild
<1>6. ASSUME NEW c \in Names, ChildVanishes(c) PROVE Goal
  BY <1>5, <1>6, InactiveStays DEF ChildVanishes
<1>7. CASE \/ ReconcileGet \/ ReconcileList \/ ClearActive \/ RecoverActive
           \/ DecideToCreate \/ SetActiveScan \/ RequeueForNextRun
  BY <1>1, <1>7 DEF ReconcileGet, ReconcileList, ClearActive, RecoverActive, DecideToCreate,
                    SetActiveScan, RequeueForNextRun, PatchOk, PatchFails, serverVars
<1>8. CASE CleanupOldScan
  <2>1. PICK c \in toDelete : \/ StoreChild(c, NoChild)
                              \/ UNCHANGED <<child, childEvents>>
    BY <1>8 DEF CleanupOldScan
  <2>2. c \in Names
    BY DEF Typed, TypeOK
  <2> QED BY <1>1, <1>5, <2>1, <2>2, InactiveStays
<1>9. CASE DeployComplianceScan
  <2>1. pc = "create" /\ pc' \in {"setActive", "idle"}
    BY <1>9 DEF DeployComplianceScan, Goto, ReturnError, Leave
  <2>2. now \in Names
    BY <2>1 DEF Typed, NowIsRead, Working
  <2>3. \/ StoreChild(now, [phase |-> "", created |-> clock])
        \/ child' = child
    BY <1>9 DEF DeployComplianceScan
  <2>4. clock \in 0..MaxTime
    BY BoundsAssumption DEF Typed, TypeOK, Times
  <2>5. [phase |-> "", created |-> clock] \in Children
    BY <2>4, ChildValues
  <2>6. \A d \in Names \ {now} : child'[d] = child[d]
    BY <2>2, <2>3, <2>5, StoreChildTyped DEF Typed
  <2>7. Active(child)' \subseteq Active(child) \cup {now}
    BY <2>6 DEF Active, IsActive
  <2> QED BY <2>1, <2>7
<1> QED BY <1>2, <1>3, <1>4, <1>6, <1>7, <1>8, <1>9 DEF Next, Worker

\* The way to the creation passes through a list without active children.
LEMMA NoneActiveSteps ==
  ASSUME [Next]_vars, pc' \in {"clear", "due", "create"}
  PROVE  \/ pc \in {"clear", "due", "create"}
         \/ ReconcileList /\ Active(seen) = {}
<1>1. CASE ~Worker /\ ~Restart /\ ~Dequeue
  BY <1>1, OtherSteps
<1>2. CASE Restart \/ Dequeue
  BY <1>2 DEF Restart, Leave, Dequeue
<1>3. CASE Worker
  <2>1. CASE ReconcileList
    BY <2>1 DEF ReconcileList, Goto, ReturnError, ReturnAfter, Leave
  <2>2. CASE ReconcileGet \/ RecoverActive \/ RequeueForNextRun
    BY <2>2 DEF ReconcileGet, RecoverActive, RequeueForNextRun,
                Goto, ReturnError, ReturnAfter, Leave
  <2>3. CASE SetActiveScan \/ CleanupOldScan
    BY <2>3 DEF SetActiveScan, CleanupOldScan, GotoCleanup, Goto, ReturnError, Leave
  <2>4. CASE ClearActive \/ DecideToCreate \/ DeployComplianceScan
    BY <2>4 DEF ClearActive, DecideToCreate, DeployComplianceScan
  <2> QED BY <1>3, <2>1, <2>2, <2>3, <2>4 DEF Worker
<1> QED BY <1>1, <1>2, <1>3

LEMMA AloneKept ==
  ASSUME FreshReads, Alone, [Next]_vars
  PROVE  Alone'
<1>1. Typed' /\ SchedFollows' /\ ChildrenFollow'
  BY NextTyped, SchedFollowsKept, ChildrenFollowKept DEF Alone
<1>2. NoneActive'
  <2> SUFFICES ASSUME pc' \in {"clear", "due", "create"}
               PROVE  Active(child)' = {}
    BY DEF NoneActive
  <2>1. Active(child)' \subseteq Active(child)
    BY ActiveSteps DEF Alone
  <2>2. Active(child) = {}
    <3>1. CASE pc \in {"clear", "due", "create"}
      BY <3>1 DEF Alone, NoneActive
    <3>2. CASE ReconcileList /\ Active(seen) = {}
      <4>1. \A c \in Names : seen[c] = child[c]
        BY <3>2, FreshCaches DEF Alone
      <4> QED BY <3>2, <4>1 DEF Active
    <3> QED BY <3>1, <3>2, NoneActiveSteps
  <2> QED BY <2>1, <2>2
<1>3. OneActive'
  <2>1. \/ Active(child)' \subseteq Active(child)
        \/ Active(child) = {} /\ Active(child)' \subseteq {now}
    BY ActiveSteps DEF Alone, NoneActive
  <2> QED BY <2>1 DEF OneActive, Alone
<1> QED BY <1>1, <1>2, <1>3 DEF Alone

LEMMA InitAlone == Init => Alone
<1> SUFFICES ASSUME Init PROVE Alone
  OBVIOUS
<1>1. SchedFollows
  BY InitArmed DEF Armed
<1>2. ChildrenFollow
  <2>1. seen = child /\ childEvents = << >>
    BY DEF Init
  <2>2. \A i \in 1..Len(childEvents) : FALSE
    BY <2>1
  <2> QED BY <2>1, <2>2 DEF ChildrenFollow
<1>3. Active(child) = {}
  BY DEF Init, Active, IsActive, NoChild
<1> QED BY <1>1, <1>2, <1>3, InitTyped DEF Alone, NoneActive, OneActive

(***************************************************************************)
(* With reads that miss nothing a parent never has two children that have   *)
(* not finished, whatever calls fail or lose their answers, wherever the    *)
(* process restarts and whatever users edit or delete.                      *)
(***************************************************************************)
THEOREM AtMostOneActiveHolds ==
  ASSUME FreshReads
  PROVE  Spec => []AtMostOneActive
<1>1. Init => Alone
  BY InitAlone
<1>2. Alone /\ [Next]_vars => Alone'
  BY AloneKept
<1>3. Alone => AtMostOneActive
  <2> SUFFICES ASSUME Alone PROVE AtMostOneActive
    OBVIOUS
  <2>1. {c \in Names : child[c].phase \in {"", "Running"}} = Active(child)
    BY DEF Alone, Typed, TypeOK, Children, ScanPhases, Active, IsActive
  <2>2. PICK S : S = Active(child)
    OBVIOUS
  <2>3. Cardinality(S) <= 1
    <3>1. CASE S = {}
      BY <3>1, FS_EmptySet
    <3>2. ASSUME NEW c \in S PROVE Cardinality(S) <= 1
      <4>1. S = {c}
        BY <2>2 DEF Alone, OneActive
      <4> QED BY <4>1, FS_Singleton
    <3> QED BY <3>1, <3>2
  <2> QED BY <2>1, <2>2, <2>3 DEF AtMostOneActive
<1> QED BY <1>1, <1>2, <1>3, PTL DEF Spec

-----------------------------------------------------------------------------
(* The reference to the active scan. *)

\* Only a reconciliation that saw no active child clears the reference.
LEMMA ReferenceKept ==
  ASSUME Typed, [Next]_vars, ~ClearActive, sched.active # 0, sched'.exists
  PROVE  sched'.active # 0
<1>1. CASE sched' = sched
  BY <1>1
<1>2. ASSUME NEW x \in Schedules, EditSchedule(x) PROVE sched'.active # 0
  <2>1. sched' = [sched EXCEPT !.schedule = x]
    BY <1>2 DEF EditSchedule, StoreSched
  <2>2. sched'.active = sched.active
    BY <2>1, SchedValues DEF Typed, TypeOK
  <2> QED BY <2>2
<1>3. CASE DeleteSched
  BY <1>3, SchedValues DEF DeleteSched, StoreSched
<1>4. ASSUME NEW c \in Names, NEW t \in 0..MaxTime,
             PatchOk(SetActive(c, t)) \/ PatchFails(SetActive(c, t))
      PROVE  sched'.active # 0
  <2>1. /\ sched' = sched \/ sched' = Merged(SetActive(c, t))
    BY <1>4 DEF PatchOk, PatchFails, StoreSched
  <2>2. /\ SetActive(c, t) \in Scheds /\ SetActive(c, t).active = c /\ c # 0
    BY ActiveTyped, TimeTypes DEF Typed
  <2>3. Merged(SetActive(c, t)).active =
          IF SetActive(c, t).active = sl.active THEN sched.active
                                                ELSE SetActive(c, t).active
    BY <2>2, MergeValue DEF Merged, Typed, TypeOK
  <2> QED BY <2>1, <2>2, <2>3
<1>5. CASE RecoverActive
  <2>1. PICK c \in Active(view) : \/ PatchOk(SetActive(c, view[c].created))
                                  \/ PatchFails(SetActive(c, view[c].created))
    BY <1>5 DEF RecoverActive
  <2>2. c \in Names /\ view[c].created \in 0..MaxTime
    BY DEF Typed, TypeOK, Active, Children
  <2> QED BY <1>4, <2>1, <2>2
<1>6. CASE SetActiveScan
  <2>1. now \in Names /\ now \in 0..MaxTime
    BY <1>6, TimeTypes DEF SetActiveScan, Typed, NowIsRead, Working
  <2> QED BY <1>4, <1>6, <2>1 DEF SetActiveScan
<1>7. CASE UNCHANGED vars
  BY <1>1, <1>7 DEF vars, serverVars
<1>8. CASE \/ \E c \in Names : ScanAdvances(c) \/ ChildVanishes(c)
           \/ Tick \/ Informers \/ TimerFires \/ Dequeue \/ Restart
  BY <1>1, <1>8 DEF ScanAdvances, ChildVanishes, Tick, Informers, DeliverSched,
                    DeliverChild, TimerFires, Dequeue, Restart, serverVars
<1>9. CASE \/ ReconcileGet \/ ReconcileList \/ DecideToCreate \/ DeployComplianceScan
           \/ CleanupOldScan \/ RequeueForNextRun
  BY <1>1, <1>9 DEF ReconcileGet, ReconcileList, DecideToCreate, DeployComplianceScan,
                    CleanupOldScan, RequeueForNextRun, serverVars
<1> QED BY <1>2, <1>3, <1>5, <1>6, <1>7, <1>8, <1>9 DEF Next, Worker

(***************************************************************************)
(* With reads that miss nothing the reference to the active scan is cleared *)
(* and its completion recorded only when that scan has finished or is gone, *)
(* although the list is read before the patch and the scan runs on between. *)
(***************************************************************************)
THEOREM ClearedIsFinishedHolds ==
  ASSUME FreshReads
  PROVE  Spec => ClearedIsFinished
<1> DEFINE Step == sched.active # 0 /\ sched'.active = 0 /\ sched'.exists
                     => child[sched.active].phase \in {"Absent", "Completed", "Failed"}
<1>1. Init => Alone
  BY InitAlone
<1>2. Alone /\ [Next]_vars => Alone'
  BY AloneKept
<1>3. Alone /\ [Next]_vars => [Step]_vars
  <2> SUFFICES ASSUME Alone, [Next]_vars,
                      sched.active # 0, sched'.active = 0, sched'.exists
               PROVE  child[sched.active].phase \in {"Absent", "Completed", "Failed"}
    OBVIOUS
  <2>1. ClearActive
    BY ReferenceKept DEF Alone
  <2>2. Active(child) = {}
    BY <2>1 DEF ClearActive, Alone, NoneActive
  <2>3. sched.active \in Names
    BY DEF Alone, Typed, TypeOK, Scheds
  <2> QED BY <2>2, <2>3 DEF Active, IsActive
<1> QED BY <1>1, <1>2, <1>3, PTL DEF Spec, ClearedIsFinished

-----------------------------------------------------------------------------
(***************************************************************************)
(* Runs and the schedule. With reads that miss nothing a reconciliation     *)
(* decides with the status the API server holds: only it writes the status, *)
(* and after each patch it continues with the server's answer.              *)
(***************************************************************************)

\* Every valid cron expression matches a time the clock does not reach.
EverMatches == \A x \in Schedules \ Unparsable : \E s \in Slots[x] : s > MaxTime

StatusIsRead ==
  pc \in Working /\ sched.exists =>
    sl.active = sched.active /\ sl.lastSchedule = sched.lastSchedule

DueIsDecided ==
  pc = "create" => /\ expr = sl.schedule /\ expr \notin Unparsable
                   /\ ShouldCreate(expr, sl.lastSchedule, now)

Decided == Alone /\ StatusIsRead /\ DueIsDecided

\* A run that is due has a match of its expression after the last one.
LEMMA DueSlot ==
  ASSUME EverMatches, NEW x \in Schedules \ Unparsable,
         NEW last \in 1..MaxTime, NEW t \in Nat, ShouldCreate(x, last, t)
  PROVE  \E s \in Slots[x] : last < s /\ s <= t
<1>1. last \in Nat /\ last # 0
  OBVIOUS
<1>2. \E s \in Slots[x] : s > last
  <2>1. PICK s \in Slots[x] : s > MaxTime
    BY DEF EverMatches
  <2>2. s \in Nat
    BY ScheduleAssumption
  <2>3. s > last
    BY <2>1, <2>2, BoundsAssumption
  <2> QED BY <2>3
<1>3. /\ NextMatch(x, last) \in Slots[x] /\ NextMatch(x, last) > last
      /\ NextMatch(x, last) \in Nat
  BY <1>1, <1>2, NextMatchValue
<1>4. NextMatch(x, last) <= t
  BY <1>1, <1>3 DEF ShouldCreate
<1> QED BY <1>3, <1>4

\* Users change the spec or delete the parent; nobody creates it again.
LEMMA StatusSteps ==
  ASSUME Typed, [Next]_vars, sched'.exists
  PROVE  /\ sched.exists
         /\ ~Worker => /\ sched'.active = sched.active
                       /\ sched'.lastSchedule = sched.lastSchedule
<1> DEFINE Same == /\ sched.exists
                   /\ sched'.active = sched.active
                   /\ sched'.lastSchedule = sched.lastSchedule
<1>1. sched' = sched => Same
  OBVIOUS
<1>2. ASSUME NEW x \in Schedules, EditSchedule(x) PROVE Same
  <2>1. sched' = [sched EXCEPT !.schedule = x] /\ sched.exists
    BY <1>2 DEF EditSchedule, StoreSched
  <2>2. sched'.active = sched.active /\ sched'.lastSchedule = sched.lastSchedule
    BY <2>1, SchedValues DEF Typed, TypeOK
  <2> QED BY <2>1, <2>2
<1>3. ~DeleteSched
  BY SchedValues DEF DeleteSched, StoreSched
<1>4. CASE UNCHANGED vars
  BY <1>1, <1>4 DEF vars, serverVars
<1>5. CASE \/ \E c \in Names : ScanAdvances(c) \/ ChildVanishes(c)
           \/ Tick \/ Informers \/ TimerFires \/ Dequeue \/ Restart
  BY <1>1, <1>5 DEF ScanAdvances, ChildVanishes, Tick, Informers, DeliverSched,
                    DeliverChild, TimerFires, Dequeue, Restart, serverVars
<1>6. CASE \/ ReconcileGet \/ ReconcileList \/ DecideToCreate \/ DeployComplianceScan
           \/ CleanupOldScan \/ RequeueForNextRun
  BY <1>1, <1>6 DEF ReconcileGet, ReconcileList, DecideToCreate, DeployComplianceScan,
                    CleanupOldScan, RequeueForNextRun, serverVars
<1>7. CASE ClearActive \/ RecoverActive \/ SetActiveScan
  BY <1>7 DEF ClearActive, RecoverActive, SetActiveScan, PatchOk, PatchFails, Worker,
              CallRejected, CallLost
<1> QED BY <1>2, <1>3, <1>4, <1>5, <1>6, <1>7 DEF Next, Worker

\* After a patch the worker has the status of the server.
LEMMA PatchReads ==
  ASSUME Typed, NEW new \in Scheds, PatchOk(new), sl' = Merged(new)
  PROVE  sl' = sched'
BY DEF PatchOk, StoreSched

LEMMA DecidedKept ==
  ASSUME FreshReads, Decided, [Next]_vars
  PROVE  Decided'
<1> DEFINE Goal == StatusIsRead' /\ DueIsDecided'
<1> USE DEF Decided
<1>1. Typed /\ Alone'
  BY AloneKept DEF Alone
<1> SUFFICES Goal
  BY <1>1
<1>2. pc' \in {"idle", "get"} => Goal
  BY DEF StatusIsRead, DueIsDecided, Working
<1>3. ReturnError \/ (\E delay : ReturnAfter(delay)) => Goal
  BY <1>2 DEF ReturnError, ReturnAfter, Leave
<1>4. CASE ~Worker /\ ~Restart /\ ~Dequeue
  <2>1. UNCHANGED <<pc, localVars>>
    BY <1>4, OtherSteps
  <2>2. StatusIsRead'
    BY <1>1, <1>4, <2>1, StatusSteps DEF StatusIsRead, localVars
  <2>3. DueIsDecided'
    BY <2>1 DEF DueIsDecided, localVars
  <2> QED BY <2>2, <2>3
<1>5. CASE Restart \/ Dequeue
  BY <1>2, <1>5 DEF Restart, Leave, Dequeue
<1>6. CASE ReconcileGet
  <2>1. CASE sl' = seenSched /\ Goto("list")
    <3>1. seenSched = sched /\ sched' = sched
      BY <1>6, FreshCaches DEF Alone, ReconcileGet, serverVars
    <3> QED BY <2>1, <3>1 DEF StatusIsRead, DueIsDecided, Goto
  <2> QED BY <1>3, <1>6, <2>1 DEF ReconcileGet
<1>7. CASE ReconcileList
  <2>1. CASE /\ UNCHANGED sl
             /\ Goto(IF Active(seen) # {} THEN "recover"
                     ELSE IF sl.active # 0 THEN "clear" ELSE "due")
    <3>1. sched' = sched /\ pc = "list" /\ pc' # "create"
      BY <1>7, <2>1 DEF ReconcileList, serverVars, Goto
    <3> QED BY <2>1, <3>1 DEF StatusIsRead, DueIsDecided, Working
  <2> QED BY <1>3, <1>7, <2>1 DEF ReconcileList
<1>8. CASE ClearActive
  <2> DEFINE new == [sl EXCEPT !.active = 0, !.lastCompletion = now]
  <2>1. CASE PatchOk(new) /\ sl' = Merged(new) /\ Goto("due")
    <3>1. sl' = sched' /\ pc' = "due"
      BY <2>1 DEF PatchOk, StoreSched, Goto
    <3> QED BY <3>1 DEF StatusIsRead, DueIsDecided
  <2> QED BY <1>3, <1>8, <2>1 DEF ClearActive
<1>9. CASE RecoverActive \/ RequeueForNextRun
  BY <1>3, <1>9 DEF RecoverActive, RequeueForNextRun
<1>10. CASE DecideToCreate
  <2>1. sched' = sched /\ pc \in Working
    BY <1>10 DEF DecideToCreate, serverVars, Working
  <2>2. CASE /\ sl.schedule \notin Unparsable /\ expr' = sl.schedule
             /\ UNCHANGED <<sl, view, now>>
             /\ ShouldCreate(sl.schedule, sl.lastSchedule, now)
    BY <2>1, <2>2 DEF StatusIsRead, DueIsDecided
  <2>3. CASE UNCHANGED <<sl, view, now>> /\ GotoCleanup
    BY <2>1, <2>3 DEF StatusIsRead, DueIsDecided, GotoCleanup, Goto
  <2> QED BY <1>3, <1>10, <2>2, <2>3 DEF DecideToCreate
<1>11. CASE DeployComplianceScan
  <2>1. CASE Goto("setActive") /\ UNCHANGED localVars
    <3>1. sched' = sched /\ pc \in Working
      BY <1>11 DEF DeployComplianceScan, Working
    <3> QED BY <2>1, <3>1 DEF StatusIsRead, DueIsDecided, Goto, localVars
  <2> QED BY <1>3, <1>11, <2>1 DEF DeployComplianceScan
<1>12. CASE SetActiveScan
  <2>1. CASE PatchOk(SetActive(now, now)) /\ sl' = Merged(SetActive(now, now)) /\ GotoCleanup
    <3>1. sl' = sched' /\ pc' = "cleanup"
      BY <2>1 DEF PatchOk, StoreSched, GotoCleanup, Goto
    <3> QED BY <3>1 DEF StatusIsRead, DueIsDecided
  <2> QED BY <1>3, <1>12, <2>1 DEF SetActiveScan
<1>13. CASE CleanupOldScan
  <2>1. UNCHANGED <<sched, pc, sl, now, expr>>
    BY <1>13 DEF CleanupOldScan
  <2> QED BY <2>1 DEF StatusIsRead, DueIsDecided
<1> QED BY <1>1, <1>4, <1>5, <1>6, <1>7, <1>8, <1>9, <1>10, <1>11, <1>12, <1>13 DEF Worker

LEMMA InitDecided == Init => Decided
BY InitAlone DEF Init, Decided, StatusIsRead, DueIsDecided, Working

\* Only deployComplianceScan runs something, under the time it was decided at.
LEMMA RunSteps ==
  ASSUME [Next]_vars, lastRun' # lastRun
  PROVE  DeployComplianceScan /\ lastRun' = now
<1>1. ~UNCHANGED vars
  BY DEF vars, serverVars
<1>2. ~(\/ \E x \in Schedules : EditSchedule(x)
        \/ DeleteSched
        \/ \E c \in Names : ScanAdvances(c) \/ ChildVanishes(c)
        \/ Tick \/ Informers \/ TimerFires \/ Dequeue \/ Restart)
  BY DEF EditSchedule, DeleteSched, ScanAdvances, ChildVanishes, Tick, Informers,
         DeliverSched, DeliverChild, TimerFires, Dequeue, Restart, serverVars
<1>3. ~(\/ ReconcileGet \/ ReconcileList \/ DecideToCreate \/ CleanupOldScan
        \/ RequeueForNextRun)
  BY DEF ReconcileGet, ReconcileList, DecideToCreate, CleanupOldScan,
         RequeueForNextRun, serverVars
<1>4. ~(ClearActive \/ RecoverActive \/ SetActiveScan)
  BY DEF ClearActive, RecoverActive, SetActiveScan, PatchOk, PatchFails
<1>5. DeployComplianceScan
  BY <1>1, <1>2, <1>3, <1>4 DEF Next, Worker
<1> QED BY <1>5 DEF DeployComplianceScan

(***************************************************************************)
(* With reads that miss nothing, and cron expressions that match again and  *)
(* again, no run is made before its time: after the last run recorded in    *)
(* the API server the cron expression has matched, although the parent is   *)
(* read long before the scan is created and users edit it in between.       *)
(***************************************************************************)
THEOREM RunsOnScheduleHolds ==
  ASSUME FreshReads, EverMatches
  PROVE  Spec => RunsOnSchedule
<1> DEFINE Step == lastRun' # lastRun /\ sched.exists =>
                     \/ sched.lastSchedule = 0
                     \/ \E s \in Slots[expr] : sched.lastSchedule < s /\ s <= clock
<1>1. Init => Decided
  BY InitDecided
<1>2. Decided /\ [Next]_vars => Decided'
  BY DecidedKept
<1>3. Decided /\ [Next]_vars => [Step]_vars
  <2> SUFFICES ASSUME Decided, [Next]_vars, lastRun' # lastRun, sched.exists,
                      sched.lastSchedule # 0
               PROVE  \E s \in Slots[expr] : sched.lastSchedule < s /\ s <= clock
    OBVIOUS
  <2>1. pc = "create"
    BY RunSteps DEF DeployComplianceScan
  <2>2. /\ expr \in Schedules \ Unparsable
        /\ ShouldCreate(expr, sched.lastSchedule, now)
    BY <2>1 DEF Decided, DueIsDecided, StatusIsRead, Working, Alone, Typed, TypeOK
  <2>3. sched.lastSchedule \in 1..MaxTime /\ now \in Nat /\ now <= clock /\ clock \in Nat
    <3>1. sched.lastSchedule \in 0..MaxTime
      BY DEF Decided, Alone, Typed, TypeOK, Scheds
    <3>2. clock \in Times /\ now \in 0..clock
      BY DEF Decided, Alone, Typed, TypeOK
    <3> QED BY <3>1, <3>2, BoundsAssumption DEF Times
  <2>4. PICK s \in Slots[expr] : sched.lastSchedule < s /\ s <= now
    BY <2>2, <2>3, DueSlot
  <2>5. s \in Nat
    BY <2>2, ScheduleAssumption
  <2> QED BY <2>3, <2>4, <2>5
<1> QED BY <1>1, <1>2, <1>3, PTL DEF Spec, RunsOnSchedule

-----------------------------------------------------------------------------
(***************************************************************************)
(* One run for one match: without failures the last run is the one the      *)
(* status records, except between the creation and the patch that records   *)
(* it, and no scan is ever found without a reference to it.                 *)
(***************************************************************************)
NoFailures == MaxFaults = 0 /\ MaxRestarts = 0

RunIsRecorded ==
  /\ pc = "setActive" => lastRun = now
  /\ sched.exists /\ pc # "setActive" =>
       /\ lastRun = sched.lastSchedule
       /\ Active(child) # {} => sched.active # 0
  /\ pc = "recover" => ~sched.exists

Recorded == Decided /\ RunIsRecorded

LEMMA NothingFails ==
  ASSUME NoFailures, Typed
  PROVE  ~CallRejected /\ ~CallLost /\ ~Restart
<1>1. faults = 0 /\ restarts = 0
  BY DEF NoFailures, Typed, TypeOK
<1> QED BY <1>1 DEF NoFailures, CallRejected, CallLost, Fault, Restart

\* The patch of setActiveScan sets exactly what it was given.
LEMMA SetActivePatch ==
  ASSUME Typed, StatusIsRead, pc \in Working, NEW c \in Names, NEW t \in 0..MaxTime,
         PatchOk(SetActive(c, t))
  PROVE  sched'.active = c /\ sched'.lastSchedule = t
<1>1. /\ SetActive(c, t) \in Scheds
      /\ SetActive(c, t).active = c /\ SetActive(c, t).lastSchedule = t
  BY ActiveTyped DEF Typed
<1>2. sched \in Scheds /\ sl \in Scheds
  BY DEF Typed, TypeOK
<1>3. sched' = Merged(SetActive(c, t)) /\ sched.exists
  BY DEF PatchOk, StoreSched
<1>4. sl.active = sched.active /\ sl.lastSchedule = sched.lastSchedule
  BY <1>3 DEF StatusIsRead
<1>5. PICK new \in Scheds : new = SetActive(c, t)
  BY <1>1
<1>6. /\ Merged(new).active = IF new.active = sl.active THEN sched.active ELSE new.active
      /\ Merged(new).lastSchedule =
           IF new.lastSchedule = sl.lastSchedule THEN sched.lastSchedule
                                                 ELSE new.lastSchedule
  BY <1>2, MergeValue DEF Merged
<1> QED BY <1>1, <1>3, <1>4, <1>5, <1>6

LEMMA RecordedKept ==
  ASSUME FreshReads, NoFailures, Recorded, [Next]_vars
  PROVE  Recorded'
<1> USE DEF Recorded
<1>1. Typed /\ Alone /\ StatusIsRead /\ NoneActive /\ Decided'
  BY DecidedKept DEF Decided, Alone
<1> SUFFICES RunIsRecorded'
  BY <1>1
<1>2. ~CallRejected /\ ~CallLost /\ ~Restart
  BY <1>1, NothingFails
\* With the status, the last run and no new active child nothing is lost.
<1>3. ASSUME /\ sched'.exists => /\ sched'.active = sched.active
                                 /\ sched'.lastSchedule = sched.lastSchedule
             /\ lastRun' = lastRun
             /\ pc # "setActive" \/ ~sched'.exists
             /\ Active(child)' \subseteq Active(child)
             /\ pc' # "setActive" /\ pc' # "recover"
      PROVE  RunIsRecorded'
  BY <1>1, <1>3, StatusSteps DEF RunIsRecorded
<1>4. CASE ~Worker /\ ~Dequeue
  <2>1. UNCHANGED <<pc, localVars>> /\ lastRun' = lastRun
    BY <1>2, <1>4, OtherSteps, RunSteps DEF Worker
  <2>2. sched'.exists => /\ sched.exists
                         /\ sched'.active = sched.active
                         /\ sched'.lastSchedule = sched.lastSchedule
    BY <1>1, <1>4, StatusSteps
  <2>3. Active(child)' \subseteq Active(child)
    <3>1. ~(pc = "create" /\ pc' \in {"setActive", "idle"})
      BY <2>1
    <3> QED BY <1>1, <3>1, ActiveSteps
  <2> QED BY <2>1, <2>2, <2>3 DEF RunIsRecorded, localVars
<1>5. CASE Dequeue
  BY <1>5 DEF Dequeue, RunIsRecorded, serverVars, Active, IsActive
<1>6. CASE ReconcileGet
  <2>1. UNCHANGED <<sched, child, lastRun>> /\ pc = "get" /\ pc' \in {"idle", "list"}
    BY <1>6 DEF ReconcileGet, serverVars, Goto, ReturnError, ReturnAfter, Leave
  <2> QED BY <1>3, <2>1 DEF Active, IsActive
<1>7. CASE ReconcileList
  <2>1. UNCHANGED <<sched, child, lastRun>> /\ pc = "list"
    BY <1>7 DEF ReconcileList, serverVars
  <2>2. CASE pc' # "recover"
    <3>1. pc' # "setActive"
      BY <1>7 DEF ReconcileList, Goto, ReturnError, ReturnAfter, Leave
    <3> QED BY <1>3, <2>1, <2>2, <3>1 DEF Active, IsActive
  <2>3. CASE pc' = "recover"
    <3>1. Active(seen) # {} /\ sl.active = 0
      BY <1>7, <2>3 DEF ReconcileList, Goto, ReturnError, ReturnAfter, Leave
    <3>2. Active(child) # {}
      <4>1. \A c \in Names : seen[c] = child[c]
        BY <1>7, FreshCaches, <1>1 DEF Alone
      <4> QED BY <3>1, <4>1 DEF Active
    <3>3. ~sched.exists
      BY <1>1, <2>1, <3>1, <3>2 DEF RunIsRecorded, StatusIsRead, Working
    <3> QED BY <2>1, <2>3, <3>3 DEF RunIsRecorded
  <2> QED BY <2>2, <2>3
<1>8. CASE ClearActive
  <2>1. /\ Active(child) = {} /\ child' = child /\ lastRun' = lastRun
        /\ pc = "clear" /\ pc' \in {"idle", "due"}
    BY <1>1, <1>8
       DEF ClearActive, NoneActive, PatchOk, PatchFails, Goto, ReturnError, Leave
  <2>2. sched'.exists => sched'.lastSchedule = sched.lastSchedule
    <3>1. PICK new : /\ new = [sl EXCEPT !.active = 0, !.lastCompletion = now]
                     /\ PatchOk(new) \/ PatchFails(new)
      BY <1>8 DEF ClearActive
    <3>2. now \in 0..MaxTime
      BY <1>1, <2>1, BoundsAssumption DEF Typed, NowIsRead, Working, Names, Times
    <3>3. new \in Scheds /\ new.lastSchedule = sl.lastSchedule
      <4>1. sl \in Scheds
        BY <1>1 DEF Typed, TypeOK
      <4>2. new.lastSchedule = sl.lastSchedule
        BY <3>1, <4>1 DEF Scheds
      <4> QED BY <3>1, <3>2, <4>1, <4>2, SchedValues
    <3>4. Merged(new).lastSchedule = sched.lastSchedule
      BY <1>1, <3>3, MergeValue DEF Merged, Typed, TypeOK
    <3> QED BY <3>1, <3>4 DEF PatchOk, PatchFails, StoreSched
  <2>3. sched'.exists => sched.exists
    BY <1>1, StatusSteps
  <2>4. Active(child)' = {}
    BY <2>1 DEF Active, IsActive
  <2> QED BY <2>1, <2>2, <2>3, <2>4 DEF RunIsRecorded
<1>9. CASE RecoverActive
  <2>1. ~sched.exists /\ pc' = "idle"
    BY <1>9 DEF RecoverActive, RunIsRecorded, ReturnAfter, ReturnError, Leave
  <2>2. ~sched'.exists
    BY <1>1, <2>1, StatusSteps
  <2> QED BY <2>1, <2>2 DEF RunIsRecorded
<1>10. CASE DecideToCreate
  <2>1. UNCHANGED <<sched, child, lastRun>> /\ pc = "due" /\ pc' \in {"idle", "create", "cleanup"}
    BY <1>10 DEF DecideToCreate, serverVars, Goto, GotoCleanup, ReturnAfter, Leave
  <2> QED BY <1>3, <2>1 DEF Active, IsActive
<1>11. CASE DeployComplianceScan
  <2>1. CASE lastRun' = now /\ Goto("setActive") /\ UNCHANGED localVars
    BY <2>1 DEF RunIsRecorded, Goto, localVars
  <2>2. CASE UNCHANGED <<child, lastRun>> /\ ReturnError
    <3>1. sched' = sched /\ pc = "create" /\ pc' = "idle"
      BY <1>11, <2>2 DEF DeployComplianceScan, ReturnError, Leave
    <3> QED BY <1>3, <2>2, <3>1 DEF Active, IsActive
  <2> QED BY <1>2, <1>11, <2>1, <2>2 DEF DeployComplianceScan
<1>12. CASE SetActiveScan
  <2>1. pc = "setActive" /\ pc \in Working /\ now \in Names /\ lastRun' = lastRun
    BY <1>1, <1>12 DEF SetActiveScan, Typed, NowIsRead, Working, PatchOk, PatchFails,
                       RunIsRecorded
  <2>2. CASE PatchOk(SetActive(now, now)) /\ GotoCleanup
    <3>1. now \in 0..MaxTime /\ now # 0
      BY <2>1, TimeTypes
    <3>2. sched'.active = now /\ sched'.lastSchedule = now
      BY <1>1, <2>1, <2>2, <3>1, SetActivePatch
    <3>3. pc' = "cleanup"
      BY <2>2 DEF GotoCleanup, Goto
    <3> QED BY <2>1, <3>1, <3>2, <3>3 DEF RunIsRecorded
  <2>3. CASE PatchFails(SetActive(now, now)) /\ ReturnError
    <3>1. ~sched.exists /\ sched' = sched /\ pc' = "idle"
      BY <1>2, <2>3 DEF PatchFails, ReturnError, Leave
    <3> QED BY <3>1 DEF RunIsRecorded
  <2> QED BY <1>12, <2>2, <2>3 DEF SetActiveScan
<1>13. CASE CleanupOldScan
  <2>1. UNCHANGED <<sched, lastRun, pc>> /\ pc = "cleanup"
    BY <1>13 DEF CleanupOldScan
  <2>2. Active(child)' \subseteq Active(child)
    BY <1>1, <2>1, ActiveSteps
  <2> QED BY <1>3, <2>1, <2>2
<1>14. CASE RequeueForNextRun
  <2>1. UNCHANGED <<sched, child, lastRun>> /\ pc = "cleanup" /\ pc' = "idle"
    BY <1>14 DEF RequeueForNextRun, serverVars, ReturnAfter, Leave
  <2> QED BY <1>3, <2>1 DEF Active, IsActive
<1> QED BY <1>4, <1>5, <1>6, <1>7, <1>8, <1>9, <1>10, <1>11, <1>12, <1>13, <1>14 DEF Worker

LEMMA InitRecorded == Init => Recorded
<1> SUFFICES ASSUME Init PROVE Recorded
  OBVIOUS
<1>1. PICK x \in Schedules : sched = NewSched(x)
  BY DEF Init
<1>2. sched.lastSchedule = 0
  BY <1>1 DEF NewSched
<1>3. Active(child) = {}
  BY DEF Init, Active, IsActive, NoChild
<1> QED BY <1>2, <1>3, InitDecided DEF Init, Recorded, RunIsRecorded

(***************************************************************************)
(* With reads that miss nothing, cron expressions that match again and      *)
(* again, and no failures, two runs never share a match of the expression,  *)
(* whatever users edit or delete.                                           *)
(***************************************************************************)
THEOREM OneRunPerSlotHolds ==
  ASSUME FreshReads, EverMatches, NoFailures
  PROVE  Spec => OneRunPerSlot
<1> DEFINE Step == lastRun' # lastRun /\ sched.exists =>
                     \/ lastRun = 0
                     \/ \E s \in Slots[expr] : lastRun < s /\ s <= lastRun'
<1>1. Init => Recorded
  BY InitRecorded
<1>2. Recorded /\ [Next]_vars => Recorded'
  BY RecordedKept
<1>3. Recorded /\ [Next]_vars => [Step]_vars
  <2> SUFFICES ASSUME Recorded, [Next]_vars, lastRun' # lastRun, sched.exists,
                      lastRun # 0
               PROVE  \E s \in Slots[expr] : lastRun < s /\ s <= lastRun'
    OBVIOUS
  <2>1. pc = "create" /\ lastRun' = now
    BY RunSteps DEF DeployComplianceScan
  <2>2. Decided /\ Typed
    BY DEF Recorded, Decided, Alone
  <2>3. sched.lastSchedule = lastRun
    BY <2>1 DEF Recorded, RunIsRecorded
  <2>4. /\ expr \in Schedules \ Unparsable
        /\ ShouldCreate(expr, lastRun, now)
    BY <2>1, <2>2, <2>3 DEF Decided, DueIsDecided, StatusIsRead, Working, Typed, TypeOK
  <2>5. lastRun \in 1..MaxTime /\ now \in Nat
    <3>1. lastRun \in 0..clock /\ clock \in Times /\ now \in 0..clock
      BY <2>2 DEF Typed, TypeOK
    <3> QED BY <3>1, BoundsAssumption DEF Times
  <2> QED BY <2>1, <2>4, <2>5, DueSlot
<1> QED BY <1>1, <1>2, <1>3, PTL DEF Spec, OneRunPerSlot

-----------------------------------------------------------------------------
(***************************************************************************)
(* The history limits. Where nothing but the worker deletes scans, the      *)
(* finished children of its list are those of the API server until it       *)
(* deletes them itself.                                                     *)
(***************************************************************************)
OnlyWorkerDeletes == UserDeletes = FALSE

Listed == {"clear", "recover", "due", "create", "setActive"}

ViewIsCurrent ==
  pc \in Listed => \A c \in Names : Finished(view[c]) => child[c] = view[c]

Selection(done, failed) ==
  /\ toDelete \subseteq done \cup failed
  /\ \A c \in toDelete : child[c] = view[c]
  /\ \A c \in Names \ (done \cup failed) : Finished(view[c]) => child[c] = view[c]

Selected ==
  pc = "cleanup" =>
    \E done \in Excess("Completed", SuccessfulLimit),
       failed \in Excess("Failed", FailedLimit) : Selection(done, failed)

Limited == /\ Typed /\ SchedFollows /\ ChildrenFollow
           /\ sched.exists /\ ViewIsCurrent /\ Selected

\* cleanupOldScans: what it selects is finished, and the limit ones it spares are no older.
LEMMA ExcessValue ==
  ASSUME Typed, NEW phase \in {"Completed", "Failed"}, NEW limit \in Nat,
         NEW old \in Excess(phase, limit), NEW c \in old
  PROVE  LET spared == {d \in Names : view[d].phase = phase} \ old
         IN  /\ c \in Names /\ view[c].phase = phase
             /\ Cardinality(spared) = limit
             /\ \A d \in spared : view[c].created <= view[d].created
<1> DEFINE scans == {d \in Names : view[d].phase = phase}
<1>1. /\ old \subseteq scans
      /\ Cardinality(old) = (IF Cardinality(scans) > limit
                               THEN Cardinality(scans) - limit ELSE 0)
      /\ \A b \in old, d \in scans \ old : view[b].created <= view[d].created
  BY DEF Excess
<1>2. IsFiniteSet(scans)
  <2>1. IsFiniteSet(Names)
    BY FS_Interval, BoundsAssumption DEF Names, Times
  <2> QED BY <2>1, FS_Subset
<1>3. IsFiniteSet(old) /\ Cardinality(old) # 0
  <2>1. IsFiniteSet(old)
    BY <1>1, <1>2, FS_Subset
  <2> QED BY <2>1, FS_EmptySet
<1>4. Cardinality(scans) \in Nat /\ Cardinality(old) = Cardinality(scans) - limit
  BY <1>1, <1>2, <1>3, FS_CardinalityType
<1>5. Cardinality(scans \ old) = Cardinality(scans) - Cardinality(old)
  <2>1. scans \cap old = old
    BY <1>1
  <2> HIDE DEF scans
  <2> QED BY <1>2, <2>1, FS_Difference
<1>6. Cardinality(scans \ old) = limit
  BY <1>4, <1>5
<1> QED BY <1>1, <1>6

LEMMA SparedAreNoOlder ==
  ASSUME Typed, NEW phase \in {"Completed", "Failed"}, NEW limit \in Nat,
         NEW old \in Excess(phase, limit), NEW c \in old, child[c] = view[c],
         \A d \in Names \ old : view[d].phase = phase => child[d] = view[d]
  PROVE  child[c].phase = phase /\ Cardinality(NoOlder(c)) >= limit
<1> DEFINE spared == {d \in Names : view[d].phase = phase} \ old
<1>1. /\ c \in Names /\ view[c].phase = phase
      /\ Cardinality(spared) = limit
      /\ \A d \in spared : view[c].created <= view[d].created
  BY ExcessValue
<1>2. spared \subseteq NoOlder(c)
  <2> SUFFICES ASSUME NEW d \in spared PROVE d \in NoOlder(c)
    OBVIOUS
  <2>1. d \in Names \ {c} /\ child[d] = view[d] /\ view[d].phase = phase
    OBVIOUS
  <2>2. view[c].created \in Nat /\ view[d].created \in Nat
    <3>1. view[c] \in Children /\ view[d] \in Children
      BY <1>1, <2>1 DEF Typed, TypeOK
    <3>2. \A o \in Children : o.created \in Nat
      BY BoundsAssumption DEF Children
    <3> QED BY <3>1, <3>2
  <2> QED BY <1>1, <2>1, <2>2 DEF NoOlder
<1>3. IsFiniteSet(NoOlder(c))
  <2>1. IsFiniteSet(Names)
    BY FS_Interval, BoundsAssumption DEF Names, Times
  <2>2. NoOlder(c) \subseteq Names
    BY DEF NoOlder
  <2> QED BY <2>1, <2>2, FS_Subset
<1>4. Cardinality(spared) <= Cardinality(NoOlder(c))
  <2> HIDE DEF spared
  <2> QED BY <1>2, <1>3, FS_Subset
<1>5. Cardinality(NoOlder(c)) \in Nat
  BY <1>3, FS_CardinalityType
<1> QED BY <1>1, <1>4, <1>5

\* A finished child changes only when the worker deletes it.
LEMMA FinishedStays ==
  ASSUME OnlyWorkerDeletes, Typed, sched.exists, [Next]_vars,
         NEW c \in Names, Finished(child[c])
  PROVE  \/ child'[c] = child[c]
         \/ CleanupOldScan /\ c \notin toDelete'
<1>1. CASE child' = child
  BY <1>1
<1>2. ASSUME NEW d \in Names, ScanAdvances(d) PROVE child'[c] = child[c]
  <2>1. PICK to \in ScanPhases : /\ <<child[d].phase, to>> \in Lifecycle!Moves
                                 /\ StoreChild(d, [child[d] EXCEPT !.phase = to])
    BY <1>2 DEF ScanAdvances
  <2>2. [child[d] EXCEPT !.phase = to] \in Children
    BY ChildValues DEF Typed, TypeOK
  <2>3. d # c
    BY <2>1 DEF Lifecycle!Moves, Finished
  <2> QED BY <2>1, <2>2, <2>3, StoreChildTyped DEF Typed
<1>3. ASSUME NEW d \in Names, ChildVanishes(d) PROVE FALSE
  BY <1>3 DEF ChildVanishes, OnlyWorkerDeletes
<1>4. CASE UNCHANGED vars
  BY <1>1, <1>4 DEF vars, serverVars
<1>5. CASE \/ \E x \in Schedules : EditSchedule(x)
           \/ DeleteSched \/ Tick \/ Informers \/ TimerFires \/ Dequeue \/ Restart
  BY <1>1, <1>5 DEF EditSchedule, DeleteSched, Tick, Informers, DeliverSched, DeliverChild,
                    TimerFires, Dequeue, Restart, serverVars
<1>6. CASE \/ ReconcileGet \/ ReconcileList \/ ClearActive \/ RecoverActive
           \/ DecideToCreate \/ SetActiveScan \/ RequeueForNextRun
  BY <1>1, <1>6 DEF ReconcileGet, ReconcileList, ClearActive, RecoverActive, DecideToCreate,
                    SetActiveScan, RequeueForNextRun, PatchOk, PatchFails, serverVars
<1>7. CASE DeployComplianceScan
  <2>1. now \in Names
    BY <1>7 DEF DeployComplianceScan, Typed, NowIsRead, Working
  <2>2. \/ child' = child
        \/ ~Present(now) /\ StoreChild(now, [phase |-> "", created |-> clock])
    BY <1>7 DEF DeployComplianceScan
  <2>3. clock \in 0..MaxTime
    BY BoundsAssumption DEF Typed, TypeOK, Times
  <2>4. [phase |-> "", created |-> clock] \in Children
    BY <2>3, ChildValues
  <2>5. Present(c)
    BY DEF Present, Finished
  <2> QED BY <2>1, <2>2, <2>4, <2>5, StoreChildTyped DEF Typed
<1>8. CASE CleanupOldScan
  <2>1. PICK d \in toDelete : /\ toDelete' = toDelete \ {d}
                              /\ StoreChild(d, NoChild) \/ child' = child
    BY <1>8 DEF CleanupOldScan
  <2>2. d \in Names /\ NoChild \in Children
    BY ChildValues DEF Typed, TypeOK
  <2> QED BY <1>8, <2>1, <2>2, StoreChildTyped DEF Typed
<1> QED BY <1>2, <1>3, <1>4, <1>5, <1>6, <1>7, <1>8 DEF Next, Worker

\* How the worker comes to the places where it works with its list.
LEMMA ListSteps ==
  ASSUME [Next]_vars
  PROVE  /\ pc' \in Listed => \/ pc \in Listed /\ view' = view
                              \/ ReconcileList /\ view' = seen
         /\ pc' = "cleanup" =>
              \/ pc = "cleanup" /\ view' = view /\ (toDelete' = toDelete \/ CleanupOldScan)
              \/ pc \in Listed /\ view' = view /\ child' = child /\ GotoCleanup
<1> DEFINE Goal ==
      /\ pc' \in Listed => \/ pc \in Listed /\ view' = view
                           \/ ReconcileList /\ view' = seen
      /\ pc' = "cleanup" =>
           \/ pc = "cleanup" /\ view' = view /\ (toDelete' = toDelete \/ CleanupOldScan)
           \/ pc \in Listed /\ view' = view /\ child' = child /\ GotoCleanup
<1>1. pc' \notin Listed /\ pc' # "cleanup" => Goal
  OBVIOUS
<1>2. ReturnError \/ (\E delay : ReturnAfter(delay)) => Goal
  BY <1>1 DEF ReturnError, ReturnAfter, Leave, Listed
<1>3. CASE ~Worker /\ ~Restart /\ ~Dequeue
  BY <1>3, OtherSteps DEF localVars
<1>4. CASE Restart \/ Dequeue
  BY <1>1, <1>4 DEF Restart, Leave, Dequeue, Listed
<1>5. CASE ReconcileGet
  BY <1>1, <1>2, <1>5 DEF ReconcileGet, Goto, Listed
<1>6. CASE ReconcileList
  BY <1>2, <1>6 DEF ReconcileList, Goto, Listed
<1>7. CASE ClearActive
  BY <1>2, <1>7 DEF ClearActive, Goto, Listed
<1>8. CASE RecoverActive \/ RequeueForNextRun
  BY <1>2, <1>8 DEF RecoverActive, RequeueForNextRun
<1>9. CASE DecideToCreate
  <2>1. pc \in Listed /\ child' = child
    BY <1>9 DEF DecideToCreate, Listed, serverVars
  <2>2. CASE UNCHANGED <<sl, view, now>> /\ Goto("create")
    BY <2>1, <2>2 DEF Goto
  <2>3. CASE UNCHANGED <<sl, view, now>> /\ GotoCleanup
    <3>1. pc' \notin Listed
      BY <2>3 DEF GotoCleanup, Goto, Listed
    <3> QED BY <2>1, <2>3, <3>1
  <2> QED BY <1>2, <1>9, <2>2, <2>3 DEF DecideToCreate
<1>10. CASE DeployComplianceScan
  BY <1>2, <1>10 DEF DeployComplianceScan, Goto, Listed, localVars
<1>11. CASE SetActiveScan
  <2>1. pc \in Listed /\ child' = child
    BY <1>11 DEF SetActiveScan, Listed, PatchOk, PatchFails
  <2>2. CASE UNCHANGED <<view, now, expr>> /\ GotoCleanup
    <3>1. pc' \notin Listed
      BY <2>2 DEF GotoCleanup, Goto, Listed
    <3> QED BY <2>1, <2>2, <3>1
  <2> QED BY <1>2, <1>11, <2>2 DEF SetActiveScan
<1>12. CASE CleanupOldScan
  BY <1>12 DEF CleanupOldScan, Listed
<1> QED BY <1>3, <1>4, <1>5, <1>6, <1>7, <1>8, <1>9, <1>10, <1>11, <1>12 DEF Worker

LEMMA SelectionKept ==
  ASSUME OnlyWorkerDeletes, Typed, sched.exists, [Next]_vars, pc = "cleanup", view' = view,
         toDelete' = toDelete \/ CleanupOldScan,
         NEW done \in Excess("Completed", SuccessfulLimit),
         NEW failed \in Excess("Failed", FailedLimit), Selection(done, failed)
  PROVE  Selection(done, failed)'
<1>1. toDelete' \subseteq toDelete /\ toDelete \subseteq Names
  BY DEF CleanupOldScan, Typed, TypeOK
<1>2. \A c \in toDelete : Finished(view[c])
  BY DEF Selection, Excess, Finished
<1>3. \A c \in Names : Finished(view[c]) /\ child[c] = view[c] /\ c \in toDelete'
                         => child'[c] = view[c]
  <2>1. ASSUME NEW c \in Names, Finished(child[c]), c \in toDelete'
        PROVE  child'[c] = child[c]
    BY <2>1, FinishedStays
  <2> QED BY <2>1
<1>4. \A c \in Names \ (done \cup failed) :
        Finished(view[c]) /\ child[c] = view[c] => child'[c] = view[c]
  <2>1. ASSUME NEW c \in Names \ (done \cup failed), Finished(child[c])
        PROVE  child'[c] = child[c]
    <3>1. CASE CleanupOldScan
      <4>1. PICK d \in toDelete : StoreChild(d, NoChild) \/ child' = child
        BY <3>1 DEF CleanupOldScan
      <4>2. d # c /\ d \in Names /\ NoChild \in Children
        BY <1>1, ChildValues DEF Selection
      <4> QED BY <4>1, <4>2, StoreChildTyped DEF Typed
    <3>2. CASE ~CleanupOldScan
      BY <2>1, <3>2, FinishedStays
    <3> QED BY <3>1, <3>2
  <2> QED BY <2>1
<1> QED BY <1>1, <1>2, <1>3, <1>4 DEF Selection

LEMMA LimitedKept ==
  ASSUME FreshReads, OnlyWorkerDeletes, Limited, [Next]_vars
  PROVE  Limited'
<1> USE DEF Limited
<1>1. Typed' /\ SchedFollows' /\ ChildrenFollow'
  BY NextTyped, SchedFollowsKept, ChildrenFollowKept
<1>2. sched'.exists
  <2>1. ASSUME NEW new \in Scheds, PatchOk(new) \/ PatchFails(new) PROVE sched'.exists
    <3>1. Merged(new).exists = sched.exists
      BY <2>1, MergeValue DEF Merged, Typed, TypeOK
    <3> QED BY <2>1, <3>1 DEF PatchOk, PatchFails, StoreSched
  <2>2. CASE UNCHANGED vars
    BY <2>2 DEF vars, serverVars
  <2>3. ASSUME NEW x \in Schedules, EditSchedule(x) PROVE sched'.exists
    <3>1. sched' = [sched EXCEPT !.schedule = x] /\ sched.exists /\ sched \in Scheds
      BY <2>3 DEF EditSchedule, StoreSched, Typed, TypeOK
    <3> QED BY <3>1, SchedValues
  <2>4. CASE \/ \E c \in Names : ScanAdvances(c) \/ ChildVanishes(c)
             \/ Tick \/ Informers \/ TimerFires \/ Dequeue \/ Restart
    BY <2>4 DEF ScanAdvances, ChildVanishes, Tick, Informers, DeliverSched, DeliverChild,
                TimerFires, Dequeue, Restart, serverVars
  <2>5. CASE \/ ReconcileGet \/ ReconcileList \/ DecideToCreate \/ DeployComplianceScan
             \/ CleanupOldScan \/ RequeueForNextRun
    BY <2>5 DEF ReconcileGet, ReconcileList, DecideToCreate, DeployComplianceScan,
                CleanupOldScan, RequeueForNextRun, serverVars
  <2>6. CASE ClearActive \/ RecoverActive \/ SetActiveScan
    BY <2>1, <2>6, PatchSteps
  <2>7. ~DeleteSched
    BY DEF DeleteSched, OnlyWorkerDeletes
  <2> QED BY <2>2, <2>3, <2>4, <2>5, <2>6, <2>7 DEF Next, Worker
<1>3. ViewIsCurrent'
  <2>1. CASE pc \in Listed /\ view' = view
    <3>1. ~CleanupOldScan
      BY <2>1 DEF CleanupOldScan, Listed
    <3>2. \A c \in Names : Finished(child[c]) => child'[c] = child[c]
      BY <3>1, FinishedStays
    <3> QED BY <2>1, <3>2 DEF ViewIsCurrent
  <2>2. CASE ReconcileList /\ view' = seen
    <3>1. child' = child /\ \A c \in Names : seen[c] = child[c]
      BY <2>2, FreshCaches DEF ReconcileList, serverVars
    <3> QED BY <2>2, <3>1 DEF ViewIsCurrent
  <2>3. CASE pc' \notin Listed
    BY <2>3 DEF ViewIsCurrent
  <2> QED BY <2>1, <2>2, <2>3, ListSteps
<1>4. Selected'
  <2> SUFFICES ASSUME pc' = "cleanup"
               PROVE  (\E done \in Excess("Completed", SuccessfulLimit),
                          failed \in Excess("Failed", FailedLimit) : Selection(done, failed))'
    BY DEF Selected
  <2>1. view' = view
    BY ListSteps
  <2>2. /\ Excess("Completed", SuccessfulLimit)' = Excess("Completed", SuccessfulLimit)
        /\ Excess("Failed", FailedLimit)' = Excess("Failed", FailedLimit)
    BY <2>1 DEF Excess
  <2>3. CASE pc = "cleanup" /\ (toDelete' = toDelete \/ CleanupOldScan)
    <3>1. PICK done \in Excess("Completed", SuccessfulLimit),
               failed \in Excess("Failed", FailedLimit) : Selection(done, failed)
      BY <2>3 DEF Selected
    <3>2. Selection(done, failed)'
      BY <2>1, <2>3, <3>1, SelectionKept
    <3> QED BY <2>2, <3>2
  <2>4. CASE pc \in Listed /\ child' = child /\ GotoCleanup
    <3>1. PICK done \in Excess("Completed", SuccessfulLimit),
               failed \in Excess("Failed", FailedLimit) : toDelete' = done \cup failed
      BY <2>4 DEF GotoCleanup
    <3>2. \A c \in done \cup failed : c \in Names /\ Finished(view[c])
      BY DEF Excess, Finished
    <3>3. Selection(done, failed)'
      BY <2>1, <2>4, <3>1, <3>2 DEF Selection, ViewIsCurrent
    <3> QED BY <2>2, <3>3
  <2> QED BY <2>3, <2>4, ListSteps
<1> QED BY <1>1, <1>2, <1>3, <1>4

LEMMA InitLimited == Init => Limited
<1> SUFFICES ASSUME Init PROVE Limited
  OBVIOUS
<1>1. PICK x \in Schedules : sched = NewSched(x)
  BY DEF Init
<1>2. sched.exists
  BY <1>1 DEF NewSched
<1>3. pc = "idle"
  BY DEF Init
<1> QED BY <1>2, <1>3, InitAlone DEF Limited, Alone, ViewIsCurrent, Selected, Listed

(***************************************************************************)
(* With reads that miss nothing, and no scan deleted by others, the cleanup *)
(* keeps the history it has to, for any limits, although scans finish and   *)
(* the process fails or restarts between the list and the deletions, and    *)
(* several scans may have the same creation timestamp.                      *)
(***************************************************************************)
THEOREM KeepsNewestHolds ==
  ASSUME FreshReads, OnlyWorkerDeletes
  PROVE  Spec => KeepsNewest
<1> DEFINE Kept(c) ==
             \/ child[c].phase = "Completed" /\ Cardinality(NoOlder(c)) >= SuccessfulLimit
             \/ child[c].phase = "Failed" /\ Cardinality(NoOlder(c)) >= FailedLimit
           Step == \A c \in Names :
                     pc = "cleanup" /\ c \in toDelete \ toDelete' /\ Present(c) /\ ~Present(c)'
                       => Kept(c)
<1>1. Init => Limited
  BY InitLimited
<1>2. Limited /\ [Next]_vars => Limited'
  BY LimitedKept
<1>3. Limited => [Step]_vars
  <2> SUFFICES ASSUME Limited, NEW c \in Names, pc = "cleanup", c \in toDelete
               PROVE  Kept(c)
    OBVIOUS
  <2>1. PICK done \in Excess("Completed", SuccessfulLimit),
             failed \in Excess("Failed", FailedLimit) : Selection(done, failed)
    BY DEF Limited, Selected
  <2>2. /\ Typed /\ child[c] = view[c]
        /\ \A d \in Names \ (done \cup failed) : Finished(view[d]) => child[d] = view[d]
    BY <2>1 DEF Limited, Selection
  <2>3. /\ \A d \in done : view[d].phase = "Completed"
        /\ \A d \in failed : view[d].phase = "Failed"
    BY DEF Excess
  <2>4. SuccessfulLimit \in Nat /\ FailedLimit \in Nat
    BY BoundsAssumption
  <2>5. CASE c \in done
    <3>1. \A d \in Names \ done : view[d].phase = "Completed" => child[d] = view[d]
      BY <2>2, <2>3 DEF Finished
    <3> QED BY <2>2, <2>4, <2>5, <3>1, SparedAreNoOlder
  <2>6. CASE c \in failed
    <3>1. \A d \in Names \ failed : view[d].phase = "Failed" => child[d] = view[d]
      BY <2>2, <2>3 DEF Finished
    <3> QED BY <2>2, <2>4, <2>6, <3>1, SparedAreNoOlder
  <2> QED BY <2>1, <2>5, <2>6 DEF Selection
<1> QED BY <1>1, <1>2, <1>3, PTL DEF Spec, KeepsNewest
=============================================================================
