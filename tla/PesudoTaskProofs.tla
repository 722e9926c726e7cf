--------------------------- MODULE PesudoTaskProofs ---------------------------
(***************************************************************************)
(* Proofs about the fairness of the main loop, for any number of tasks:    *)
(* the loop serves the ready tasks in turn, whatever is created, deleted   *)
(* or resumed meanwhile, and starts no new task early.                     *)
(***************************************************************************)
EXTENDS MCPesudoOS, PesudoOSProofs

-----------------------------------------------------------------------------
(***************************************************************************)
(* Places in a list without repetitions.                                   *)
(***************************************************************************)
At(s, x) == CHOOSE i \in 1..Len(s) : s[i] = x

NoRepeats(s) == \A i, j \in 1..Len(s) : s[i] = s[j] => i = j

\* Each element of such a list has exactly one place.
LEMMA AtIs ==
    ASSUME NEW S, NEW s \in Seq(S), NoRepeats(s)
    PROVE  /\ Len(s) \in Nat
           /\ \A i \in 1..Len(s) : s[i] \in ToSet(s) /\ At(s, s[i]) = i
           /\ \A x \in ToSet(s) : At(s, x) \in 1..Len(s) /\ s[At(s, x)] = x
           /\ \A x, y \in ToSet(s) : At(s, x) = At(s, y) => x = y
<1>1. Len(s) \in Nat /\ DOMAIN s = 1..Len(s)
  BY LenProperties
<1>2. ASSUME NEW x \in ToSet(s)
      PROVE  At(s, x) \in 1..Len(s) /\ s[At(s, x)] = x
  <2>1. PICK i \in 1..Len(s) : s[i] = x
    BY <1>1, <1>2 DEF ToSet
  <2> QED BY <2>1 DEF At
<1>3. ASSUME NEW i \in 1..Len(s)
      PROVE  s[i] \in ToSet(s) /\ At(s, s[i]) = i
  <2>1. s[i] \in ToSet(s)
    BY <1>1 DEF ToSet
  <2> QED BY <1>2, <2>1 DEF NoRepeats
<1>4. \A x, y \in ToSet(s) : At(s, x) = At(s, y) => x = y
  BY <1>2
<1> QED BY <1>1, <1>2, <1>3, <1>4

\* A new element goes behind all others.
LEMMA AppendPlaces ==
    ASSUME NEW S, NEW s \in Seq(S), NoRepeats(s), NEW e \in S, e \notin ToSet(s)
    PROVE  /\ NoRepeats(Append(s, e))
           /\ \A x \in ToSet(s) : At(Append(s, e), x) = At(s, x)
           /\ Len(Append(s, e)) = Len(s) + 1
<1> DEFINE r == Append(s, e)
<1>1. /\ r \in Seq(S) /\ Len(r) = Len(s) + 1 /\ Len(s) \in Nat
      /\ \A i \in 1..Len(s) : r[i] = s[i]
      /\ r[Len(s) + 1] = e
  BY AppendProperties, LenProperties
<1>2. \A i \in 1..Len(s) : s[i] \in ToSet(s)
  BY AtIs
<1> HIDE DEF r
<1>3. NoRepeats(r)
  <2> SUFFICES ASSUME NEW i \in 1..(Len(s) + 1), NEW j \in 1..(Len(s) + 1), r[i] = r[j]
               PROVE  i = j
    BY <1>1 DEF NoRepeats
  <2>1. i \in 1..Len(s) \/ i = Len(s) + 1
    BY <1>1
  <2>2. j \in 1..Len(s) \/ j = Len(s) + 1
    BY <1>1
  <2>3. CASE i \in 1..Len(s) /\ j \in 1..Len(s)
    BY <1>1, <2>3 DEF NoRepeats
  <2>4. CASE i = Len(s) + 1 /\ j = Len(s) + 1
    BY <2>4
  <2>5. CASE (i \in 1..Len(s) /\ j = Len(s) + 1) \/ (j \in 1..Len(s) /\ i = Len(s) + 1)
    BY <1>1, <1>2, <2>5
  <2> QED BY <2>1, <2>2, <2>3, <2>4, <2>5
<1>4. ASSUME NEW x \in ToSet(s) PROVE At(r, x) = At(s, x)
  <2>1. At(s, x) \in 1..Len(s) /\ s[At(s, x)] = x
    BY AtIs
  <2>2. At(s, x) \in 1..Len(r) /\ r[At(s, x)] = x
    BY <1>1, <2>1
  <2> QED BY <1>1, <1>3, <2>2, AtIs
<1> QED BY <1>1, <1>3, <1>4 DEF r

\* Taking one element out moves those behind it one place forward.
LEMMA RemovePlaces ==
    ASSUME NEW S, NEW s \in Seq(S), NoRepeats(s), NEW e \in ToSet(s)
    PROVE  /\ NoRepeats(RemoveAt(s, At(s, e)))
           /\ Len(RemoveAt(s, At(s, e))) = Len(s) - 1
           /\ ToSet(RemoveAt(s, At(s, e))) = ToSet(s) \ {e}
           /\ \A x \in ToSet(s) \ {e} :
                 At(RemoveAt(s, At(s, e)), x) =
                    IF At(s, x) < At(s, e) THEN At(s, x) ELSE At(s, x) - 1
<1> DEFINE p == At(s, e)
           r == RemoveAt(s, p)
<1>1. p \in 1..Len(s) /\ s[p] = e /\ Len(s) \in Nat
  BY AtIs
<1> HIDE DEF p
<1>2. /\ r \in Seq(S) /\ Len(r) = Len(s) - 1
      /\ \A k \in 1..(Len(s) - 1) : r[k] = IF k < p THEN s[k] ELSE s[k + 1]
      /\ ToSet(r) \subseteq ToSet(s)
  BY <1>1, RemoveAtMoves, RemoveAtKeeps
<1>3. DOMAIN r = 1..(Len(s) - 1)
  BY <1>2, LenProperties
<1> HIDE DEF r
<1>4. NoRepeats(r)
  <2> SUFFICES ASSUME NEW i \in 1..(Len(s) - 1), NEW j \in 1..(Len(s) - 1), r[i] = r[j]
               PROVE  i = j
    BY <1>2 DEF NoRepeats
  <2> DEFINE Old(k) == IF k < p THEN k ELSE k + 1
  <2>1. Old(i) \in 1..Len(s) /\ Old(j) \in 1..Len(s)
    BY <1>1
  <2>2. r[i] = s[Old(i)] /\ r[j] = s[Old(j)]
    BY <1>2
  <2>3. Old(i) = Old(j)
    <3> HIDE DEF Old
    <3> QED BY <2>1, <2>2 DEF NoRepeats
  <2> QED BY <1>1, <2>3
<1>5. ASSUME NEW x \in ToSet(s) \ {e}
      PROVE  x \in ToSet(r) /\ At(r, x) = IF At(s, x) < p THEN At(s, x) ELSE At(s, x) - 1
  <2> DEFINE q == At(s, x)
             k == IF q < p THEN q ELSE q - 1
  <2>1. q \in 1..Len(s) /\ s[q] = x /\ q # p
    BY <1>1, AtIs
  <2> HIDE DEF q
  <2>2. k \in 1..(Len(s) - 1) /\ (IF k < p THEN k ELSE k + 1) = q
    BY <1>1, <2>1
  <2>3. r[k] = x
    <3>1. r[k] = IF k < p THEN s[k] ELSE s[k + 1]
      BY <1>2, <2>2
    <3> QED BY <2>1, <2>2, <3>1
  <2> HIDE DEF k
  <2>4. r[k] \in ToSet(r) /\ At(r, r[k]) = k
    BY <1>2, <1>4, <2>2, AtIs
  <2> QED BY <2>3, <2>4 DEF k, q
<1>6. e \notin ToSet(r)
  <2> SUFFICES ASSUME NEW k \in 1..(Len(s) - 1), r[k] = e
               PROVE  FALSE
    BY <1>3 DEF ToSet
  <2> DEFINE o == IF k < p THEN k ELSE k + 1
  <2>1. o \in 1..Len(s) /\ o # p
    BY <1>1
  <2>2. s[o] = e
    BY <1>2
  <2> HIDE DEF o
  <2> QED BY <1>1, <2>1, <2>2 DEF NoRepeats
<1>7. ToSet(r) = ToSet(s) \ {e}
  BY <1>2, <1>5, <1>6
<1> QED BY <1>2, <1>4, <1>5, <1>7 DEF r, p

-----------------------------------------------------------------------------
(***************************************************************************)
(* Where the loop goes next, and how a step moves that place.              *)
(***************************************************************************)
Cursor == IF pc = "foreach" THEN task ELSE tmp

\* the place in the list of the task that is visited next, behind the last at its end
NextStop ==
    IF pc = "drain" THEN 1
    ELSE IF Cursor = NoTask THEN Len(list) + 1 ELSE At(list, Cursor)

ListInv ==
    /\ NoRepeats(list)
    /\ \A t \in Tasks : state[t] # {} => t \in Linked

StaysPut ==
    /\ list' = list /\ NextStop' = NextStop
    /\ \A t \in Tasks : ~Starts(t)

Visits(v) ==
    /\ v \in Linked
    /\ list' = list /\ NextStop = At(list, v) /\ NextStop' = NextStop + 1
    /\ \A t \in Tasks : Starts(t) => t = v
    /\ ~StaysReady(v)

EndsPass ==
    /\ list' = list /\ NextStop = Len(list) + 1 /\ NextStop' = 1
    /\ \A t \in Tasks : ~Starts(t)

Appends(x) ==
    /\ x \notin Linked /\ list' = Append(list, x)
    /\ NextStop' = IF NextStop = Len(list) + 1 THEN Len(list) + 2 ELSE NextStop
    /\ \A t \in Tasks : ~Starts(t)

Removes(x) ==
    /\ x \in Linked /\ list' = RemoveAt(list, At(list, x))
    /\ NextStop # At(list, x)
    /\ NextStop' = IF NextStop < At(list, x) THEN NextStop ELSE NextStop - 1
    /\ state'[x] = {}
    /\ \A t \in Tasks : ~Starts(t)

\* The next place is a place in the list, or the one behind it, unless the loop was
\* left with a task that was freed.
LEMMA NextStopIs ==
    ASSUME KernelInv, ListInv, freed = NoTask \/ Cursor \in Linked
    PROVE  /\ list \in Seq(Tasks) /\ Len(list) \in Nat /\ NextStop \in 1..(Len(list) + 1)
           /\ Cursor = NoTask \/ pc = "drain" \/ Cursor \in Linked
           /\ NoTask \notin Linked
<1>1. list \in Seq(Tasks) /\ Linked \subseteq Tasks
  BY LinkedAreTasks DEF KernelInv, KernelTypeOK
<1>2. \A x \in Linked : At(list, x) \in 1..Len(list)
  BY <1>1, AtIs DEF ListInv, Linked
<1>3. Len(list) \in Nat
  BY <1>1, LenProperties
<1>4. Cursor = NoTask \/ pc = "drain" \/ Cursor \in Linked
  BY DEF Cursor, KernelInv, LoopOnLiveTasks, SuccessorLinked
<1>5. NextStop \in 1..(Len(list) + 1)
  <2>1. CASE pc = "drain"
    BY <1>3, <2>1 DEF NextStop
  <2>2. CASE pc # "drain" /\ Cursor = NoTask
    BY <1>3, <2>2 DEF NextStop
  <2>3. CASE pc # "drain" /\ Cursor # NoTask
    <3>1. NextStop = At(list, Cursor) /\ At(list, Cursor) \in 1..Len(list)
      BY <1>2, <1>4, <2>3 DEF NextStop
    <3> QED BY <1>3, <3>1
  <2> QED BY <2>1, <2>2, <2>3
<1>6. NoTask \notin Linked
  BY <1>1, TasksAssumption DEF TasksAssumption
<1> QED BY <1>1, <1>3, <1>4, <1>5, <1>6

\* A visit moves the loop on by one place, and does not leave a ready task behind.
LEMMA VisitMoves ==
    ASSUME KernelInv, ListInv, VisitNext
    PROVE  \E v \in Tasks : Visits(v)
<1>1. PICK v \in Tasks :
         \/ VisitDispatch(v)
         \/ VisitWakeup(v)
         \/ \E k \in Kinds : VisitGranted(v, k) \/ VisitTimeout(v, k)
         \/ VisitSkip(v)
  BY DEF VisitNext
<1>2. /\ Visit(v) /\ list' = list /\ pc = "foreach" /\ task = v /\ v \in Linked
      /\ tmp' = pesudoos_task_list_next(v)
      /\ (pc' = "foreach" /\ task' = tmp') \/ pc' \in {"running", "resumed"}
  BY <1>1 DEF VisitDispatch, VisitWakeup, VisitGranted, VisitTimeout, VisitSkip, Resume, GoOn, Visit
<1>3. list \in Seq(Tasks) /\ Len(list) \in Nat /\ NoTask \notin Linked
      /\ state \in [Tasks -> SUBSET Flags]
  BY <1>2, NextStopIs DEF Cursor, KernelInv, KernelTypeOK
<1>4. At(list, v) \in 1..Len(list) /\ \A i \in 1..Len(list) : list[i] \in Linked /\ At(list, list[i]) = i
  BY <1>2, <1>3, AtIs DEF ListInv, Linked
<1>5. NextStop = At(list, v)
  BY <1>2, <1>3 DEF NextStop, Cursor
<1>6. Cursor' = pesudoos_task_list_next(v) /\ pc' # "drain"
  BY <1>2 DEF Cursor
<1>7. NextStop' = At(list, v) + 1
  <2>1. pesudoos_task_list_next(v) = IF At(list, v) < Len(list) THEN list[At(list, v) + 1] ELSE NoTask
    BY DEF pesudoos_task_list_next, Pos, At
  <2>2. CASE At(list, v) < Len(list)
    <3>1. At(list, v) + 1 \in 1..Len(list)
      BY <1>3, <1>4, <2>2
    <3>2. Cursor' = list[At(list, v) + 1] /\ Cursor' # NoTask
      BY <1>3, <1>4, <1>6, <2>1, <2>2, <3>1
    <3>3. NextStop' = At(list, Cursor')
      BY <1>2, <1>6, <3>2 DEF NextStop
    <3> QED BY <1>4, <3>1, <3>2, <3>3
  <2>3. CASE ~(At(list, v) < Len(list))
    <3>1. Cursor' = NoTask
      BY <1>6, <2>1, <2>3
    <3>2. NextStop' = Len(list) + 1
      BY <1>2, <1>6, <3>1 DEF NextStop
    <3> QED BY <1>3, <1>4, <2>3, <3>2
  <2> QED BY <2>2, <2>3
<1>8. ASSUME NEW t \in Tasks, Starts(t) PROVE t = v
  <2>1. CASE VisitDispatch(v)
    BY <1>3, <1>8, <2>1 DEF VisitDispatch, Starts
  <2>2. CASE state' = state
    BY <1>8, <2>2 DEF Starts
  <2> QED BY <1>1, <2>1, <2>2 DEF VisitWakeup, VisitGranted, VisitTimeout, VisitSkip, Resume
<1>9. ~StaysReady(v)
  <2>1. CASE VisitDispatch(v)
    BY <1>3, <2>1 DEF VisitDispatch, StaysReady
  <2>2. CASE VisitWakeup(v)
    BY <2>2 DEF VisitWakeup, StaysReady
  <2>3. CASE \E k \in Kinds : VisitGranted(v, k) \/ VisitTimeout(v, k)
    <3>1. PICK k \in Kinds : BlockedFlag(k) \in state[v]
      BY <2>3 DEF VisitGranted, VisitTimeout, BlockedOn
    <3>2. BlockedFlag(k) # "READY"
      BY KindFlags
    <3> QED BY <3>1, <3>2 DEF StaysReady
  <2>4. CASE VisitSkip(v)
    BY <2>4 DEF VisitSkip, Promoted, StaysReady
  <2> QED BY <1>1, <2>1, <2>2, <2>3, <2>4
<1> QED BY <1>2, <1>5, <1>7, <1>8, <1>9 DEF Visits

\* Every other step leaves the place alone, ends the pass, or moves it with the list,
\* as long as the loop's successor is not freed.
LEMMA StepKinds ==
    ASSUME TasksAssumption, KernelInv, ListInv, KernelNext, freed = NoTask, freed' = NoTask
    PROVE  \/ StaysPut \/ EndsPass
           \/ \E v \in Tasks : Visits(v) \/ Appends(v) \/ Removes(v)
<1>1. /\ list \in Seq(Tasks) /\ Len(list) \in Nat /\ NoTask \notin Linked /\ Linked \subseteq Tasks
      /\ NextStop \in 1..(Len(list) + 1)
      /\ Cursor = NoTask \/ pc = "drain" \/ Cursor \in Linked
  BY NextStopIs, LinkedAreTasks
<1>2. ASSUME pc # "foreach" PROVE \A t \in Tasks : ~Starts(t)
  BY <1>2 DEF Starts
<1>3. ASSUME state' = state PROVE \A t \in Tasks : ~Starts(t)
  BY <1>3 DEF Starts
<1>4. CASE VisitNext
  BY <1>4, VisitMoves
<1>5. CASE Tick
  BY <1>3, <1>5 DEF Tick, StaysPut, NextStop, Cursor, loopVars
<1>6. CASE EndPass
  <2>1. list' = list /\ state' = state /\ pc = "foreach" /\ task = NoTask /\ pc' = "drain"
    BY <1>6 DEF EndPass, Reaped
  <2> QED BY <1>3, <2>1 DEF EndsPass, NextStop, Cursor
<1>10. CASE LoopAstray
  BY <1>3, <1>10 DEF LoopAstray, kernelVars, StaysPut, NextStop, Cursor, loopVars
<1>7. CASE StartPass
  <2>1. /\ list' = list /\ state' = state /\ pc = "drain" /\ pc' = "foreach"
        /\ task' = pesudoos_task_list_first
    BY <1>7 DEF StartPass
  <2>2. NextStop = 1 /\ Cursor' = pesudoos_task_list_first
    BY <2>1 DEF NextStop, Cursor
  <2>3. CASE list = <<>>
    <3>1. Cursor' = NoTask /\ Len(list) = 0
      BY <1>1, <2>2, <2>3, EmptySeq DEF pesudoos_task_list_first
    <3>2. NextStop' = Len(list) + 1
      BY <2>1, <3>1 DEF NextStop
    <3> QED BY <1>3, <2>1, <2>2, <3>1, <3>2 DEF StaysPut
  <2>4. CASE list # <<>>
    <3>1. 1 \in 1..Len(list)
      BY <1>1, <2>4, EmptySeq
    <3>2. list[1] \in Linked /\ At(list, list[1]) = 1
      BY <1>1, <3>1, AtIs DEF ListInv, Linked
    <3>3. Cursor' = list[1] /\ Cursor' # NoTask
      BY <1>1, <2>2, <2>4, <3>2 DEF pesudoos_task_list_first
    <3>4. NextStop' = At(list, list[1])
      BY <2>1, <3>3 DEF NextStop
    <3> QED BY <1>3, <2>1, <2>2, <3>2, <3>4 DEF StaysPut
  <2> QED BY <2>3, <2>4
<1>8. CASE HandlerReturns
  <2>1. pc = "running" /\ pc' = "foreach" /\ task' = tmp /\ list' = list
    BY <1>8 DEF HandlerReturns, BackInLoop, InTask
  <2> QED BY <1>2, <2>1 DEF StaysPut, NextStop, Cursor
<1>9. CASE TaskCall
  <2>1. CASE \E t \in Tasks : \E ms \in Delays \cup {0} : pesudo_task_create(t, ms)
    <3>1. PICK t \in Tasks :
             /\ t \notin Linked /\ list' = Append(list, t)
             /\ pc = "running" /\ pc' = pc /\ tmp' = tmp
      BY <2>1 DEF pesudo_task_create, Allocate, InTask, loopVars
    <3>2. Len(list') = Len(list) + 1 /\ \A x \in Linked : At(list', x) = At(list, x)
      BY <1>1, <3>1, AppendPlaces DEF ListInv, Linked
    <3>3. Cursor = tmp /\ Cursor' = tmp
      BY <3>1 DEF Cursor
    <3>4. CASE tmp = NoTask
      <4>1. NextStop = Len(list) + 1 /\ NextStop' = Len(list') + 1
        BY <3>1, <3>3, <3>4 DEF NextStop
      <4> QED BY <1>1, <1>2, <3>1, <3>2, <4>1 DEF Appends
    <3>5. CASE tmp # NoTask
      <4>1. NextStop = At(list, tmp) /\ NextStop' = At(list', tmp) /\ tmp \in Linked
        BY <1>1, <3>1, <3>3, <3>5 DEF NextStop
      <4>2. At(list, tmp) \in 1..Len(list)
        BY <1>1, <4>1, AtIs DEF ListInv, Linked
      <4>3. NextStop' = NextStop /\ NextStop # Len(list) + 1
        BY <1>1, <3>2, <4>1, <4>2
      <4> QED BY <1>2, <3>1, <4>3 DEF Appends
    <3> QED BY <3>4, <3>5
  <2>2. CASE \E t \in Tasks : pesudo_task_delete(t)
    <3>1. PICK t \in Tasks :
             /\ t \in Linked
             /\ Unlink(t) \/ MarkDelete(t)
             /\ pc = "running" /\ pc' = pc /\ tmp' = tmp
      BY <2>2 DEF pesudo_task_delete, InTask
    <3>2. Cursor = tmp /\ Cursor' = tmp
      BY <3>1 DEF Cursor
    <3>3. CASE MarkDelete(t)
      BY <1>2, <3>1, <3>2, <3>3 DEF MarkDelete, StaysPut, NextStop
    <3>4. CASE Unlink(t)
      <4>1. list' = RemoveAt(list, At(list, t)) /\ state'[t] = {} /\ t # tmp
        BY <1>1, <3>1, <3>4 DEF Unlink, Pos, At, KernelInv, KernelTypeOK
      <4>2. /\ Len(list') = Len(list) - 1
            /\ \A x \in Linked \ {t} :
                  At(list', x) = IF At(list, x) < At(list, t) THEN At(list, x) ELSE At(list, x) - 1
        BY <1>1, <3>1, <4>1, RemovePlaces DEF ListInv, Linked
      <4>3. At(list, t) \in 1..Len(list) /\ \A x \in Linked : At(list, x) = At(list, t) => x = t
        BY <1>1, <3>1, AtIs DEF ListInv, Linked
      <4>4. CASE tmp = NoTask
        <5>1. NextStop = Len(list) + 1 /\ NextStop' = Len(list') + 1
          BY <3>1, <3>2, <4>4 DEF NextStop
        <5>2. NextStop # At(list, t) /\ ~(NextStop < At(list, t)) /\ NextStop' = NextStop - 1
          BY <1>1, <4>2, <4>3, <5>1
        <5> QED BY <1>2, <3>1, <4>1, <5>2 DEF Removes
      <4>5. CASE tmp # NoTask
        <5>1. NextStop = At(list, tmp) /\ NextStop' = At(list', tmp) /\ tmp \in Linked \ {t}
          BY <1>1, <3>1, <3>2, <4>1, <4>5 DEF NextStop
        <5>2. NextStop # At(list, t)
          BY <4>3, <5>1
        <5>3. NextStop' = IF NextStop < At(list, t) THEN NextStop ELSE NextStop - 1
          BY <4>2, <5>1
        <5> QED BY <1>2, <3>1, <4>1, <5>2, <5>3 DEF Removes
      <4> QED BY <4>4, <4>5
    <3> QED BY <3>1, <3>3, <3>4
  <2>3. CASE \E t \in Tasks : pesudo_task_suspend(t) \/ pesudo_task_resume(t)
    <3>1. pc = "running" /\ UNCHANGED <<list, pc, tmp>>
      BY <2>3 DEF pesudo_task_suspend, pesudo_task_resume, InTask, loopVars
    <3> QED BY <1>2, <3>1 DEF StaysPut, NextStop, Cursor
  <2>4. CASE \E ms \in Delays : pesudo_task_sleep(ms) \/ pesudo_task_sleep_until(ms)
    <3>1. pc = "running" /\ pc' = "foreach" /\ task' = tmp /\ list' = list
      BY <2>4 DEF pesudo_task_sleep, pesudo_task_sleep_until, SleepFor, SaveContext, BackInLoop,
                  MayBlock, InTask
    <3> QED BY <1>2, <3>1 DEF StaysPut, NextStop, Cursor
  <2>5. CASE DelayEnds \/ SleepTail \/ \E ms \in Delays : SleepUntilLate(ms)
    <3>1. /\ pc \in {"running", "delay", "resumed"} /\ pc' \in {"running", "delay"}
          /\ UNCHANGED <<list, tmp>>
      BY <2>5 DEF DelayEnds, SleepTail, Resumed, LeaveCall, SleepUntilLate, MayBlock, InTask
    <3> QED BY <1>2, <3>1 DEF StaysPut, NextStop, Cursor
  <2> QED BY <1>9, <2>1, <2>2, <2>3, <2>4, <2>5 DEF TaskCall
<1> QED BY <1>4, <1>5, <1>6, <1>7, <1>8, <1>9, <1>10 DEF KernelNext, LoopStep

\* Only a visit of the loop moves on from a task that was freed.
LEMMA FreedUntilVisit ==
    ASSUME KernelNext, freed # NoTask, freed' = NoTask
    PROVE  VisitNext
<1>1. ~Tick /\ ~EndPass /\ ~LoopAstray /\ ~StartPass /\ ~HandlerReturns
  BY DEF Tick, EndPass, LoopAstray, kernelVars, StartPass, HandlerReturns, loopVars
<1>2. ~DelayEnds /\ ~SleepTail /\ \A ms \in Delays : ~SleepUntilLate(ms)
  BY DEF DelayEnds, SleepTail, SleepUntilLate
<1>3. \A ms \in Delays : ~pesudo_task_sleep(ms) /\ ~pesudo_task_sleep_until(ms)
  BY DEF pesudo_task_sleep, pesudo_task_sleep_until, SleepFor
<1>4. \A t \in Tasks : /\ ~pesudo_task_suspend(t) /\ ~pesudo_task_resume(t)
                       /\ \A ms \in Delays \cup {0} : ~pesudo_task_create(t, ms)
  BY DEF pesudo_task_suspend, pesudo_task_resume, pesudo_task_create, Allocate, loopVars
<1>5. \A t \in Tasks : ~pesudo_task_delete(t)
  <2> SUFFICES ASSUME NEW t \in Tasks, pesudo_task_delete(t)
               PROVE  FALSE
    OBVIOUS
  <2>1. t \in Tasks /\ NoTask \notin Tasks
    BY TasksAssumption DEF TasksAssumption
  <2>2. freed' = freed \/ freed' = t
    BY DEF pesudo_task_delete, Unlink, MarkDelete
  <2> QED BY <2>1, <2>2
<1> QED BY <1>1, <1>2, <1>3, <1>4, <1>5 DEF KernelNext, LoopStep, TaskCall

\* Whatever becomes of the loop, a step changes the list by one task at most.
LEMMA ListMoves ==
    ASSUME KernelNext
    PROVE  \/ list' = list
           \/ \E t \in Tasks \ Linked : list' = Append(list, t)
           \/ \E t \in Linked : list' = RemoveAt(list, At(list, t))
<1>1. CASE \E t \in Tasks : \E ms \in Delays \cup {0} : pesudo_task_create(t, ms)
  BY <1>1 DEF pesudo_task_create, Allocate
<1>2. CASE \E t \in Tasks : pesudo_task_delete(t)
  <2>1. PICK t \in Linked : Unlink(t) \/ MarkDelete(t)
    BY <1>2 DEF pesudo_task_delete
  <2> QED BY <2>1 DEF Unlink, MarkDelete, Pos, At
<1>3. CASE \E t \in Tasks : pesudo_task_suspend(t) \/ pesudo_task_resume(t)
  BY <1>3 DEF pesudo_task_suspend, pesudo_task_resume
<1>4. CASE \/ DelayEnds \/ SleepTail
           \/ \E ms \in Delays :
                 pesudo_task_sleep(ms) \/ pesudo_task_sleep_until(ms) \/ SleepUntilLate(ms)
  BY <1>4 DEF DelayEnds, SleepTail, pesudo_task_sleep, pesudo_task_sleep_until, SleepFor,
              SleepUntilLate
<1>5. CASE VisitNext
  BY <1>5 DEF VisitNext, VisitDispatch, VisitWakeup, VisitGranted, VisitTimeout, VisitSkip, Resume
<1>6. CASE Tick \/ EndPass \/ LoopAstray \/ StartPass \/ HandlerReturns
  BY <1>6 DEF Tick, EndPass, LoopAstray, kernelVars, StartPass, Reaped, HandlerReturns
<1> QED BY <1>1, <1>2, <1>3, <1>4, <1>5, <1>6 DEF KernelNext, LoopStep, TaskCall

-----------------------------------------------------------------------------
(***************************************************************************)
(* Only linked tasks have flags, and none is linked twice.                 *)
(***************************************************************************)

\* Flags are only set in linked tasks.
LEMMA FlagsAreOfLinked ==
    ASSUME TasksAssumption, KernelInv, ListInv, KernelNext, NEW u \in Tasks, state'[u] # {}
    PROVE  u \in Linked'
<1>1. /\ list \in Seq(Tasks) /\ state \in [Tasks -> SUBSET Flags]
      /\ state[u] # {} => u \in Linked
      /\ pc \in {"running", "resumed", "delay"} => current \in Linked
  BY DEF KernelInv, KernelTypeOK, LoopOnLiveTasks, ListInv
<1>2. CASE \E t \in Tasks : \E ms \in Delays \cup {0} : pesudo_task_create(t, ms)
  <2>1. PICK t \in Tasks : list' = Append(list, t) /\ state' = [state EXCEPT ![t] = {"IDLE"}]
    BY <1>2 DEF pesudo_task_create, Allocate
  <2>2. Linked' = Linked \cup {t}
    BY <1>1, <2>1, AppendAdds DEF Linked
  <2> QED BY <1>1, <2>1, <2>2
<1>3. CASE \E t \in Tasks : pesudo_task_delete(t)
  <2>1. PICK t \in Linked : Unlink(t) \/ MarkDelete(t)
    BY <1>3 DEF pesudo_task_delete
  <2>2. t \in Tasks
    BY <1>1, LinkedAreTasks
  <2>3. CASE MarkDelete(t)
    BY <1>1, <2>1, <2>2, <2>3 DEF MarkDelete, Linked
  <2>4. CASE Unlink(t)
    <3>1. u # t /\ u \in Linked
      BY <1>1, <2>2, <2>4 DEF Unlink
    <3> QED BY <1>1, <2>4, <3>1, UnlinkKeeps
  <2> QED BY <2>1, <2>3, <2>4
<1>4. CASE VisitNext
  <2>1. list' = list
    BY <1>4 DEF VisitNext, VisitDispatch, VisitWakeup, VisitGranted, VisitTimeout, VisitSkip, Resume
  <2>2. PICK t \in Linked : state' \in {state, [state EXCEPT ![t] = {"RUNNING"}]}
    BY <1>4 DEF VisitNext, VisitDispatch, VisitWakeup, VisitGranted, VisitTimeout, VisitSkip,
                Resume, Visit
  <2> QED BY <1>1, <2>1, <2>2 DEF Linked
<1>5. CASE Tick \/ EndPass \/ LoopAstray \/ StartPass
  BY <1>1, <1>5 DEF Tick, EndPass, LoopAstray, kernelVars, StartPass, Reaped, Linked
<1>6. CASE HandlerReturns
  BY <1>1, <1>6 DEF HandlerReturns, InTask, Me, Linked
<1>7. CASE \E t \in Tasks : pesudo_task_suspend(t) \/ pesudo_task_resume(t)
  BY <1>1, <1>7 DEF pesudo_task_suspend, pesudo_task_resume, Linked
<1>8. CASE \E ms \in Delays : pesudo_task_sleep(ms) \/ pesudo_task_sleep_until(ms)
  BY <1>1, <1>8 DEF pesudo_task_sleep, pesudo_task_sleep_until, SleepFor, SaveContext, MayBlock,
                    InTask, Me, Linked
<1>9. CASE DelayEnds \/ \E ms \in Delays : SleepUntilLate(ms)
  BY <1>1, <1>9 DEF DelayEnds, SleepUntilLate, Linked
<1>10. CASE SleepTail
  BY <1>1, <1>10 DEF SleepTail, LeaveCall, Resumed, Me, Linked
<1> QED BY <1>2, <1>3, <1>4, <1>5, <1>6, <1>7, <1>8, <1>9, <1>10 DEF KernelNext, LoopStep, TaskCall

\* The list keeps its shape.
LEMMA ListStep ==
    ASSUME TasksAssumption, KernelInv, ListInv, KernelNext
    PROVE  ListInv'
<1>1. list \in Seq(Tasks) /\ NoRepeats(list)
  BY DEF KernelInv, KernelTypeOK, ListInv
<1>2. NoRepeats(list')
  <2>1. CASE list' = list
    BY <1>1, <2>1
  <2>2. CASE \E t \in Tasks \ Linked : list' = Append(list, t)
    BY <1>1, <2>2, AppendPlaces DEF Linked
  <2>3. CASE \E t \in Linked : list' = RemoveAt(list, At(list, t))
    BY <1>1, <2>3, RemovePlaces DEF Linked
  <2> QED BY <2>1, <2>2, <2>3, ListMoves
<1> QED BY <1>2, FlagsAreOfLinked DEF ListInv

-----------------------------------------------------------------------------
(***************************************************************************)
(* Turns.  Going round the list from where the loop is, it comes to a      *)
(* ready task before it comes to one that has already overtaken it.        *)
(***************************************************************************)
\* from place n on and round the list, i comes before j
Earlier(n, i, j) ==
    \/ n <= i /\ i < j
    \/ i < j /\ j < n
    \/ j < n /\ n <= i

Turns ==
    \A u \in Tasks : state[u] = {"READY"} =>
        \A t \in overtakers[u] : /\ t \in Linked /\ t # u
                                 /\ Earlier(NextStop, At(list, u), At(list, t))

TurnInv ==
    /\ KernelInv
    /\ ListInv
    /\ overtakers \in [Tasks -> SUBSET Tasks]
    /\ freed # NoTask => \A u \in Tasks : overtakers[u] = {}
    /\ Turns

\* A step keeps the turns: who was overtaken before is still served first, and whoever
\* overtakes now has just had its turn.
LEMMA TurnStep ==
    ASSUME TasksAssumption, KernelInv, ListInv, Turns, KernelNext, freed' = NoTask,
           NEW u \in Tasks, StaysReady(u), freed # NoTask => overtakers[u] = {},
           NEW t \in Tasks, (t \in overtakers[u] /\ t \in Linked') \/ Starts(t)
    PROVE  t \in Linked' /\ t # u /\ Earlier(NextStop', At(list', u), At(list', t))
<1> DEFINE n == NextStop
           i == At(list, u)
           j == At(list, t)
           l == Len(list)
<1>1. /\ list \in Seq(Tasks) /\ NoRepeats(list) /\ l \in Nat /\ u \in Linked
  BY LenProperties DEF KernelInv, KernelTypeOK, ListInv, StaysReady
<1>2. /\ i \in 1..l
      /\ \A x \in Linked : At(list, x) \in 1..l
      /\ \A x, y \in Linked : At(list, x) = At(list, y) => x = y
  BY <1>1, AtIs DEF Linked
<1>3. ASSUME t \in overtakers[u]
      PROVE  t \in Linked /\ t # u /\ Earlier(n, i, j) /\ j \in 1..l
  BY <1>2, <1>3 DEF Turns, StaysReady
<1>4. t # u
  BY <1>3 DEF Starts, StaysReady
<1>10. freed = NoTask => n \in 1..(l + 1)
  BY NextStopIs
<1>11. freed # NoTask => \E v \in Tasks : Visits(v)
  BY FreedUntilVisit, VisitMoves
<1>12. freed = NoTask => \/ StaysPut \/ EndsPass
                         \/ \E v \in Tasks : Visits(v) \/ Appends(v) \/ Removes(v)
  BY StepKinds
<1> HIDE DEF n, i, j, l
<1>5. CASE StaysPut
  <2>1. t \in overtakers[u] /\ list' = list /\ NextStop' = n
    BY <1>5 DEF StaysPut, n
  <2> QED BY <1>3, <2>1 DEF i, j, Linked
<1>6. CASE EndsPass /\ freed = NoTask
  <2>1. t \in overtakers[u] /\ list' = list /\ NextStop' = 1 /\ n = l + 1
    BY <1>6 DEF EndsPass, n, l
  <2>2. Earlier(1, i, j)
    BY <1>1, <1>2, <1>3, <1>10, <1>6, <2>1 DEF Earlier
  <2> QED BY <1>3, <2>1, <2>2 DEF i, j, Linked
<1>7. ASSUME NEW v \in Tasks, Visits(v)
      PROVE  t \in Linked' /\ Earlier(NextStop', At(list', u), At(list', t))
  <2>1. /\ v \in Linked /\ list' = list /\ n = At(list, v) /\ NextStop' = n + 1
        /\ Starts(t) => t = v
        /\ v # u
    BY <1>7 DEF Visits, n
  <2>2. i # n /\ n \in 1..l
    BY <1>1, <1>2, <2>1 DEF i
  <2>3. CASE t \in overtakers[u]
    <3>1. Earlier(n + 1, i, j)
      BY <1>1, <1>2, <1>3, <2>2, <2>3 DEF Earlier
    <3> QED BY <1>3, <2>1, <2>3, <3>1 DEF i, j, Linked
  <2>4. CASE t = v
    <3>1. j = n
      BY <2>1, <2>4 DEF j
    <3>2. Earlier(n + 1, i, j)
      BY <1>1, <1>2, <2>2, <3>1 DEF Earlier
    <3> QED BY <2>1, <2>4, <3>2 DEF i, j, Linked
  <2> QED BY <2>1, <2>3, <2>4
<1>8. ASSUME NEW x \in Tasks, Appends(x), freed = NoTask
      PROVE  t \in Linked' /\ Earlier(NextStop', At(list', u), At(list', t))
  <2>1. /\ t \in overtakers[u] /\ t \in Linked' /\ x \notin Linked /\ list' = Append(list, x)
        /\ NextStop' = IF n = l + 1 THEN l + 2 ELSE n
    BY <1>8 DEF Appends, n, l
  <2>2. At(list', u) = i /\ At(list', t) = j
    BY <1>1, <1>3, <2>1, AppendPlaces DEF i, j, Linked
  <2>3. Earlier(NextStop', i, j)
    <3>1. CASE n = l + 1
      <4>1. NextStop' = l + 2
        BY <2>1, <3>1
      <4> QED BY <1>1, <1>2, <1>3, <2>1, <3>1, <4>1 DEF Earlier
    <3>2. CASE n # l + 1
      BY <1>3, <2>1, <3>2
    <3> QED BY <3>1, <3>2
  <2> QED BY <2>1, <2>2, <2>3
<1>9. ASSUME NEW x \in Tasks, Removes(x), freed = NoTask
      PROVE  t \in Linked' /\ Earlier(NextStop', At(list', u), At(list', t))
  <2> DEFINE p == At(list, x)
  <2>1. /\ t \in overtakers[u] /\ t \in Linked' /\ x \in Linked /\ list' = RemoveAt(list, p)
        /\ n # p /\ NextStop' = IF n < p THEN n ELSE n - 1
        /\ x # u
    BY <1>9 DEF Removes, n, StaysReady
  <2>2. Linked' = Linked \ {x}
    BY <1>1, <2>1, RemovePlaces DEF Linked
  <2>3. u \in Linked \ {x} /\ t \in Linked \ {x}
    BY <1>1, <1>3, <2>1, <2>2
  <2>4. /\ At(list', u) = IF i < p THEN i ELSE i - 1
        /\ At(list', t) = IF j < p THEN j ELSE j - 1
    BY <1>1, <2>1, <2>3, RemovePlaces DEF i, j, Linked
  <2>5. p \in 1..l /\ i # p /\ j # p
    BY <1>2, <2>1, <2>3 DEF i, j
  <2> DEFINE Shift(k) == IF k < p THEN k ELSE k - 1
  <2> HIDE DEF p
  <2>6. Earlier(Shift(n), Shift(i), Shift(j))
    <3>1. /\ Earlier(n, i, j) /\ n \in Nat /\ i \in Nat /\ j \in Nat /\ p \in Nat
          /\ n # p /\ i # p /\ j # p
      BY <1>1, <1>2, <1>3, <1>9, <1>10, <2>1, <2>5
    <3> QED BY <3>1 DEF Earlier
  <2> QED BY <2>1, <2>4, <2>6
<1> QED BY <1>4, <1>5, <1>6, <1>7, <1>8, <1>9, <1>11, <1>12

\* Before the loop starts nobody has been overtaken.
LEMMA TurnInitInv ==
    ASSUME TasksAssumption, MCInit
    PROVE  TurnInv
<1> USE DEF MCInit
<1>1. KernelInv
  BY InitInv
<1>2. ListInv
  <2>1. list = Boot /\ DOMAIN list = 1..Len(list)
    BY <1>1, LenProperties DEF KernelInit, KernelInv, KernelTypeOK
  <2>2. NoRepeats(list)
    BY <2>1 DEF TasksAssumption, NoRepeats
  <2>3. \A t \in Tasks : state[t] # {} => t \in Linked
    BY DEF KernelInit, Linked
  <2> QED BY <2>2, <2>3 DEF ListInv
<1>3. overtakers \in [Tasks -> SUBSET Tasks] /\ Turns /\ \A u \in Tasks : overtakers[u] = {}
  BY DEF Turns
<1> QED BY <1>1, <1>2, <1>3 DEF TurnInv

\* The steps of the run are steps of the kernel.
LEMMA StepsAreKernelSteps ==
    ASSUME MCNext
    PROVE  KernelNext
  BY DEF MCNext, KernelNext, TaskCall

\* Every step preserves TurnInv.
LEMMA TurnNextInv ==
    ASSUME TasksAssumption, TimeAssumption, TurnInv, MCNext
    PROVE  TurnInv'
<1>1. KernelNext /\ KernelInv /\ ListInv /\ Turns /\ overtakers \in [Tasks -> SUBSET Tasks]
  BY StepsAreKernelSteps DEF TurnInv
<1>2. KernelInv' /\ ListInv'
  BY <1>1, KernelNextInv, ListStep
<1>3. overtakers' = [u \in Tasks |->
            IF StaysReady(u) /\ freed' = NoTask
            THEN (overtakers[u] \cap Linked') \cup {t \in Tasks : Starts(t)}
            ELSE {}]
  BY DEF MCNext
<1>4. overtakers' \in [Tasks -> SUBSET Tasks]
  BY <1>1, <1>3
<1>5. ASSUME NEW u \in Tasks, state'[u] = {"READY"}, NEW t \in overtakers'[u]
      PROVE  t \in Linked' /\ t # u /\ Earlier(NextStop', At(list', u), At(list', t))
  <2>1. /\ StaysReady(u) /\ freed' = NoTask /\ t \in Tasks
        /\ (t \in overtakers[u] /\ t \in Linked') \/ Starts(t)
    BY <1>1, <1>3, <1>5
  <2>2. freed # NoTask => overtakers[u] = {}
    BY DEF TurnInv
  <2> QED BY <1>1, <2>1, <2>2, TurnStep
<1>6. Turns'
  BY <1>5 DEF Turns
<1>7. freed' # NoTask => \A u \in Tasks : overtakers'[u] = {}
  BY <1>3
<1> QED BY <1>2, <1>4, <1>6, <1>7 DEF TurnInv

\* So do the steps that change nothing.
LEMMA TurnStutterInv ==
    ASSUME TurnInv, UNCHANGED MCVars
    PROVE  TurnInv'
<1>1. UNCHANGED kernelVars /\ UNCHANGED <<list, state, pc, task, tmp, freed, overtakers>>
  BY DEF MCVars, kernelVars, loopVars
<1>2. KernelInv'
  BY <1>1, KernelStutterInv DEF TurnInv
<1>3. /\ ListInv' /\ Turns' /\ (overtakers \in [Tasks -> SUBSET Tasks])'
      /\ freed' # NoTask => \A u \in Tasks : overtakers'[u] = {}
  BY <1>1 DEF TurnInv, ListInv, Turns, NextStop, Cursor, Linked
<1> QED BY <1>2, <1>3 DEF TurnInv

\* TurnInv is an invariant of the loop and the tasks.
THEOREM TurnInvariant == MCSpec => []TurnInv
<1>1. MCInit => TurnInv
  BY TasksAssumption, TurnInitInv
<1>2. TurnInv /\ [MCNext]_MCVars => TurnInv'
  BY TasksAssumption, TimeAssumption, TurnNextInv, TurnStutterInv
<1> QED BY <1>1, <1>2, PTL DEF MCSpec

\* A handler is entered from its beginning by a dispatch only.
LEMMA StartIsDispatch ==
    ASSUME KernelInv, KernelNext, NEW t \in Tasks, Starts(t)
    PROVE  VisitDispatch(t)
<1>1. pc = "foreach" /\ state' # state /\ state \in [Tasks -> SUBSET Flags]
  BY DEF Starts, KernelInv, KernelTypeOK
<1>2. ~TaskCall /\ ~HandlerReturns
  BY <1>1
     DEF TaskCall, pesudo_task_create, pesudo_task_delete, pesudo_task_suspend, pesudo_task_resume,
         pesudo_task_sleep, pesudo_task_sleep_until, SleepUntilLate, MayBlock, DelayEnds, SleepTail,
         Resumed, HandlerReturns, InTask
<1>3. ~Tick /\ ~EndPass /\ ~LoopAstray /\ ~StartPass
  BY <1>1 DEF Tick, EndPass, LoopAstray, kernelVars, StartPass
<1>4. PICK v \in Tasks : VisitDispatch(v)
  BY <1>1, <1>2, <1>3 DEF KernelNext, LoopStep, VisitNext, VisitWakeup, VisitGranted, VisitTimeout,
                          VisitSkip, Resume
<1>5. v = t
  BY <1>1, <1>4 DEF Starts, VisitDispatch
<1> QED BY <1>4, <1>5

\* Round robin: a ready task lets each other task start its handler at most once before
\* its own turn, with any number of tasks, while tasks are created, deleted, resumed or
\* suspended behind and before the loop (pesudoos_run(), TAILQ_INSERT_TAIL).
THEOREM TasksTakeTurns == MCSpec => BoundedOvertaking
<1>1. ASSUME TurnInv, MCNext, NEW t \in Tasks, NEW u \in Tasks, Starts(t), StaysReady(u),
             t \in overtakers[u]
      PROVE  FALSE
  <2>1. /\ KernelInv /\ ListInv /\ Earlier(NextStop, At(list, u), At(list, t)) /\ u \in Linked
        /\ freed = NoTask
    BY <1>1 DEF TurnInv, Turns, StaysReady, ListInv
  <2>2. VisitDispatch(t)
    BY <1>1, <2>1, StepsAreKernelSteps, StartIsDispatch
  <2>3. pc = "foreach" /\ task = t /\ t \in Linked
    BY <2>2 DEF VisitDispatch, Visit
  <2>4. NextStop = At(list, t)
    BY <2>1, <2>3, NextStopIs DEF NextStop, Cursor
  <2>5. At(list, u) \in Nat /\ At(list, t) \in Nat
    BY <2>1, <2>3, AtIs, NextStopIs DEF ListInv, Linked
  <2> QED BY <2>1, <2>4, <2>5 DEF Earlier
<1>2. TurnInv /\ [MCNext]_MCVars
         => [\A t, u \in Tasks : Starts(t) /\ StaysReady(u) => t \notin overtakers[u]]_MCVars
  BY <1>1
<1> QED BY <1>2, TurnInvariant, PTL DEF MCSpec, BoundedOvertaking

-----------------------------------------------------------------------------
(***************************************************************************)
(* The first run of a task.                                                *)
(***************************************************************************)
\* As long as the 32-bit clock does not wrap, a task that has not run yet remembers
\* the tick its creator asked for.
FirstInv ==
    /\ KernelInv
    /\ start_at \in [Tasks -> Nat]
    /\ \A t \in Tasks : state[t] = {"IDLE"} => first_run_until[t] = start_at[t]

\* Only pesudo_task_create() makes an idle task, or sets when one may start.
LEMMA IdleIsOld ==
    ASSUME KernelInv, KernelNext, Linked' \subseteq Linked,
           NEW t \in Tasks, state'[t] = {"IDLE"}
    PROVE  state[t] = {"IDLE"} /\ first_run_until' = first_run_until
<1>1. state \in [Tasks -> SUBSET Flags] /\ list \in Seq(Tasks)
  BY DEF KernelInv, KernelTypeOK
<1>2. \A u \in Tasks, ms \in Delays \cup {0} : ~pesudo_task_create(u, ms)
  <2> SUFFICES ASSUME NEW u \in Tasks, NEW ms \in Delays \cup {0}, pesudo_task_create(u, ms)
               PROVE  FALSE
    OBVIOUS
  <2>1. u \notin Linked /\ list' = Append(list, u)
    BY DEF pesudo_task_create, Allocate
  <2>2. Linked' = Linked \cup {u}
    BY <1>1, <2>1, AppendAdds DEF Linked
  <2> QED BY <2>1, <2>2
<1>3. first_run_until' = first_run_until
  BY <1>2 DEF KernelNext, Tick, LoopStep, VisitNext, VisitDispatch, VisitWakeup, VisitGranted,
              VisitTimeout, VisitSkip, Resume, EndPass, LoopAstray, kernelVars, StartPass,
              HandlerReturns, TaskCall,
              pesudo_task_delete, pesudo_task_suspend, pesudo_task_resume, pesudo_task_sleep,
              pesudo_task_sleep_until, SleepFor, SleepUntilLate, DelayEnds, SleepTail, runFields
<1>4. state[t] = {"IDLE"}
  <2>1. CASE VisitNext
    <3>1. PICK u \in Tasks : state' \in {state, [state EXCEPT ![u] = {"RUNNING"}]}
      BY <2>1 DEF VisitNext, VisitDispatch, VisitWakeup, VisitGranted, VisitTimeout, VisitSkip,
                  Resume
    <3> QED BY <1>1, <3>1
  <2>2. CASE Tick \/ EndPass \/ LoopAstray \/ StartPass
    BY <2>2 DEF Tick, EndPass, LoopAstray, kernelVars, StartPass
  <2>3. CASE HandlerReturns
    BY <1>1, <2>3 DEF HandlerReturns
  <2>4. CASE \E u \in Tasks : pesudo_task_delete(u)
    BY <1>1, <2>4 DEF pesudo_task_delete, MarkDelete, Unlink
  <2>5. CASE \E u \in Tasks : pesudo_task_suspend(u) \/ pesudo_task_resume(u)
    BY <1>1, <2>5 DEF pesudo_task_suspend, pesudo_task_resume
  <2>6. CASE \E ms \in Delays : pesudo_task_sleep(ms) \/ pesudo_task_sleep_until(ms)
    <3>1. state' = [state EXCEPT ![Me] = (@ \ {"RUNNING"}) \cup {"SLEEP"}]
      BY <2>6 DEF pesudo_task_sleep, pesudo_task_sleep_until, SleepFor, SaveContext
    <3>2. CASE t = Me
      <4>1. "SLEEP" \in state'[t]
        BY <1>1, <3>1, <3>2
      <4> QED BY <4>1
    <3>3. CASE t # Me
      BY <1>1, <3>1, <3>3
    <3> QED BY <3>2, <3>3
  <2>7. CASE DelayEnds \/ \E ms \in Delays : SleepUntilLate(ms)
    BY <2>7 DEF DelayEnds, SleepUntilLate
  <2>8. CASE SleepTail
    <3>1. state' = [state EXCEPT ![Me] = (@ \ {"SLEEP"}) \cup {"RUNNING"}]
      BY <2>8 DEF SleepTail, LeaveCall
    <3>2. CASE t = Me
      <4>1. "RUNNING" \in state'[t]
        BY <1>1, <3>1, <3>2
      <4> QED BY <4>1
    <3>3. CASE t # Me
      BY <1>1, <3>1, <3>3
    <3> QED BY <3>2, <3>3
  <2> QED BY <1>2, <2>1, <2>2, <2>3, <2>4, <2>5, <2>6, <2>7, <2>8 DEF KernelNext, LoopStep, TaskCall
<1> QED BY <1>3, <1>4

\* Every step preserves FirstInv while the clock does not wrap.
LEMMA FirstNextInv ==
    ASSUME TasksAssumption, TimeAssumption, Horizon < Wrap, FirstInv, MCNext
    PROVE  FirstInv'
<1>1. /\ KernelNext /\ KernelInv /\ start_at \in [Tasks -> Nat]
      /\ now \in Nat /\ state \in [Tasks -> SUBSET Flags] /\ first_run_until \in [Tasks -> Nat]
  BY StepsAreKernelSteps DEF FirstInv, KernelInv, KernelTypeOK
<1>2. KernelInv'
  BY <1>1, KernelNextInv
<1>3. CASE \E t \in Tasks, ms \in Delays \cup {0} :
             pesudo_task_create(t, ms) /\ start_at' = [start_at EXCEPT ![t] = now + ms]
  <2>1. PICK t \in Tasks, ms \in Delays \cup {0} :
             pesudo_task_create(t, ms) /\ start_at' = [start_at EXCEPT ![t] = now + ms]
    BY <1>3
  <2>2. /\ now + ms <= Horizon
        /\ state' = [state EXCEPT ![t] = {"IDLE"}]
        /\ first_run_until' = [first_run_until EXCEPT ![t] = U32(now + ms)]
    BY <2>1 DEF pesudo_task_create, Allocate
  <2>3. ms \in Nat /\ Horizon \in Nat /\ Wrap \in Nat \ {0}
    BY DEF TimeAssumption
  <2>4. now + ms \in Nat /\ now + ms < Wrap
    BY <1>1, <2>2, <2>3
  <2>5. U32(now + ms) = now + ms
    <3>1. \A k \in Nat : k < Wrap => k % Wrap = k
      BY <2>3
    <3> QED BY <2>4, <3>1 DEF U32
  <2>6. start_at' \in [Tasks -> Nat]
    BY <1>1, <2>1, <2>4
  <2>7. ASSUME NEW u \in Tasks, state'[u] = {"IDLE"} PROVE first_run_until'[u] = start_at'[u]
    <3>1. CASE u = t
      BY <1>1, <2>1, <2>2, <2>5, <3>1
    <3>2. CASE u # t
      BY <1>1, <2>1, <2>2, <2>7, <3>2 DEF FirstInv
    <3> QED BY <3>1, <3>2
  <2> QED BY <1>2, <2>6, <2>7 DEF FirstInv
<1>4. CASE /\ Linked' \subseteq Linked
           /\ start_at' = [t \in Tasks |-> IF state'[t] = {"IDLE"} THEN start_at[t] ELSE 0]
  <2>1. start_at' \in [Tasks -> Nat]
    BY <1>1, <1>4
  <2>2. ASSUME NEW u \in Tasks, state'[u] = {"IDLE"} PROVE first_run_until'[u] = start_at'[u]
    <3>1. state[u] = {"IDLE"} /\ first_run_until' = first_run_until
      BY <1>1, <1>4, <2>2, IdleIsOld
    <3> QED BY <1>4, <2>2, <3>1 DEF FirstInv
  <2> QED BY <1>2, <2>1, <2>2 DEF FirstInv
<1> QED BY <1>3, <1>4 DEF MCNext

\* So do the steps that change nothing.
LEMMA FirstStutterInv ==
    ASSUME FirstInv, UNCHANGED MCVars
    PROVE  FirstInv'
<1>1. UNCHANGED kernelVars /\ UNCHANGED <<state, first_run_until, start_at>>
  BY DEF MCVars, kernelVars, runFields
<1> QED BY <1>1, KernelStutterInv DEF FirstInv

\* While the clock has not wrapped, no task starts before the delay given to
\* pesudo_task_create() is over. (Run first_run shows one that does when the clock wraps.)
THEOREM NoEarlyStart == Horizon < Wrap => (MCSpec => FirstRunOnTime)
<1> SUFFICES ASSUME Horizon < Wrap PROVE MCSpec => FirstRunOnTime
  OBVIOUS
<1>1. MCInit => FirstInv
  <2> SUFFICES ASSUME MCInit PROVE FirstInv
    OBVIOUS
  <2>1. KernelInv
    BY TasksAssumption, InitInv DEF MCInit
  <2>2. \A t \in Tasks : start_at[t] = 0 /\ first_run_until[t] = 0
    BY DEF MCInit, KernelInit
  <2>3. start_at \in [Tasks -> Nat]
    BY DEF MCInit
  <2> QED BY <2>1, <2>2, <2>3 DEF FirstInv
<1>2. FirstInv /\ [MCNext]_MCVars => FirstInv'
  BY TasksAssumption, TimeAssumption, FirstNextInv, FirstStutterInv
<1>3. ASSUME FirstInv, MCNext, NEW t \in Tasks, state[t] = {"IDLE"}, Starts(t)
      PROVE  start_at[t] <= now
  <2>1. VisitDispatch(t)
    BY <1>3, StepsAreKernelSteps, StartIsDispatch DEF FirstInv
  <2>2. first_run_until[t] <= now
    BY <1>3, <2>1 DEF VisitDispatch, Promoted
  <2> QED BY <1>3, <2>2 DEF FirstInv
<1>4. FirstInv /\ [MCNext]_MCVars
         => [\A t \in Tasks : state[t] = {"IDLE"} /\ Starts(t) => start_at[t] <= now]_MCVars
  BY <1>3
<1> QED BY <1>1, <1>2, <1>4, PTL DEF MCSpec, FirstRunOnTime
=============================================================================
