---------------------------- MODULE ChannelsProofs ---------------------------
(***************************************************************************)
(* Proofs about the channels between the engine and the world: the push    *)
(* path, the runner monitor, the saturation alert and the Telegram bot,    *)
(* each for every value of its constants, then MCChannels, whose           *)
(* behaviours are shown to be behaviours of all four.                      *)
(***************************************************************************)
EXTENDS MCChannels, FiniteSetTheorems, SequenceTheorems, TLAPS

-----------------------------------------------------------------------------
(* CoalescingTickRunner: any deliveries and any number of restarts.        *)

(* The variables of the push path keep their types.                        *)
THEOREM PushTypeCorrect == PushSpec => []PushTypeOK
<1>1. PushInit => PushTypeOK
  BY MaxRestartsAssumption DEF PushInit, PushTypeOK
<1>2. PushTypeOK /\ [PushNext]_pushVars => PushTypeOK'
  BY DeliveriesAssumption, MaxRestartsAssumption
     DEF PushTypeOK, PushNext, pushVars, Receive, Trigger, TickEnds,
         DashboardRestart, PollingTick, StartTick
<1>3. QED
  BY <1>1, <1>2, PTL DEF PushSpec

(* NoLostDelivery is inductive once _pending is known to be set only while *)
(* the lock is held and no more is dropped than is unseen.                 *)
PushInv ==
  /\ PushTypeOK
  /\ pending = "yes" => lock = "held"
  /\ dropped \subseteq unseen
  /\ NoLostDelivery

(* A delivery is scheduled, folded into the trailing tick, or died with    *)
(* the dashboard: the runner itself loses none.                            *)
THEOREM DeliveriesKept == PushSpec => []NoLostDelivery
<1>1. PushInit => PushInv
  BY MaxRestartsAssumption DEF PushInit, PushInv, PushTypeOK, NoLostDelivery
<1>2. PushInv /\ [PushNext]_pushVars => PushInv'
  <2> SUFFICES ASSUME PushInv, [PushNext]_pushVars PROVE PushInv'
    OBVIOUS
  <2> USE DEF PushInv, NoLostDelivery
  <2>0. PushTypeOK'
    BY DeliveriesAssumption, MaxRestartsAssumption
       DEF PushTypeOK, PushNext, pushVars, Receive, Trigger, TickEnds, DashboardRestart, PollingTick,
           StartTick
  <2>1. ASSUME NEW d \in Deliveries, Receive(d) PROVE PushInv'
    BY <2>0, <2>1 DEF Receive
  <2>2. ASSUME NEW d \in Deliveries, Trigger(d) PROVE PushInv'
    BY <2>0, <2>2 DEF Trigger, StartTick, PushTypeOK
  <2>3. CASE TickEnds
    BY <2>0, <2>3 DEF TickEnds, StartTick, PushTypeOK
  <2>4. CASE DashboardRestart
    BY <2>0, <2>4 DEF DashboardRestart
  <2>5. CASE PollingTick
    BY <2>0, <2>5 DEF PollingTick
  <2>6. CASE UNCHANGED pushVars
    BY <2>0, <2>6 DEF pushVars
  <2>7. QED
    BY <2>1, <2>2, <2>3, <2>4, <2>5, <2>6 DEF PushNext
<1>3. PushInv => NoLostDelivery
  BY DEF PushInv
<1>4. QED
  BY <1>1, <1>2, <1>3, PTL DEF PushSpec

-----------------------------------------------------------------------------
(* A scheduled task belongs to a relevant delivery that was received.      *)
BurstInv ==
  /\ PushTypeOK
  /\ tasks \subseteq received \cap Relevant
  /\ BurstsCollapse

LEMMA FiniteDeliveries ==
  ASSUME NEW S, S \subseteq Deliveries
  PROVE  IsFiniteSet(S) /\ Cardinality(S) \in Nat
BY DeliveriesAssumption, FS_Subset, FS_CardinalityType

(* The runner never drives more ticks than it received relevant            *)
(* deliveries, whatever the order in which they arrive and ticks end.      *)
THEOREM BurstsAlwaysCollapse == PushSpec => []BurstsCollapse
<1>1. PushInit => BurstInv
  BY FS_EmptySet, MaxRestartsAssumption DEF PushInit, BurstInv, PushTypeOK, BurstsCollapse, Owed
<1>2. BurstInv /\ [PushNext]_pushVars => BurstInv'
  <2> SUFFICES ASSUME BurstInv, [PushNext]_pushVars PROVE BurstInv'
    OBVIOUS
  <2>0. PushTypeOK'
    BY DeliveriesAssumption, MaxRestartsAssumption
       DEF BurstInv, PushTypeOK, PushNext, pushVars, Receive, Trigger, TickEnds, DashboardRestart,
           PollingTick, StartTick
  <2>a. /\ Cardinality(tasks) \in Nat /\ IsFiniteSet(tasks)
        /\ Cardinality(received \cap Relevant) \in Nat
        /\ IsFiniteSet(received \cap Relevant)
        /\ ticks \in Nat
    BY FiniteDeliveries DEF BurstInv, PushTypeOK
  <2>1. ASSUME NEW d \in Deliveries, Receive(d) PROVE BurstInv'
    <3>1. CASE d \in Relevant
      <4>1. received' \cap Relevant = (received \cap Relevant) \cup {d}
        BY <2>1, <3>1 DEF Receive
      <4>2. Cardinality(received' \cap Relevant)
              = Cardinality(received \cap Relevant) + 1
        BY <2>1, <2>a, <4>1, FS_AddElement DEF Receive
      <4>3. d \notin tasks
        BY <2>1 DEF Receive, BurstInv
      <4>4. Cardinality(tasks') = Cardinality(tasks) + 1
        BY <2>1, <2>a, <3>1, <4>3, FS_AddElement DEF Receive
      <4>5. QED
        BY <2>0, <2>1, <2>a, <3>1, <4>1, <4>2, <4>4
           DEF Receive, BurstInv, BurstsCollapse, Owed
    <3>2. CASE d \notin Relevant
      <4>1. received' \cap Relevant = received \cap Relevant
        BY <2>1, <3>2 DEF Receive
      <4>2. QED
        BY <2>0, <2>1, <2>a, <3>2, <4>1 DEF Receive, BurstInv, BurstsCollapse, Owed
    <3>3. QED
      BY <3>1, <3>2
  <2>2. ASSUME NEW d \in Deliveries, Trigger(d) PROVE BurstInv'
    <3>1. Cardinality(tasks') = Cardinality(tasks) - 1
      BY <2>2, <2>a, FS_RemoveElement DEF Trigger
    <3>2. QED
      BY <2>0, <2>2, <2>a, <3>1 DEF Trigger, StartTick, BurstInv, BurstsCollapse, Owed
  <2>3. CASE TickEnds
    BY <2>0, <2>3, <2>a DEF TickEnds, StartTick, BurstInv, BurstsCollapse, Owed
  <2>4. CASE DashboardRestart
    BY <2>0, <2>4, <2>a, FS_EmptySet DEF DashboardRestart, BurstInv, BurstsCollapse, Owed
  <2>5. CASE PollingTick
    BY <2>0, <2>5 DEF PollingTick, BurstInv, BurstsCollapse, Owed
  <2>6. CASE UNCHANGED pushVars
    BY <2>0, <2>6 DEF pushVars, BurstInv, BurstsCollapse, Owed
  <2>7. QED
    BY <2>1, <2>2, <2>3, <2>4, <2>5, <2>6 DEF PushNext
<1>3. BurstInv => BurstsCollapse
  BY DEF BurstInv
<1>4. QED
  BY <1>1, <1>2, <1>3, PTL DEF PushSpec

-----------------------------------------------------------------------------
(* RunnerMonitor: any scan window, threshold and number of workflow runs,  *)
(* however often requests fail and passes die.                             *)

(* A set of numbers below N has a greatest one: otherwise n |-> n + 1      *)
(* would map the numbers below its members into those of them that are not *)
(* 0, one fewer.                                                           *)
LEMMA MaxIsGreatest ==
  ASSUME NEW N \in Nat, NEW S \in SUBSET (0 .. N), S # {}
  PROVE  Max(S) \in S /\ \A x \in S : x <= Max(S)
<1> DEFINE U == {n \in 0 .. N : \E s \in S : n <= s}
           f == [n \in U |-> n + 1]
<1>1. ASSUME \A m \in S : \E x \in S : ~ (x <= m) PROVE FALSE
  <2>1. IsFiniteSet(0 .. N)
    BY FS_Interval
  <2>2. U \in SUBSET (0 .. N)
    OBVIOUS
  <2>3. IsFiniteSet(U)
    BY <2>1, <2>2, FS_Subset
  <2>4. 0 \in U
    <3>1. PICK s \in S : TRUE
      OBVIOUS
    <3>2. 0 \in 0 .. N /\ 0 <= s
      OBVIOUS
    <3>3. QED
      BY <3>1, <3>2
  <2>5. \A n \in U : n + 1 \in U \ {0}
    BY <1>1
  <2>6. f \in [U -> U \ {0}]
    BY <2>5
  <2>7. IsFiniteSet(U \ {0}) /\ Cardinality(U \ {0}) = Cardinality(U) - 1
    BY <2>3, <2>4, FS_RemoveElement
  <2>8. Cardinality(U \ {0}) < Cardinality(U)
    BY <2>3, <2>7, FS_CardinalityType
  <2>9. \A x, y \in U : f[x] = f[y] => x = y
    OBVIOUS
  <2> HIDE DEF U, f
  <2>10. \E x, y \in U : x # y /\ f[x] = f[y]
    BY <2>3, <2>6, <2>7, <2>8, FS_PigeonHole
  <2>11. QED
    BY <2>9, <2>10
<1>2. PICK m \in S : \A x \in S : x <= m
  BY <1>1
<1>3. \A x \in S : m >= x
  BY <1>2
<1>4. QED
  BY <1>3 DEF Max

(* The greatest run of a non-empty set, and of a set with the cursor.      *)
LEMMA MaxOfRuns ==
  ASSUME NEW S \in SUBSET RunIds, NEW c \in 0 .. MaxRuns
  PROVE  /\ S # {} => Max(S) \in S
         /\ Max(S \cup {c}) \in 0 .. MaxRuns
         /\ c <= Max(S \cup {c})
         /\ \A r \in S : r <= Max(S \cup {c})
<1>1. MaxRuns \in Nat
  BY RunnerBoundsAssumption
<1>2. S \in SUBSET (0 .. MaxRuns) /\ S \cup {c} \in SUBSET (0 .. MaxRuns)
  BY <1>1 DEF RunIds
<1>3. S # {} => Max(S) \in S
  BY <1>1, <1>2, MaxIsGreatest
<1>4. /\ Max(S \cup {c}) \in S \cup {c}
      /\ \A x \in S \cup {c} : x <= Max(S \cup {c})
  <2>1. S \cup {c} # {}
    OBVIOUS
  <2>2. QED
    BY <1>1, <1>2, <2>1, MaxIsGreatest
<1>5. QED
  BY <1>2, <1>3, <1>4

LEMMA OldAgeType == OldAge \in Nat \ {0}
  BY WindowAssumption, ThresholdAssumption DEF OldAge

-----------------------------------------------------------------------------
(* The variables of the monitor keep their types; the cursor stays among   *)
(* the ids of workflow runs.                                               *)
THEOREM RunnerTypeCorrect == RunnerSpec => []RunnerTypeOK
<1> USE RunnerBoundsAssumption, OldAgeType
<1>1. RunnerInit => RunnerTypeOK
  <2> SUFFICES ASSUME RunnerInit PROVE RunnerTypeOK
    OBVIOUS
  <2>1. pass = [pc |-> "probe", active |-> FALSE, transitioned |-> FALSE,
                todo |-> {}, high |-> 0]
    BY DEF RunnerInit, IdlePass
  <2>2. /\ wfs \in [RunIds -> [outcome : Outcome, trusted : BOOLEAN, age : 0 .. OldAge]]
        /\ reports \in [RunIds -> Nat]
    <3>1. [outcome |-> "none", trusted |-> TRUE, age |-> 0]
            \in [outcome : Outcome, trusted : BOOLEAN, age : 0 .. OldAge]
      BY DEF Outcome
    <3>2. QED
      BY <3>1 DEF RunnerInit
  <2>3. pass \in [pc : {"probe"}, active : BOOLEAN, transitioned : BOOLEAN,
                  todo : SUBSET RunIds, high : 0 .. MaxRuns]
    BY <2>1
  <2>4. QED
    BY <2>2, <2>3 DEF RunnerInit, RunnerTypeOK
<1>2. RunnerTypeOK /\ [RunnerNext]_runnerVars => RunnerTypeOK'
  <2> SUFFICES ASSUME RunnerTypeOK, [RunnerNext]_runnerVars
               PROVE  RunnerTypeOK'
    OBVIOUS
  <2> USE DEF RunnerTypeOK
  <2> DEFINE PassType == [pc : {"idle", "probe", "get_var", "set_var", "persist",
                                "alert", "list", "report"},
                          active : BOOLEAN, transitioned : BOOLEAN,
                          todo : SUBSET RunIds, high : 0 .. MaxRuns]
  <2>1. CASE Probe
    <3>1. PICK active \in {up, FALSE} :
            /\ IF active = up THEN NoMishap ELSE Mishap
            /\ pass' = [pass EXCEPT !.pc = "get_var", !.active = active,
                          !.transitioned = known = "unset" \/ active # (known = "active")]
      BY <2>1 DEF Probe
    <3>2. active \in BOOLEAN
          /\ (known = "unset" \/ active # (known = "active")) \in BOOLEAN
      OBVIOUS
    <3>3. mishaps' \in 0 .. MaxMishaps /\ deaths' \in 0 .. mishaps'
      BY <2>1, <3>1 DEF Probe, Mishap, NoMishap
    <3>4. pass' \in PassType
      BY <3>1, <3>2 DEF PassType
    <3>5. QED
      BY <2>1, <3>3, <3>4 DEF Probe, PassType
  <2>2. CASE GetVariable
    BY <2>2 DEF GetVariable, At, Mishap, NoMishap
  <2>3. CASE SetVariable
    BY <2>3 DEF SetVariable, At, Mishap, NoMishap, Desired
  <2>4. CASE Persist
    BY <2>4 DEF Persist, At
  <2>5. CASE Alert
    BY <2>5 DEF Alert, At
  <2>6. CASE ListRuns
    <3>1. Listed \in SUBSET RunIds
      BY DEF Listed, Started
    <3>2. Max(Listed \cup {cursor}) \in 0 .. MaxRuns
      BY <3>1, MaxOfRuns
    <3>3. {r \in Listed : r > cursor /\ _classify_run(r)} \in SUBSET RunIds
      BY <3>1
    <3>4. IdlePass \in [pc : {"idle"}, active : BOOLEAN, transitioned : BOOLEAN,
                        todo : SUBSET RunIds, high : 0 .. MaxRuns]
      BY DEF IdlePass
    <3>5. pass' \in PassType
      BY <2>6, <3>2, <3>3, <3>4 DEF ListRuns, PassType
    <3>6. mishaps' \in 0 .. MaxMishaps /\ deaths' \in 0 .. mishaps'
      BY <2>6 DEF ListRuns, Mishap, NoMishap
    <3>7. QED
      BY <2>6, <3>5, <3>6 DEF ListRuns, PassType
  <2>7. CASE Report
    <3>1. Max(pass.todo) \in RunIds
      BY <2>7, MaxOfRuns DEF Report
    <3>2. QED
      BY <2>7, <3>1 DEF Report, At
  <2>8. CASE StoreCursor
    BY <2>8 DEF StoreCursor, At, IdlePass
  <2>9. CASE Die
    BY <2>9 DEF Die, At, Mishap, IdlePass
  <2>10. CASE Elapse
    <3>1. ASSUME NEW r \in RunIds
          PROVE  [wfs[r] EXCEPT !.age = IF r \in Started /\ wfs[r].age < OldAge
                                        THEN wfs[r].age + 1 ELSE wfs[r].age]
                   \in [outcome : Outcome, trusted : BOOLEAN, age : 0 .. OldAge]
      OBVIOUS
    <3>2. wfs' \in [RunIds -> [outcome : Outcome, trusted : BOOLEAN, age : 0 .. OldAge]]
      BY <2>10, <3>1 DEF Elapse
    <3>3. QED
      BY <2>10, <3>2 DEF Elapse
  <2>11. CASE Flip
    BY <2>11 DEF Flip
  <2>12. CASE StartRun
    BY <2>12 DEF StartRun, Outcome
  <2>13. CASE EndRun
    BY <2>13 DEF EndRun, Outcome
  <2>14. CASE UNCHANGED runnerVars
    BY <2>14 DEF runnerVars
  <2>15. QED
    BY <2>1, <2>2, <2>3, <2>4, <2>5, <2>6, <2>7, <2>8, <2>9, <2>10, <2>11,
       <2>12, <2>13, <2>14 DEF RunnerNext, Pass
<1>3. QED
  BY <1>1, <1>2, PTL DEF RunnerSpec

-----------------------------------------------------------------------------
(* A run that was posted more often than a pass has died is behind the     *)
(* cursor, or the pass that posted it is still to store one that it is     *)
(* behind; what is yet to be posted was not posted so often.               *)
ReportInv ==
  /\ RunnerTypeOK
  /\ pass.pc = "report" => cursor <= pass.high
  /\ \A r \in pass.todo : r <= pass.high /\ reports[r] <= deaths
  /\ \A r \in RunIds :
       /\ reports[r] <= 1 + deaths
       /\ reports[r] > deaths =>
            r <= cursor \/ (pass.pc = "report" /\ r <= pass.high)

(* A workflow run is posted to Telegram once, and once more at most for    *)
(* each pass that died, whatever the requests do.                          *)
THEOREM RunsReportedOnce == RunnerSpec => []ReportedOnce
<1> USE RunnerBoundsAssumption DEF ReportInv
<1>1. RunnerInit /\ RunnerTypeOK => ReportInv
  BY DEF RunnerInit, IdlePass, RunIds
<1>2. ReportInv /\ RunnerTypeOK' /\ [RunnerNext]_runnerVars => ReportInv'
  <2> SUFFICES ASSUME ReportInv, RunnerTypeOK', [RunnerNext]_runnerVars
               PROVE  ReportInv'
    OBVIOUS
  <2> USE DEF RunnerTypeOK
  <2>1. CASE Probe
    BY <2>1 DEF Probe, At
  <2>2. CASE GetVariable
    BY <2>2 DEF GetVariable, At
  <2>3. CASE SetVariable
    BY <2>3 DEF SetVariable, At
  <2>4. CASE Persist
    BY <2>4 DEF Persist, At
  <2>5. CASE Alert
    BY <2>5 DEF Alert, At
  <2>6. CASE ListRuns
    <3>1. Listed \in SUBSET RunIds
      BY DEF Listed, Started
    <3>2. /\ cursor <= Max(Listed \cup {cursor})
          /\ \A r \in Listed : r <= Max(Listed \cup {cursor})
      BY <3>1, MaxOfRuns
    <3>3. CASE pass' = IdlePass
      BY <2>6, <3>3 DEF ListRuns, At, IdlePass
    <3>4. CASE pass' = [pass EXCEPT
                 !.pc = "report",
                 !.todo = {r \in Listed : r > cursor /\ _classify_run(r)},
                 !.high = Max(Listed \cup {cursor})]
      <4>1. /\ pass'.pc = "report" /\ pass'.high = Max(Listed \cup {cursor})
            /\ pass'.todo = {r \in Listed : r > cursor /\ _classify_run(r)}
        BY <3>4
      <4>2. ASSUME NEW r \in pass'.todo
            PROVE  r <= pass'.high /\ reports[r] <= deaths
        <5>1. r \in Listed /\ r \in RunIds /\ r > cursor
          BY <3>1, <4>1, <4>2
        <5>2. ~ (r <= cursor)
          BY <5>1 DEF RunIds
        <5>3. pass.pc = "list"
          BY <2>6 DEF ListRuns, At
        <5>4. ~ (reports[r] > deaths)
          BY <5>1, <5>2, <5>3
        <5>5. reports[r] \in Nat /\ deaths \in Nat
          BY <5>1 DEF RunIds
        <5>6. reports[r] <= deaths
          BY <5>4, <5>5
        <5>7. QED
          BY <3>2, <4>1, <5>1, <5>6
      <4>3. UNCHANGED <<cursor, reports, deaths>> /\ pass.pc = "list"
        BY <2>6 DEF ListRuns, At
      <4>4. \A r \in RunIds : reports[r] > deaths => r <= cursor
        BY <4>3
      <4>5. \A r \in RunIds : reports'[r] > deaths' => r <= cursor'
        BY <4>3, <4>4
      <4>6. pass'.pc = "report" => cursor' <= pass'.high
        BY <3>2, <4>1, <4>3
      <4>7. QED
        BY <4>2, <4>3, <4>5, <4>6
    <3>5. QED
      BY <2>6, <3>3, <3>4 DEF ListRuns
  <2>7. CASE Report
    <3> DEFINE m == Max(pass.todo)
    <3>1. m \in pass.todo
      BY <2>7, MaxOfRuns DEF Report
    <3>2. /\ reports' = [reports EXCEPT ![m] = reports[m] + 1]
          /\ pass'.todo = pass.todo \ {m}
          /\ pass'.high = pass.high /\ pass'.pc = pass.pc /\ pass.pc = "report"
          /\ UNCHANGED <<cursor, deaths>>
      BY <2>7 DEF Report, At
    <3>3. m \in RunIds
      BY <3>1
    <3> HIDE DEF m
    <3>4. reports'[m] = reports[m] + 1
          /\ \A r \in RunIds \ {m} : reports'[r] = reports[r]
      BY <3>2, <3>3
    <3>5. /\ reports[m] <= deaths /\ m <= pass.high
          /\ reports[m] \in Nat /\ deaths \in Nat
      BY <3>1, <3>3
    <3>6. \A r \in pass'.todo : r <= pass'.high /\ reports'[r] <= deaths'
      BY <3>2, <3>4
    <3>7. ASSUME NEW r \in RunIds
          PROVE  /\ reports'[r] <= 1 + deaths'
                 /\ reports'[r] > deaths' =>
                      r <= cursor' \/ (pass'.pc = "report" /\ r <= pass'.high)
      <4>1. CASE r = m
        BY <3>2, <3>4, <3>5, <4>1
      <4>2. CASE r # m
        BY <3>2, <3>4, <4>2
      <4>3. QED
        BY <4>1, <4>2
    <3>8. QED
      BY <3>2, <3>6, <3>7
  <2>8. CASE StoreCursor
    <3>1. /\ pass.pc = "report" /\ cursor' = pass.high
          /\ pass'.todo = {} /\ pass'.pc = "idle"
          /\ UNCHANGED <<reports, deaths>>
      BY <2>8 DEF StoreCursor, At, IdlePass
    <3>2. cursor <= pass.high /\ cursor \in Nat /\ pass.high \in Nat
      BY <3>1
    <3>3. \A r \in RunIds : reports[r] > deaths => r <= cursor'
      BY <3>1, <3>2 DEF RunIds
    <3>4. QED
      BY <3>1, <3>3
  <2>9. CASE Die
    BY <2>9 DEF Die, At, IdlePass
  <2>10. CASE Elapse
    BY <2>10 DEF Elapse, At
  <2>11. CASE Flip
    BY <2>11 DEF Flip
  <2>12. CASE StartRun
    BY <2>12 DEF StartRun
  <2>13. CASE EndRun
    BY <2>13 DEF EndRun
  <2>14. CASE UNCHANGED runnerVars
    BY <2>14 DEF runnerVars
  <2>15. QED
    BY <2>1, <2>2, <2>3, <2>4, <2>5, <2>6, <2>7, <2>8, <2>9, <2>10, <2>11,
       <2>12, <2>13, <2>14 DEF RunnerNext, Pass
<1>3. ReportInv => ReportedOnce
  BY DEF ReportedOnce
<1>4. QED
  BY <1>1, <1>2, <1>3, RunnerTypeCorrect, PTL DEF RunnerSpec

-----------------------------------------------------------------------------
(* What is reported or about to be is of an actor outside the trusted set, *)
(* or failed, as far as it was listed.                                     *)
NoLongRunReported ==
  \A r \in RunIds :
    reports[r] > 0 => ~ wfs[r].trusted \/ wfs[r].outcome = "failure"

LongRunInv ==
  /\ RunnerTypeOK
  /\ \A r \in RunIds : wfs[r].outcome = "none" => wfs[r].trusted
  /\ \A r \in pass.todo : ~ wfs[r].trusted \/ wfs[r].outcome = "failure"
  /\ NoLongRunReported

(* With a scan window no longer than the threshold for long runs (the code *)
(* has 10 and 15 minutes) a workflow run is never reported for its length: *)
(* what is old enough is not listed any more.                              *)
THEOREM LongRunsGoUnseen ==
  ASSUME Window <= Threshold
  PROVE  RunnerSpec => []NoLongRunReported
<1> USE RunnerBoundsAssumption DEF LongRunInv, NoLongRunReported
<1>1. RunnerInit /\ RunnerTypeOK => LongRunInv
  BY DEF RunnerInit, IdlePass
<1>2. LongRunInv /\ RunnerTypeOK' /\ [RunnerNext]_runnerVars => LongRunInv'
  <2> SUFFICES ASSUME LongRunInv, RunnerTypeOK', [RunnerNext]_runnerVars
               PROVE  LongRunInv'
    OBVIOUS
  <2> USE DEF RunnerTypeOK
  <2>1. CASE Probe
    BY <2>1 DEF Probe
  <2>2. CASE GetVariable
    BY <2>2 DEF GetVariable
  <2>3. CASE SetVariable
    BY <2>3 DEF SetVariable
  <2>4. CASE Persist
    BY <2>4 DEF Persist
  <2>5. CASE Alert
    BY <2>5 DEF Alert
  <2>6. CASE ListRuns
    <3>1. ASSUME NEW r \in Listed, _classify_run(r)
          PROVE  r \in RunIds /\ (~ wfs[r].trusted \/ wfs[r].outcome = "failure")
      <4>1. r \in RunIds /\ wfs[r].age <= Window
        BY DEF Listed, Started
      <4>2. ~ LongRunning(r)
        BY <4>1, WindowAssumption, ThresholdAssumption DEF LongRunning
      <4>3. QED
        BY <3>1, <4>1, <4>2 DEF _classify_run
    <3>2. \A r \in pass'.todo : r \in Listed /\ _classify_run(r)
      <4>1. CASE pass' = IdlePass
        BY <4>1 DEF IdlePass
      <4>2. CASE pass' = [pass EXCEPT
                   !.pc = "report",
                   !.todo = {r \in Listed : r > cursor /\ _classify_run(r)},
                   !.high = Max(Listed \cup {cursor})]
        <5>1. pass'.todo = {r \in Listed : r > cursor /\ _classify_run(r)}
          BY <4>2
        <5>2. QED
          BY <5>1
      <4>3. QED
        BY <2>6, <4>1, <4>2 DEF ListRuns
    <3>3. \A r \in pass'.todo : ~ wfs[r].trusted \/ wfs[r].outcome = "failure"
      BY <3>1, <3>2
    <3>4. QED
      BY <2>6, <3>3 DEF ListRuns
  <2>7. CASE Report
    <3>1. Max(pass.todo) \in pass.todo
      BY <2>7, MaxOfRuns DEF Report
    <3>2. QED
      BY <2>7, <3>1 DEF Report
  <2>8. CASE StoreCursor
    BY <2>8 DEF StoreCursor, IdlePass
  <2>9. CASE Die
    BY <2>9 DEF Die, IdlePass
  <2>10. CASE Elapse
    <3>1. \A r \in RunIds : /\ wfs'[r].trusted = wfs[r].trusted
                            /\ wfs'[r].outcome = wfs[r].outcome
      BY <2>10 DEF Elapse
    <3>2. QED
      BY <2>10, <3>1 DEF Elapse
  <2>11. CASE Flip
    BY <2>11 DEF Flip
  <2>12. CASE StartRun
    <3>1. PICK r \in RunIds, trusted \in BOOLEAN :
            /\ Started = 1 .. (r - 1)
            /\ wfs' = [wfs EXCEPT ![r] =
                  [outcome |-> "in_progress", trusted |-> trusted, age |-> 0]]
      BY <2>12 DEF StartRun
    <3>2. wfs[r].outcome = "none"
      <4>1. r \in Int /\ r \notin 1 .. (r - 1)
        BY DEF RunIds
      <4>2. r \notin Started
        BY <3>1, <4>1
      <4>3. QED
        BY <4>2 DEF Started
    <3>3. reports[r] = 0 /\ r \notin pass.todo
      BY <3>2
    <3>4. QED
      BY <2>12, <3>1, <3>3 DEF StartRun
  <2>13. CASE EndRun
    BY <2>13 DEF EndRun
  <2>14. CASE UNCHANGED runnerVars
    BY <2>14 DEF runnerVars
  <2>15. QED
    BY <2>1, <2>2, <2>3, <2>4, <2>5, <2>6, <2>7, <2>8, <2>9, <2>10, <2>11,
       <2>12, <2>13, <2>14 DEF RunnerNext, Pass
<1>3. QED
  BY <1>1, <1>2, RunnerTypeCorrect, PTL DEF RunnerSpec

-----------------------------------------------------------------------------
(* SaturationAlert: any number of overlapping ticks and of deaths.         *)

(* The ticks that posted an alert and have not recorded it yet.            *)
Recording == {t \in running : at[t] = "record"}

(* While the flag is down, each alert posted since it was last cleared is  *)
(* paid for by a tick that is about to record it or that died before.      *)
AlertInv ==
  /\ AlertTypeOK
  /\ ~ flag => posts <= Cardinality(Recording) + fallen
  /\ flag => posts <= Cardinality(running) + fallen
  /\ Cardinality(running) = 1 /\ (flag \/ Recording # {}) => posts > 0

LEMMA RecordingIsFinite ==
  ASSUME AlertTypeOK
  PROVE  /\ IsFiniteSet(running) /\ IsFiniteSet(Recording)
         /\ Cardinality(running) \in Nat /\ Cardinality(Recording) \in Nat
         /\ Cardinality(Recording) <= Cardinality(running)
<1>1. running \in SUBSET Tickers
  BY DEF AlertTypeOK
<1>2. IsFiniteSet(running)
  BY <1>1, TickersAssumption, FS_Subset
<1>3. Recording \in SUBSET running
  BY DEF Recording
<1>4. IsFiniteSet(Recording) /\ Cardinality(Recording) <= Cardinality(running)
  BY <1>2, <1>3, FS_Subset
<1>5. QED
  BY <1>2, <1>4, FS_CardinalityType

(* The variables of the alert keep their types.                            *)
LEMMA AlertTypeKept == AlertTypeOK /\ [AlertNext]_alertVars => AlertTypeOK'
<1> SUFFICES ASSUME AlertTypeOK, [AlertNext]_alertVars PROVE AlertTypeOK'
  OBVIOUS
<1> USE AlertBoundsAssumption DEF AlertTypeOK
<1>1. ASSUME NEW t \in running, Decide(t) PROVE AlertTypeOK'
  BY <1>1 DEF Decide
<1>2. ASSUME NEW t \in running, NotifySaturation(t) PROVE AlertTypeOK'
  BY <1>2 DEF NotifySaturation
<1>3. ASSUME NEW t \in running, RecordAlert(t) PROVE AlertTypeOK'
  BY <1>3 DEF RecordAlert
<1>4. ASSUME NEW t \in running, ClearAlert(t) PROVE AlertTypeOK'
  <2>1. 0 \in 0 .. MaxPosts /\ flag' \in BOOLEAN
    <3>1. 0 \in 0 .. MaxPosts
      OBVIOUS
    <3>2. flag' = FALSE
      BY <1>4, Zenon DEF ClearAlert
    <3>3. QED
      BY <3>1, <3>2
  <2>2. at' \in [Tickers -> {"idle", "notify", "record"}]
    BY <1>4 DEF ClearAlert
  <2>3. QED
    BY <1>4, <2>1, <2>2 DEF ClearAlert
<1>5. ASSUME NEW t \in running, NothingToTell(t) PROVE AlertTypeOK'
  BY <1>5 DEF NothingToTell
<1>6. ASSUME NEW t \in running, TickDies(t) PROVE AlertTypeOK'
  BY <1>6 DEF TickDies
<1>7. CASE Turn
  BY <1>7 DEF Turn
<1>8. CASE UNCHANGED alertVars
  BY <1>8 DEF alertVars
<1>9. QED
  BY <1>1, <1>2, <1>3, <1>4, <1>5, <1>6, <1>7, <1>8 DEF AlertNext, Notify

(* A lone process has one tick: one that is not about to record an alert   *)
(* leaves nobody who is.                                                   *)
LEMMA LoneTick ==
  ASSUME AlertTypeOK, NEW t \in running, at[t] # "record", Cardinality(running) = 1
  PROVE  Recording = {}
<1>1. \E x : running = {x}
  BY RecordingIsFinite, FS_Singleton
<1>2. running = {t}
  BY <1>1
<1>3. QED
  BY <1>2 DEF Recording

(* And so it is in every behaviour.                                        *)
LEMMA AlertTypeCorrect == AlertSpec => []AlertTypeOK
<1>1. AlertInit => AlertTypeOK
  <2>1. 0 \in 0 .. MaxPosts /\ 0 \in 0 .. MaxTurns /\ 0 \in 0 .. MaxDeaths
    BY AlertBoundsAssumption
  <2>2. QED
    BY <2>1, Zenon DEF AlertInit, AlertTypeOK
<1>2. QED
  BY <1>1, AlertTypeKept, PTL DEF AlertSpec

(* However ticks overlap and die, one saturation episode is announced at   *)
(* most once per process and once more per tick that died, and a lone      *)
(* process never keeps silent about one that it has not announced.         *)
THEOREM EpisodesAnnouncedOnce == AlertSpec => []OneAlertPerEpisode
<1> USE AlertBoundsAssumption
<1>1. AlertInit => AlertInv
  <2> SUFFICES ASSUME AlertInit PROVE AlertInv
    OBVIOUS
  <2>1. AlertTypeOK
    <3>1. 0 \in 0 .. MaxPosts /\ 0 \in 0 .. MaxTurns /\ 0 \in 0 .. MaxDeaths
      OBVIOUS
    <3>2. QED
      BY <3>1, Zenon DEF AlertInit, AlertTypeOK
  <2>2. Recording = {} /\ posts = 0 /\ fallen = 0 /\ ~ flag
    BY DEF AlertInit, Recording
  <2>3. QED
    BY <2>1, <2>2, RecordingIsFinite DEF AlertInv
<1>2. AlertInv /\ [AlertNext]_alertVars => AlertInv'
  <2> SUFFICES ASSUME AlertInv, [AlertNext]_alertVars PROVE AlertInv'
    OBVIOUS
  <2>1. AlertTypeOK /\ AlertTypeOK'
    BY AlertTypeKept DEF AlertInv
  <2>2. /\ IsFiniteSet(running) /\ IsFiniteSet(Recording)
        /\ Cardinality(running) \in Nat /\ Cardinality(Recording) \in Nat
        /\ Cardinality(Recording) <= Cardinality(running)
        /\ posts \in Nat /\ fallen \in Nat
    BY <2>1, RecordingIsFinite DEF AlertTypeOK
  <2>3. ASSUME NEW t \in running, Decide(t) PROVE AlertInv'
    <3>1. Recording' = Recording
      BY <2>1, <2>3 DEF Decide, Recording, AlertTypeOK
    <3>2. QED
      BY <2>1, <2>3, <3>1 DEF Decide, AlertInv
  <2>4. ASSUME NEW t \in running, NotifySaturation(t) PROVE AlertInv'
    <3>1. Recording' = Recording \cup {t} /\ t \notin Recording
      BY <2>1, <2>4 DEF NotifySaturation, Recording, AlertTypeOK
    <3>2. Cardinality(Recording') = Cardinality(Recording) + 1
      BY <2>2, <3>1, FS_AddElement
    <3>3. QED
      BY <2>1, <2>2, <2>4, <3>2 DEF NotifySaturation, AlertInv
  <2>5. ASSUME NEW t \in running, RecordAlert(t) PROVE AlertInv'
    <3>1. t \in Recording
      BY <2>5 DEF RecordAlert, Recording
    <3>2. posts <= Cardinality(running) + fallen
      BY <2>2 DEF AlertInv
    <3>3. Cardinality(running) = 1 => posts > 0
      BY <3>1 DEF AlertInv
    <3>4. QED
      BY <2>1, <2>5, <3>2, <3>3 DEF RecordAlert, AlertInv
  <2>6. ASSUME NEW t \in running, ClearAlert(t) PROVE AlertInv'
    <3>1. posts' = 0 /\ flag' = FALSE /\ running' = running /\ fallen' = fallen
      BY <2>6 DEF ClearAlert
    <3>2. Recording' = Recording
      BY <2>1, <2>6 DEF ClearAlert, Recording, AlertTypeOK
    <3>3. Cardinality(running) = 1 => Recording = {}
      BY <2>1, <2>6, LoneTick DEF ClearAlert
    <3>4. QED
      BY <2>1, <2>2, <3>1, <3>2, <3>3 DEF AlertInv
  <2>7. ASSUME NEW t \in running, NothingToTell(t) PROVE AlertInv'
    <3>1. Recording' = Recording
      BY <2>1, <2>7 DEF NothingToTell, Recording, AlertTypeOK
    <3>2. QED
      BY <2>1, <2>7, <3>1 DEF NothingToTell, AlertInv
  <2>8. ASSUME NEW t \in running, TickDies(t) PROVE AlertInv'
    <3>1. Recording' = Recording \ {t}
      BY <2>1, <2>8 DEF TickDies, Recording, AlertTypeOK
    <3>2. /\ Cardinality(Recording') >= Cardinality(Recording) - 1
          /\ Cardinality(Recording') \in Nat
      <4>1. /\ IsFiniteSet(Recording \ {t})
            /\ Cardinality(Recording \ {t}) = IF t \in Recording
                 THEN Cardinality(Recording) - 1 ELSE Cardinality(Recording)
        BY <2>2, FS_RemoveElement
      <4>2. Cardinality(Recording \ {t}) \in Nat
        BY <4>1, FS_CardinalityType
      <4>3. QED
        BY <2>2, <3>1, <4>1, <4>2
    <3>3. UNCHANGED <<running, flag, posts>> /\ fallen' = fallen + 1
      BY <2>8 DEF TickDies
    <3>4. QED
      BY <2>1, <2>2, <3>1, <3>2, <3>3 DEF AlertInv
  <2>9. CASE Turn
    BY <2>1, <2>9 DEF Turn, AlertInv, Recording
  <2>10. CASE UNCHANGED alertVars
    BY <2>1, <2>10 DEF alertVars, AlertInv, Recording
  <2>11. QED
    BY <2>3, <2>4, <2>5, <2>6, <2>7, <2>8, <2>9, <2>10 DEF AlertNext, Notify
<1>3. AlertInv => OneAlertPerEpisode
  <2> SUFFICES ASSUME AlertInv PROVE OneAlertPerEpisode
    OBVIOUS
  <2>1. posts \in Nat /\ fallen \in Nat /\ flag \in BOOLEAN
    BY DEF AlertInv, AlertTypeOK
  <2>2. Cardinality(Recording) <= Cardinality(running)
        /\ Cardinality(running) \in Nat /\ Cardinality(Recording) \in Nat
    BY RecordingIsFinite DEF AlertInv
  <2>3. posts <= Cardinality(running) + fallen
    BY <2>1, <2>2 DEF AlertInv
  <2>4. QED
    BY <2>3 DEF AlertInv, OneAlertPerEpisode
<1>4. QED
  BY <1>1, <1>2, <1>3, PTL DEF AlertSpec

-----------------------------------------------------------------------------
(* TelegramBot: any number of updates, length of an answer and of faults.  *)

(* The updates at hand are the next ones that Telegram has not forgotten,  *)
(* and the command being carried out is the one just before them.          *)
QueueInv ==
  /\ Forget + Len(updates) <= Len(sent) + 1
  /\ \A k \in 1 .. Len(updates) : updates[k] = Forget + k - 1
  /\ handling # 0 => handling \in Ours /\ handling = Forget - 1 /\ kept <= handling

(* What the bot has left behind is carried out, but for the command that   *)
(* is being carried out; Telegram forgets only what really is.             *)
ServedInv ==
  /\ NothingForgotten
  /\ \A u \in Ours : u < Forget => handled[u] > 0 \/ u = handling

(* The switch is where the last order put it, or another order is being    *)
(* carried out or to come again.                                           *)
Applied(u) == stopped = (sent[u].text = "pause")

OrderInv ==
  \/ handling \in Orders
  \/ \E v \in Orders : Forget <= v
  \/ \A u \in Orders : (\A v \in Orders : v <= u) => Applied(u)

BotInv == BotTypeOK /\ QueueInv /\ ServedInv /\ OrderInv

-----------------------------------------------------------------------------

LEMMA ForgetType ==
  ASSUME BotTypeOK
  PROVE  /\ Len(sent) \in Nat /\ Len(updates) \in Nat
         /\ Forget \in 1 .. MaxUpdates + 1
         /\ kept <= Forget /\ offset <= Forget
         /\ Ours \subseteq 1 .. Len(sent) /\ Ours \subseteq Ids
         /\ Orders \subseteq Ours
<1>1. Len(sent) \in Nat /\ Len(updates) \in Nat
  BY LenProperties DEF BotTypeOK
<1>2. QED
  BY <1>1, BotBoundsAssumption DEF BotTypeOK, Forget, Ours, Orders, Ids

LEMMA AnswerProperties ==
  ASSUME BotTypeOK, Forget <= Len(sent)
  PROVE  /\ Answer \in Seq(Ids)
         /\ Len(Answer) <= Limit
         /\ Forget + Len(Answer) <= Len(sent) + 1
         /\ \A k \in 1 .. Len(Answer) : Answer[k] = Forget + k - 1
<1> DEFINE n == IF Len(sent) - Forget + 1 < Limit THEN Len(sent) - Forget + 1 ELSE Limit
<1>1. n \in Nat /\ n <= Limit /\ Forget + n <= Len(sent) + 1
  BY ForgetType, LimitAssumption
<1>2. Answer = [k \in 1 .. n |-> Forget + k - 1]
  BY DEF Answer
<1>3. \A k \in 1 .. n : Forget + k - 1 \in Ids
  <2>1. Len(sent) <= MaxUpdates /\ MaxUpdates \in Nat
    BY BotBoundsAssumption DEF BotTypeOK
  <2>2. Forget \in Nat \ {0} /\ Len(sent) \in Nat
    BY ForgetType, BotBoundsAssumption
  <2> HIDE DEF n
  <2>3. QED
    BY <1>1, <2>1, <2>2 DEF Ids
<1> HIDE DEF n
<1>4. Answer \in [1 .. n -> Ids]
  BY <1>2, <1>3
<1>5. Answer \in Seq(Ids)
  BY <1>1, <1>4, SeqDef
<1>6. Len(Answer) = n
  BY <1>1, <1>4, <1>5, LenProperties
<1>7. QED
  BY <1>1, <1>2, <1>5, <1>6

LEMMA BotInitially == BotInit => BotInv
<1> SUFFICES ASSUME BotInit PROVE BotInv
  OBVIOUS
<1>1. BotTypeOK
  <2>1. <<>> \in Seq(Update) /\ <<>> \in Seq(Ids) /\ Len(<<>>) = 0
    BY EmptySeq
  <2>2. QED
    BY <2>1, LimitAssumption, BotBoundsAssumption DEF BotInit, BotTypeOK
<1>2. Len(sent) = 0 /\ Len(updates) = 0 /\ Forget = 1 /\ handling = 0 /\ kept = 1
  BY EmptySeq DEF BotInit, Forget
<1>3. Ours = {} /\ Orders = {}
  BY <1>2 DEF Ours, Orders
<1>4. QED
  BY <1>1, <1>2, <1>3 DEF BotInv, QueueInv, ServedInv, NothingForgotten, OrderInv

-----------------------------------------------------------------------------
(* One lemma for each action.                                              *)

LEMMA SendKeeps ==
  ASSUME BotInv, Send
  PROVE  BotInv'
<1> USE DEF BotInv
<1>1. PICK x \in Update : sent' = Append(sent, x)
  BY DEF Send
<1>2. /\ sent' \in Seq(Update) /\ Len(sent') = Len(sent) + 1
      /\ \A i \in 1 .. Len(sent) : sent'[i] = sent[i]
  BY <1>1, AppendProperties DEF BotTypeOK
<1>3. UNCHANGED <<kept, offset, updates, handling, handled, stopped, faults, Forget>>
  BY DEF Send, Forget
<1>4. BotTypeOK'
  <2>1. Len(sent') <= MaxUpdates
    BY <1>2, ForgetType, BotBoundsAssumption DEF Send
  <2>2. QED
    BY <1>2, <1>3, <2>1 DEF BotTypeOK
<1>5. /\ Ours = Ours' \cap 1 .. Len(sent) /\ Orders = Orders' \cap 1 .. Len(sent)
      /\ Ours' \subseteq 1 .. Len(sent) + 1 /\ Orders' \subseteq Ours'
  BY <1>2, ForgetType DEF Ours, Orders
<1>6. QueueInv'
  BY <1>2, <1>3, <1>5, ForgetType DEF QueueInv
<1>7. Forget <= Len(sent) + 1 /\ kept <= Len(sent) + 1
  BY ForgetType DEF QueueInv, BotTypeOK
<1>8. ServedInv'
  <2>1. ASSUME NEW u \in Ours', u < Forget \/ u < kept PROVE u \in Ours
    <3>1. u \in 1 .. Len(sent) + 1 /\ Len(sent) \in Nat
      BY <1>5, ForgetType
    <3>2. kept \in Nat /\ Forget \in Nat
      BY ForgetType, BotBoundsAssumption DEF BotTypeOK
    <3>3. u \in 1 .. Len(sent)
      BY <1>7, <2>1, <3>1, <3>2
    <3>4. QED
      BY <1>5, <3>3
  <2>2. QED
    BY <1>3, <2>1 DEF ServedInv, NothingForgotten
<1>9. OrderInv'
  <2>1. CASE Len(sent) + 1 \in Orders'
    BY <1>3, <1>7, <2>1 DEF OrderInv
  <2>2. CASE Len(sent) + 1 \notin Orders'
    <3>1. Orders' = Orders
      <4>1. \A u \in Orders' : u \in 1 .. Len(sent) + 1 /\ u # Len(sent) + 1
        BY <1>5, <2>2
      <4>2. \A u \in Orders' : u \in 1 .. Len(sent)
        BY <4>1, ForgetType
      <4>3. QED
        BY <1>5, <4>2
    <3>2. \A u \in Orders : Applied(u)' = Applied(u)
      BY <1>2, <1>3, ForgetType DEF Applied
    <3>3. QED
      BY <1>3, <3>1, <3>2 DEF OrderInv
  <2>3. QED
    BY <2>1, <2>2
<1>10. QED
  BY <1>4, <1>6, <1>8, <1>9

(* A poll acknowledges what the bot has left behind, which is carried out. *)
LEMMA PollKeeps ==
  ASSUME BotInv, Poll \/ PollFails
  PROVE  BotInv'
<1> USE DEF BotInv
<1>1. /\ handling = 0 /\ updates = <<>> /\ kept' \in {kept, Forget}
      /\ UNCHANGED <<sent, offset, handling, handled, stopped, Ours, Orders>>
  BY DEF Poll, PollFails, Waiting, Ours, Orders
<1>2. Forget' = Forget /\ kept' \in 1 .. MaxUpdates + 1
  BY <1>1, ForgetType DEF Forget, BotTypeOK
<1>3. \/ updates' = Answer /\ Forget <= Len(sent) /\ faults' = faults
      \/ updates' = updates /\ faults' \in 0 .. MaxFaults
  BY BotBoundsAssumption DEF Poll, PollFails, Fault, BotTypeOK
<1>4. BotTypeOK' /\ QueueInv'
  <2>1. CASE updates' = Answer /\ Forget <= Len(sent) /\ faults' = faults
    BY <1>1, <1>2, <2>1, AnswerProperties DEF BotTypeOK, QueueInv
  <2>2. CASE updates' = updates /\ faults' \in 0 .. MaxFaults
    BY <1>1, <1>2, <2>2 DEF BotTypeOK, QueueInv
  <2>3. QED
    BY <1>3, <2>1, <2>2
<1>5. ServedInv'
  BY <1>1, <1>2, ForgetType DEF ServedInv, NothingForgotten
<1>6. OrderInv'
  BY <1>1, <1>2 DEF OrderInv, Applied
<1>7. QED
  BY <1>4, <1>5, <1>6

LEMMA TakeKeeps ==
  ASSUME BotInv, Take
  PROVE  BotInv'
<1> USE DEF BotInv
<1> DEFINE u == Head(updates)
<1>1. /\ updates # <<>> /\ handling = 0
      /\ offset' = u + 1 /\ updates' = Tail(updates)
      /\ handling' = IF Rejected(u) THEN 0 ELSE u
      /\ UNCHANGED <<sent, kept, handled, stopped, faults, Ours, Orders>>
  BY DEF Take, Ours, Orders
<1>2. /\ Len(updates) \in Nat \ {0} /\ u \in Ids /\ u = updates[1]
      /\ Tail(updates) \in Seq(Ids) /\ Len(Tail(updates)) = Len(updates) - 1
      /\ \A k \in 1 .. Len(Tail(updates)) : Tail(updates)[k] = updates[k + 1]
  BY <1>1, EmptySeq, HeadTailProperties DEF BotTypeOK
<1>3. u = Forget /\ u <= Len(sent)
  BY <1>2, ForgetType DEF QueueInv
<1>4. ~ Rejected(u) <=> u \in Ours
  BY <1>2, <1>3, ForgetType DEF Rejected, Ours
<1> HIDE DEF u
<1>5. Forget' = u + 1
  BY <1>1, <1>3, ForgetType DEF Forget, BotTypeOK
<1>6. BotTypeOK'
  <2>1. u + 1 \in 0 .. MaxUpdates + 1 /\ handling' \in {0} \cup Ids
    BY <1>1, <1>2, BotBoundsAssumption DEF Ids
  <2>2. Len(updates') <= Limit
    BY <1>1, <1>2, LimitAssumption DEF BotTypeOK
  <2>3. QED
    BY <1>1, <1>2, <2>1, <2>2 DEF BotTypeOK
<1>7. QueueInv'
  <2>1. \A k \in 1 .. Len(updates') : updates'[k] = Forget' + k - 1
    BY <1>1, <1>2, <1>3, <1>5, ForgetType DEF QueueInv
  <2>2. Forget' + Len(updates') <= Len(sent') + 1
    BY <1>1, <1>2, <1>3, <1>5, ForgetType DEF QueueInv
  <2>3. handling' # 0 => handling' \in Ours' /\ handling' = Forget' - 1 /\ kept' <= handling'
    BY <1>1, <1>3, <1>4, <1>5, ForgetType
  <2>4. QED
    BY <2>1, <2>2, <2>3 DEF QueueInv
<1>8. ServedInv'
  <2>1. \A v \in Ours : v < u + 1 => v < Forget \/ v = u
    BY <1>3, ForgetType
  <2>2. \A v \in Ours : v < Forget => handled[v] > 0
    BY <1>1, ForgetType DEF ServedInv, Ids
  <2>3. QED
    BY <1>1, <1>4, <1>5, <2>1, <2>2 DEF ServedInv, NothingForgotten
<1>9. OrderInv'
  <2>1. CASE u \in Orders
    BY <1>1, <1>4, <2>1, ForgetType DEF OrderInv
  <2>2. CASE u \notin Orders
    <3>1. handling \notin Orders
      BY <1>1, ForgetType
    <3>2. \A v \in Orders : Forget <= v => u + 1 <= v
      BY <1>3, <2>2, ForgetType
    <3>3. \A v \in Orders : Applied(v)' = Applied(v)
      BY <1>1 DEF Applied
    <3>4. QED
      BY <1>1, <1>5, <3>1, <3>2, <3>3 DEF OrderInv
  <2>3. QED
    BY <2>1, <2>2
<1>10. QED
  BY <1>6, <1>7, <1>8, <1>9

LEMMA DispatchKeeps ==
  ASSUME BotInv, Dispatch
  PROVE  BotInv'
<1> USE DEF BotInv
<1>1. /\ handling # 0 /\ handling' = 0
      /\ handled' = [handled EXCEPT ![handling] = handled[handling] + 1]
      /\ UNCHANGED <<sent, kept, offset, updates, faults, Ours, Orders, Forget>>
  BY DEF Dispatch, Ours, Orders, Forget
<1>2. handling \in Ours /\ handling = Forget - 1 /\ handling \in Ids
  BY <1>1, ForgetType DEF QueueInv
<1>3. \/ sent[handling].text = "pause" /\ stopped' = TRUE
      \/ sent[handling].text = "resume" /\ stopped' = FALSE
      \/ sent[handling].text = "tick" /\ stopped' = stopped
  BY DEF Dispatch, _cmd_pause, _cmd_resume, _cmd_tick
<1>4. stopped' \in BOOLEAN
  BY <1>3 DEF BotTypeOK
<1>5. /\ handled' \in [Ids -> Nat] /\ handled'[handling] > 0
      /\ \A u \in Ids : handled[u] > 0 => handled'[u] > 0
  BY <1>1, <1>2 DEF BotTypeOK
<1>6. BotTypeOK'
  BY <1>1, <1>4, <1>5 DEF BotTypeOK
<1>7. QueueInv'
  BY <1>1 DEF QueueInv
<1>8. ServedInv'
  BY <1>1, <1>5, ForgetType DEF ServedInv, NothingForgotten
<1>9. OrderInv'
  <2>1. CASE handling \in Orders
    <3>1. ASSUME NEW u \in Ours, u = handling PROVE Applied(u)'
      <4> SUFFICES stopped' = (sent[u].text = "pause")
        <5>1. sent' = sent
          BY <1>1
        <5>2. QED
          BY <5>1, Zenon DEF Applied
      <4>1. CASE sent[u].text = "pause" /\ stopped' = TRUE
        BY <4>1, Zenon
      <4>2. CASE sent[u].text = "resume" /\ stopped' = FALSE
        <5>1. sent[u].text # "pause"
          BY <4>2
        <5>2. QED
          BY <4>2, <5>1, Zenon
      <4>3. CASE sent[u].text = "tick"
        BY <2>1, <3>1, <4>3 DEF Orders
      <4>4. QED
        BY <1>3, <3>1, <4>1, <4>2, <4>3
    <3>2. ASSUME \A v \in Orders : ~ (Forget <= v),
                 NEW u \in Orders, \A v \in Orders : v <= u
          PROVE  u = handling
      BY <1>2, <2>1, <3>2, ForgetType
    <3>3. (\A v \in Orders : ~ (Forget <= v)) =>
            \A u \in Orders : (\A v \in Orders : v <= u) => Applied(u)'
      BY <3>1, <3>2, ForgetType
    <3>4. QED
      BY <1>1, <3>3 DEF OrderInv
  <2>2. CASE handling \notin Orders
    <3>1. stopped' = stopped
      BY <1>2, <1>3, <2>2 DEF Orders
    <3>2. \A u \in Orders : Applied(u)' = Applied(u)
      BY <1>1, <3>1 DEF Applied
    <3>3. QED
      BY <1>1, <2>2, <3>2 DEF OrderInv
  <2>3. QED
    BY <2>1, <2>2
<1>10. QED
  BY <1>6, <1>7, <1>8, <1>9

(* A restart goes back to what Telegram keeps: the command at hand and     *)
(* those after it come again.                                              *)
LEMMA RestartKeeps ==
  ASSUME BotInv, Restart
  PROVE  BotInv'
<1> USE DEF BotInv
<1>1. /\ offset' = 0 /\ updates' = <<>> /\ handling' = 0
      /\ faults' \in 0 .. MaxFaults
      /\ UNCHANGED <<sent, kept, handled, stopped, Ours, Orders>>
  BY BotBoundsAssumption DEF Restart, Fault, Ours, Orders, BotTypeOK
<1>2. Forget' = kept
  BY <1>1 DEF Forget, BotTypeOK
<1>3. <<>> \in Seq(Ids) /\ Len(<<>>) = 0
  BY EmptySeq
<1>4. BotTypeOK'
  BY <1>1, <1>3, LimitAssumption, BotBoundsAssumption DEF BotTypeOK
<1>5. QueueInv'
  BY <1>1, <1>2, <1>3, ForgetType DEF QueueInv, BotTypeOK
<1>6. ServedInv'
  BY <1>1, <1>2 DEF ServedInv, NothingForgotten
<1>7. OrderInv'
  <2>1. CASE handling \in Orders
    <3>1. kept <= handling
      BY <2>1, ForgetType DEF QueueInv
    <3>2. QED
      BY <1>1, <1>2, <2>1, <3>1 DEF OrderInv
  <2>2. CASE \E v \in Orders : Forget <= v
    <3>1. \E v \in Orders : kept <= v
      BY <2>2, ForgetType DEF BotTypeOK
    <3>2. QED
      BY <1>1, <1>2, <3>1 DEF OrderInv
  <2>3. CASE \A u \in Orders : (\A v \in Orders : v <= u) => Applied(u)
    BY <1>1, <2>3 DEF OrderInv, Applied
  <2>4. QED
    BY <2>1, <2>2, <2>3 DEF OrderInv
<1>8. QED
  BY <1>4, <1>5, <1>6, <1>7

LEMMA BotInductive == BotSpec => []BotInv
<1>1. BotInit => BotInv
  BY BotInitially
<1>2. BotInv /\ [BotNext]_botVars => BotInv'
  <2> SUFFICES ASSUME BotInv, [BotNext]_botVars PROVE BotInv'
    OBVIOUS
  <2>1. CASE UNCHANGED botVars
    BY <2>1 DEF botVars, BotInv, BotTypeOK, QueueInv, ServedInv, NothingForgotten,
       OrderInv, Applied, Ours, Orders, Forget
  <2>2. QED
    BY <2>1, SendKeeps, PollKeeps, TakeKeeps, DispatchKeeps, RestartKeeps
       DEF BotNext, RunBot
<1>3. QED
  BY <1>1, <1>2, PTL DEF BotSpec

-----------------------------------------------------------------------------
(* The variables of the bot keep their types.                              *)
THEOREM BotTypeCorrect == BotSpec => []BotTypeOK
<1>1. BotInv => BotTypeOK
  BY DEF BotInv
<1>2. QED
  BY <1>1, BotInductive, PTL

(* However often the bot restarts, Telegram forgets no command of the      *)
(* operator that was not carried out.                                      *)
THEOREM NoCommandForgotten == BotSpec => []NothingForgotten
<1>1. BotInv => NothingForgotten
  BY DEF BotInv, ServedInv
<1>2. QED
  BY <1>1, BotInductive, PTL

(* However often commands are carried out again, a bot that has caught up  *)
(* leaves the pause switch where the operator's last command put it.       *)
THEOREM LastOrderWins == BotSpec => []LastOrderInForce
<1>1. BotInv => LastOrderInForce
  <2> SUFFICES ASSUME BotInv, Waiting, offset > Len(sent),
                      NEW u \in Orders, \A v \in Orders : v <= u
               PROVE  Applied(u)
    BY DEF LastOrderInForce, Applied
  <2>1. BotTypeOK /\ handling = 0
    BY DEF BotInv, Waiting
  <2>2. handling \notin Orders /\ \A v \in Orders : ~ (Forget <= v)
    BY <2>1, ForgetType DEF BotTypeOK
  <2>3. QED
    BY <2>2 DEF BotInv, OrderInv
<1>2. QED
  BY <1>1, BotInductive, PTL

-----------------------------------------------------------------------------
(* The composition.                                                        *)

(* The components out of focus stand still, so a behaviour of the channels *)
(* is one of each component.                                               *)
THEOREM ChannelsImplementComponents ==
  Spec => PushSpec /\ RunnerSpec /\ AlertSpec /\ BotSpec
<1>1. Init => PushInit /\ RunnerInit /\ AlertInit /\ BotInit
  BY DEF Init
<1>2. [Next]_<<pushVars, runnerVars, alertVars, botVars, focus>>
        => /\ [PushNext]_pushVars /\ [RunnerNext]_runnerVars
           /\ [AlertNext]_alertVars /\ [BotNext]_botVars
  BY DEF Next
<1>3. QED
  BY <1>1, <1>2, PTL DEF Spec, PushSpec, RunnerSpec, AlertSpec, BotSpec

(* The variables of all four keep their types.                             *)
THEOREM ChannelsTypeCorrect == FairSpec => []TypeOK
<1>1. FairSpec => Spec
  BY DEF FairSpec
<1>2. Spec => []PushTypeOK
  BY ChannelsImplementComponents, PushTypeCorrect, PTL
<1>3. Spec => []RunnerTypeOK
  BY ChannelsImplementComponents, RunnerTypeCorrect, PTL
<1>4. Spec => []AlertTypeOK
  BY ChannelsImplementComponents, AlertTypeCorrect, PTL
<1>5. Spec => []BotTypeOK
  BY ChannelsImplementComponents, BotTypeCorrect, PTL
<1>6. PushTypeOK /\ RunnerTypeOK /\ AlertTypeOK /\ BotTypeOK => TypeOK
  BY DEF TypeOK
<1>7. QED
  BY <1>1, <1>2, <1>3, <1>4, <1>5, <1>6, PTL
=============================================================================
