-------------------------- MODULE ExecutionProofs --------------------------
(***************************************************************************)
(* Proofs about Execution, for every set of opportunities, every limit and *)
(* every bound: type correctness first, then the control invariants that   *)
(* tie the simulator task to the risk counters and the confirmation map;   *)
(* then that what the pipeline reports is what happened on the chain, that *)
(* a refusal is final and what is sent is sound; and that the pipeline     *)
(* implements the one pass of OneShot.                                     *)
(***************************************************************************)
EXTENDS Execution, TLAPS

USE ExecutionAssumption, RiskLimitsAssumption

\* Rolling the day keeps the shape of the state, the failures and the slots.
LEMMA RollDayFacts ==
    ASSUME NEW s \in RiskState, NEW d \in Nat
    PROVE  /\ RollDay(s, d) \in RiskState
           /\ RollDay(s, d).fails = s.fails
           /\ RollDay(s, d).open = s.open
           /\ RollDay(s, d).day = d
  <1>1. CASE s.day = d
    BY <1>1 DEF RollDay, RiskState
  <1>2. CASE s.day # d
    <2>1. RollDay(s, d) = [s EXCEPT !.day = d, !.pnl = 0]
      BY <1>2 DEF RollDay
    <2>2. RollDay(s, d) = [day |-> d, pnl |-> 0, fails |-> s.fails, open |-> s.open]
      BY <2>1 DEF RiskState
    <2> QED  BY <2>2 DEF RiskState
  <1> QED  BY <1>1, <1>2

\* Closing keeps the shape of the state.
LEMMA CloseType ==
    ASSUME NEW s \in RiskState, NEW d \in Nat, NEW ok \in BOOLEAN, NEW v \in Int
    PROVE  CloseExecution(s, d, ok, v) \in RiskState
  <1>1. RollDay(s, d).pnl \in Int
    BY RollDayFacts DEF RiskState
  <1> QED  BY <1>1 DEF CloseExecution, RiskState

\* Closing the only execution gives its slot back, and clears the failures or
\* counts one more.
LEMMA CloseSuccess ==
    ASSUME NEW s \in RiskState, NEW d \in Nat, NEW v \in Int, s.open = 1
    PROVE  CloseExecution(s, d, TRUE, v).open = 0 /\ CloseExecution(s, d, TRUE, v).fails = 0
  BY DEF CloseExecution, RiskState

LEMMA CloseFailure ==
    ASSUME NEW s \in RiskState, NEW d \in Nat, NEW v \in Int, s.open = 1
    PROVE  /\ CloseExecution(s, d, FALSE, v).open = 0
           /\ CloseExecution(s, d, FALSE, v).fails = s.fails + 1
  BY DEF CloseExecution, RiskState

\* Opening takes one slot.
LEMMA OpenFacts ==
    ASSUME NEW s \in RiskState
    PROVE  /\ OpenExecution(s) \in RiskState
           /\ OpenExecution(s).open = s.open + 1
           /\ OpenExecution(s).fails = s.fails
  BY DEF OpenExecution, RiskState

LEMMA NoJobType == NoJob \in Jobs
  BY DEF NoJob, Jobs

LEMMA TipType == \A f \in TipFloors : Tip(f) \in Nat
  BY DEF Tip

LEMMA UsdValueType == \A n \in Int : UsdValue(n) \in Int
  BY DEF UsdValue

\* A costed route is a job.
LEMMA CostedType ==
    ASSUME NEW g \in Int, NEW f \in Int, NEW t \in TipFloors, NEW w \in Int,
           NEW a \in 0..(MaxQuoteAge + 1), NEW e \in BOOLEAN
    PROVE  Costed(g, f, t, w, a, e) \in Jobs
  BY TipType DEF Costed, Net, Jobs

\* Setting the required output or the plan keeps a job a job.
LEMMA JobUpdates ==
    ASSUME NEW j \in Jobs, NEW r \in Int
    PROVE  Requiring(j, r) \in Jobs /\ InOneTx(j) \in Jobs
  <1>1. Requiring(j, r) \in Jobs
    BY DEF Jobs, Requiring
  <1>2. InOneTx(j) \in Jobs
    BY DEF Jobs, InOneTx
  <1> QED  BY <1>1, <1>2

\* The fields of a job.
LEMMA JobFields ==
    ASSUME NEW j \in Jobs
    PROVE  /\ j.gross \in Int /\ j.floor \in Int /\ j.tip \in Nat /\ j.net \in Int
           /\ j.required \in Int /\ j.exact \in BOOLEAN
           /\ j.age \in 0..(MaxQuoteAge + 1) /\ j.simAge \in 0..(MaxSimAge + 1)
  BY DEF Jobs

\* PricedStatus and KeepSkip return statuses.
LEMMA StatusType ==
    /\ \A n, f, b : PricedStatus(n, f, b) \in Statuses
    /\ \A s \in Statuses, t \in Statuses : KeepSkip(s, t) \in Statuses
  BY DEF PricedStatus, KeepSkip, Statuses

----------------------------------------------------------------------------
(* Type correctness *)

LEMMA TypeInit == Init => TypeOK
  <1> SUFFICES ASSUME Init PROVE TypeOK
    OBVIOUS
  <1>1. PipelineType
    BY NoJobType DEF Init, PipelineType, Stages, Statuses
  <1>2. WorldType
    BY DEF Init, WorldType, NoBundle, Bundles, BundleStates
  <1>3. risk \in RiskState
    BY DEF Init, RiskDefault, RiskState
  <1>4. SettingsType /\ HistoryType
    BY DEF Init, SettingsType, HistoryType, LossPossible
  <1>5. SimulatorType
    BY DEF Init, SimulatorType, Pcs, Outcomes
  <1> QED  BY <1>1, <1>2, <1>3, <1>4, <1>5 DEF TypeOK

\* A group of variables that a step leaves alone keeps its type.
LEMMA Frames ==
    ASSUME TypeOK
    PROVE  /\ UNCHANGED settings => SettingsType'
           /\ UNCHANGED risk => (risk \in RiskState)'
           /\ UNCHANGED pipeline => PipelineType'
           /\ UNCHANGED simulator => SimulatorType'
           /\ UNCHANGED world => WorldType'
           /\ UNCHANGED history => HistoryType'
  BY DEF TypeOK, SettingsType, PipelineType, SimulatorType, WorldType, HistoryType,
         settings, pipeline, simulator, world, history

\* Ending an evaluation keeps the pipeline typed.
LEMMA FinishType ==
    ASSUME TypeOK, NEW o \in Opps, NEW s \in Statuses, Finish(o, s), queue' \in Seq(Opps)
    PROVE  PipelineType'
  BY NoJobType DEF TypeOK, PipelineType, Finish, Stages

\* Replacing one opportunity's stage, status and job by typed ones keeps the
\* pipeline typed.
LEMMA UpdateType ==
    ASSUME TypeOK, NEW o \in Opps, NEW st \in Stages, NEW s \in Statuses, NEW j \in Jobs,
           stage' = [stage EXCEPT ![o] = st],
           status' = [status EXCEPT ![o] = s],
           job' = [job EXCEPT ![o] = j],
           queue' \in Seq(Opps)
    PROVE  PipelineType'
  BY DEF TypeOK, PipelineType

\* The arithmetic of a pricing: its inputs make a job.
LEMMA PricedJobs ==
    ASSUME TypeOK, NEW o \in Opps
    PROVE  /\ \A g \in Grosses, d \in Tolerances, f \in TipFloors :
                 Costed(g, g - d, f, 0, 0, FALSE) \in Jobs
           /\ \A g \in Grosses, d \in Tolerances, f \in TipFloors :
                 Costed(g, g - d, f, 0, job[o].age, FALSE) \in Jobs
           /\ \A f \in TipFloors, w \in {0, 1}, e \in BOOLEAN :
                 Costed(job[o].gross, job[o].floor, f, w, job[o].age, e) \in Jobs
           /\ Requiring(job[o], 0) \in Jobs
           /\ InOneTx(job[o]) \in Jobs
           /\ Requiring(job[o], RequiredFinalOut(job[o])) \in Jobs
  <1>1. job[o] \in Jobs
    BY DEF TypeOK, PipelineType
  <1>2. /\ job[o].gross \in Int /\ job[o].floor \in Int /\ job[o].tip \in Nat
        /\ job[o].age \in 0..(MaxQuoteAge + 1)
    BY <1>1, JobFields
  <1>3. \A g \in Grosses, d \in Tolerances : g \in Int /\ g - d \in Int
    OBVIOUS
  <1>4. 0 \in 0..(MaxQuoteAge + 1) /\ 0 \in Int /\ 1 \in Int
    OBVIOUS
  <1>5. \A g \in Grosses, d \in Tolerances, f \in TipFloors :
           Costed(g, g - d, f, 0, 0, FALSE) \in Jobs
    BY <1>3, <1>4, CostedType
  <1>6. \A g \in Grosses, d \in Tolerances, f \in TipFloors :
           Costed(g, g - d, f, 0, job[o].age, FALSE) \in Jobs
    BY <1>2, <1>3, <1>4, CostedType
  <1>7. \A f \in TipFloors, w \in {0, 1}, e \in BOOLEAN :
           Costed(job[o].gross, job[o].floor, f, w, job[o].age, e) \in Jobs
    BY <1>2, <1>4, CostedType
  <1>8. th.minProfit \in Int
    BY DEF TypeOK, SettingsType, Thresholds
  <1>9. RequiredFinalOut(job[o]) \in Int
    BY <1>2, <1>8 DEF RequiredFinalOut
  <1>10. Requiring(job[o], 0) \in Jobs /\ InOneTx(job[o]) \in Jobs
    BY <1>1, <1>4, JobUpdates
  <1>11. Requiring(job[o], RequiredFinalOut(job[o])) \in Jobs
    BY <1>1, <1>9, JobUpdates
  <1> QED  BY <1>5, <1>6, <1>7, <1>10, <1>11

\* The steps of an evaluation task.
LEMMA TypeEvaluation ==
    ASSUME TypeOK, NEW o \in Opps, Evaluation(o)
    PROVE  TypeOK'
  <1> USE DEF pipeline
  <1>j. job[o] \in Jobs /\ status[o] \in Statuses /\ queue \in Seq(Opps)
    BY DEF TypeOK, PipelineType
  <1>f. \A s \in Statuses : Finish(o, s) /\ UNCHANGED queue => PipelineType'
    BY <1>j, FinishType
  <1>1. CASE BuildError(o)
    BY <1>1, <1>f, Frames DEF BuildError, TypeOK, Statuses
  <1>2. CASE Price(o)
    <2>1. PICK g \in Grosses, d \in Tolerances, f \in TipFloors, others \in BOOLEAN :
             /\ status' = [status EXCEPT ![o] = PricedStatus(Net(g, f, 0), f, others)]
             /\ job' = [job EXCEPT ![o] = Costed(g, g - d, f, 0, 0, FALSE)]
      BY <1>2 DEF Price
    <2>2. stage' = [stage EXCEPT ![o] = "priced"] /\ queue' = queue
      BY <1>2 DEF Price
    <2>3. PipelineType'
      BY <1>j, <2>1, <2>2, PricedJobs, StatusType DEF PipelineType, TypeOK, Stages
    <2> QED  BY <1>2, <2>3, Frames DEF Price, TypeOK
  <1>3. CASE Protect(o)
    <2>1. PipelineType /\ UNCHANGED queue
      BY <1>3 DEF Protect, TypeOK
    <2>2. \/ stage' = [stage EXCEPT ![o] = "built"]
          \/ stage' = [stage EXCEPT ![o] = "requote"]
      BY <1>3 DEF Protect
    <2>3. status' = status \/ status' = [status EXCEPT ![o] = "Skipped"]
      BY <1>3 DEF Protect
    <2>4. /\ \/ job' = job
             \/ /\ job' = [job EXCEPT ![o] = Requiring(@, RequiredFinalOut(job[o]))]
                /\ NeedsRequote(job[o], RequiredFinalOut(job[o]))
          /\ stage' \in [Opps -> Stages]
      BY <1>3, <2>1, <2>2 DEF Protect, PipelineType, Stages
    <2>5. job' \in [Opps -> Jobs]
      BY <2>1, <2>4, PricedJobs DEF PipelineType
    <2>6. status' \in [Opps -> Statuses]
      BY <2>1, <2>3 DEF PipelineType, Statuses
    <2>7. PipelineType'
      BY <2>1, <2>4, <2>5, <2>6 DEF PipelineType
    <2> QED  BY <1>3, <2>7, Frames DEF Protect, TypeOK
  <1>4. CASE Requote(o)
    <2>1. \/ \E g \in Grosses, d \in Tolerances, f \in TipFloors, others \in BOOLEAN :
               /\ status' = [status EXCEPT ![o] = PricedStatus(Net(g, f, 0), f, others)]
               /\ job' = [job EXCEPT ![o] = Costed(g, g - d, f, 0, job[o].age, FALSE)]
          \/ /\ status' = [status EXCEPT ![o] = "Skipped"]
             /\ job' = [job EXCEPT ![o] = Requiring(job[o], 0)]
      BY <1>4 DEF Requote
    <2>2. job' \in [Opps -> Jobs] /\ status' \in [Opps -> Statuses]
      <3>1. CASE \E g \in Grosses, d \in Tolerances, f \in TipFloors, others \in BOOLEAN :
                   /\ status' = [status EXCEPT ![o] = PricedStatus(Net(g, f, 0), f, others)]
                   /\ job' = [job EXCEPT ![o] = Costed(g, g - d, f, 0, job[o].age, FALSE)]
        <4>1. PICK g \in Grosses, d \in Tolerances, f \in TipFloors, others \in BOOLEAN :
                 /\ status' = [status EXCEPT ![o] = PricedStatus(Net(g, f, 0), f, others)]
                 /\ job' = [job EXCEPT ![o] = Costed(g, g - d, f, 0, job[o].age, FALSE)]
          BY <3>1
        <4>2. Costed(g, g - d, f, 0, job[o].age, FALSE) \in Jobs
          BY PricedJobs
        <4>3. PricedStatus(Net(g, f, 0), f, others) \in Statuses
          BY StatusType
        <4> QED  BY <4>1, <4>2, <4>3 DEF PipelineType, TypeOK
      <3>2. CASE /\ status' = [status EXCEPT ![o] = "Skipped"]
                 /\ job' = [job EXCEPT ![o] = Requiring(job[o], 0)]
        BY <3>2, PricedJobs DEF PipelineType, TypeOK, Statuses
      <3> QED  BY <2>1, <3>1, <3>2
    <2>3. stage' \in [Opps -> Stages] /\ queue' = queue
      BY <1>4 DEF Requote, PipelineType, TypeOK, Stages
    <2>4. PipelineType'
      BY <1>j, <2>2, <2>3 DEF PipelineType
    <2> QED  BY <1>4, <2>4, Frames DEF Requote, TypeOK
  <1>5. CASE Assemble(o)
    <2>1. CASE Finish(o, "Skipped")
      BY <1>5, <2>1, <1>f, Frames DEF Assemble, TypeOK, Statuses
    <2>2. CASE ~Finish(o, "Skipped")
      <3>1. \/ /\ job' = [job EXCEPT ![o] = InOneTx(job[o])]
               /\ UNCHANGED status
            \/ \E exact \in BOOLEAN, f \in TipFloors, others \in BOOLEAN :
                 /\ status' = [status EXCEPT ![o] =
                       KeepSkip(status[o], PricedStatus(Net(job[o].gross, f, 0), f, others))]
                 /\ job' = [job EXCEPT ![o] =
                       Costed(job[o].gross, job[o].floor, f, 0, job[o].age, exact)]
        BY <1>5, <2>2 DEF Assemble
      <3>2. job' \in [Opps -> Jobs] /\ status' \in [Opps -> Statuses]
        <4>1. CASE job' = [job EXCEPT ![o] = InOneTx(job[o])] /\ UNCHANGED status
          BY <4>1, PricedJobs DEF PipelineType, TypeOK
        <4>2. CASE \E exact \in BOOLEAN, f \in TipFloors, others \in BOOLEAN :
                     /\ status' = [status EXCEPT ![o] =
                           KeepSkip(status[o], PricedStatus(Net(job[o].gross, f, 0), f, others))]
                     /\ job' = [job EXCEPT ![o] =
                           Costed(job[o].gross, job[o].floor, f, 0, job[o].age, exact)]
          <5>1. PICK exact \in BOOLEAN, f \in TipFloors, others \in BOOLEAN :
                  /\ status' = [status EXCEPT ![o] =
                        KeepSkip(status[o], PricedStatus(Net(job[o].gross, f, 0), f, others))]
                  /\ job' = [job EXCEPT ![o] =
                        Costed(job[o].gross, job[o].floor, f, 0, job[o].age, exact)]
            BY <4>2
          <5>2. Costed(job[o].gross, job[o].floor, f, 0, job[o].age, exact) \in Jobs
            BY PricedJobs
          <5>3. KeepSkip(status[o], PricedStatus(Net(job[o].gross, f, 0), f, others)) \in Statuses
            BY <1>j, StatusType
          <5> QED  BY <5>1, <5>2, <5>3 DEF PipelineType, TypeOK
        <4> QED  BY <3>1, <4>1, <4>2
      <3>4. stage' \in [Opps -> Stages] /\ queue' = queue
        BY <1>5, <2>2 DEF Assemble, PipelineType, TypeOK, Stages
      <3>5. PipelineType'
        BY <1>j, <3>2, <3>4 DEF PipelineType
      <3> QED  BY <1>5, <3>5, Frames DEF Assemble, TypeOK
    <2> QED  BY <2>1, <2>2
  <1>6. CASE Enqueue(o)
    <2>1. PipelineType'
      BY <1>6 DEF Enqueue, PipelineType, TypeOK, Stages
    <2> QED  BY <1>6, <2>1, Frames DEF Enqueue, TypeOK
  <1>7. CASE Drop(o)
    BY <1>7, <1>f, <1>j, Frames DEF Drop, TypeOK
  <1> QED  BY <1>1, <1>2, <1>3, <1>4, <1>5, <1>6, <1>7 DEF Evaluation

\* Ending the current job keeps the pipeline and the simulator task typed.
LEMMA DoneType ==
    ASSUME TypeOK, NEW o \in Opps, NEW s \in Statuses, Done(o, s), queue' = queue
    PROVE  PipelineType' /\ pc' \in Pcs /\ cur' \in SUBSET Opps
  <1>1. PipelineType'
    BY FinishType DEF Done, TypeOK, PipelineType
  <1> QED  BY <1>1 DEF Done, Pcs

\* run_simulator's receive.
LEMMA TypeTake ==
    ASSUME TypeOK, TakeJob
    PROVE  TypeOK'
  <1>1. Head(queue) \in Opps /\ queue' \in Seq(Opps)
    BY DEF TakeJob, TypeOK, PipelineType
  <1>2. CASE Finish(Head(queue), KeepSkip(status[Head(queue)], "Skipped")) /\ UNCHANGED <<pc, cur>>
    <2>1. KeepSkip(status[Head(queue)], "Skipped") \in Statuses
      BY <1>1, StatusType DEF TypeOK, PipelineType, Statuses, KeepSkip
    <2>2. PipelineType'
      BY <1>1, <1>2, <2>1, FinishType
    <2>3. SimulatorType'
      BY <1>2 DEF TakeJob, TypeOK, SimulatorType
    <2> QED  BY <2>2, <2>3, Frames DEF TakeJob, TypeOK
  <1>3. CASE /\ stage' = [stage EXCEPT ![Head(queue)] = "sim"]
             /\ pc' = "simulate" /\ cur' = {Head(queue)}
             /\ UNCHANGED <<status, job>>
    <2>1. PipelineType'
      BY <1>1, <1>3 DEF TypeOK, PipelineType, Stages
    <2>2. SimulatorType'
      BY <1>1, <1>3 DEF TakeJob, TypeOK, SimulatorType, Pcs
    <2> QED  BY <2>1, <2>2, Frames DEF TakeJob, TypeOK
  <1> QED  BY <1>2, <1>3 DEF TakeJob

\* The steps of simulate_job and decide.
LEMMA TypeJob ==
    ASSUME TypeOK, NEW o \in Opps, Simulated(o) \/ Decide(o) \/ PaperFill(o)
    PROVE  TypeOK'
  <1>j. job[o] \in Jobs /\ status[o] \in Statuses /\ queue \in Seq(Opps)
    BY DEF TypeOK, PipelineType
  <1>r. risk \in RiskState /\ today \in Nat
    BY DEF TypeOK, WorldType
  <1>2. CASE Simulated(o)
    <2>1. PipelineType' /\ pc' \in Pcs /\ cur' \in SUBSET Opps
      <3>1. CASE \E s \in Statuses : Done(o, s)
        BY <1>2, <3>1, DoneType DEF Simulated
      <3>2. CASE ~\E s \in Statuses : Done(o, s)
        <4>2. KeepSkip(status[o], "Skipped") \in Statuses
          BY <1>j, StatusType DEF Statuses
        <4>3. PICK f \in TipFloors, worse \in {0, 1}, others \in BOOLEAN :
                LET s == KeepSkip(status[o], PricedStatus(Net(job[o].gross, f, worse), f, others))
                IN  \/ /\ s # "Quoted"
                       /\ Done(o, s)
                    \/ /\ s = "Quoted"
                       /\ pc' = "decide"
                       /\ job' = [job EXCEPT ![o] = Costed(@.gross, @.floor, f, worse, @.age, @.exact)]
                       /\ UNCHANGED <<cur, stage, status>>
          BY <1>2, <3>2, <4>2 DEF Simulated
        <4>4. KeepSkip(status[o], PricedStatus(Net(job[o].gross, f, worse), f, others)) \in Statuses
          BY <1>j, StatusType
        <4>5. /\ pc' = "decide" /\ UNCHANGED <<cur, stage, status>>
              /\ job' = [job EXCEPT ![o] =
                    Costed(job[o].gross, job[o].floor, f, worse, job[o].age, job[o].exact)]
          BY <3>2, <4>3, <4>4
        <4>6. Costed(job[o].gross, job[o].floor, f, worse, job[o].age, job[o].exact) \in Jobs
          BY <1>j, JobFields, PricedJobs
        <4> QED  BY <1>2, <4>5, <4>6 DEF Simulated, TypeOK, PipelineType, SimulatorType, Pcs
      <3> QED  BY <3>1, <3>2
    <2>2. SimulatorType'
      BY <1>2, <2>1 DEF Simulated, TypeOK, SimulatorType
    <2> QED  BY <1>2, <2>1, <2>2, Frames DEF Simulated, TypeOK
  <1>3. CASE Decide(o)
    <2>1. (risk \in RiskState)'
      BY <1>3, <1>r, RollDayFacts DEF Decide
    <2>2. PipelineType' /\ pc' \in Pcs /\ cur' \in SUBSET Opps
      <3>1. CASE Done(o, "Skipped")
        BY <1>3, <3>1, DoneType DEF Decide, Statuses
      <3>2. CASE /\ status' = [status EXCEPT ![o] = "Executable"]
                 /\ pc' = CASE mode = "Paper"   -> "paper"
                            [] mode = "Confirm" -> "register"
                            [] mode = "Live"    -> "compose"
                 /\ UNCHANGED <<cur, stage, job>>
        <4>1. PipelineType'
          BY <1>3, <3>2 DEF Decide, TypeOK, PipelineType, Statuses
        <4>2. pc' \in Pcs
          BY <3>2 DEF TypeOK, SettingsType, Pcs
        <4> QED  BY <3>2, <4>1, <4>2 DEF TypeOK, SimulatorType
      <3> QED  BY <1>3, <3>1, <3>2 DEF Decide
    <2>3. SimulatorType'
      BY <1>3, <2>2 DEF Decide, TypeOK, SimulatorType
    <2> QED  BY <1>3, <2>1, <2>2, <2>3, Frames DEF Decide, TypeOK
  <1>4. CASE PaperFill(o)
    <2>1. PICK priced \in BOOLEAN :
            risk' = CloseExecution(OpenExecution(risk), today, TRUE,
                                   IF priced THEN UsdValue(job[o].net) ELSE 0)
      BY <1>4 DEF PaperFill
    <2>2. (IF priced THEN UsdValue(job[o].net) ELSE 0) \in Int
      BY <1>j, JobFields, UsdValueType
    <2>3. (risk \in RiskState)'
      BY <1>r, <2>1, <2>2, OpenFacts, CloseType
    <2>4. PipelineType' /\ pc' \in Pcs /\ cur' \in SUBSET Opps
      BY <1>4, DoneType DEF PaperFill, Statuses
    <2>5. SimulatorType'
      BY <1>4, <2>4 DEF PaperFill, TypeOK, SimulatorType
    <2> QED  BY <1>4, <2>3, <2>4, <2>5, Frames DEF PaperFill, TypeOK
  <1> QED  BY <1>2, <1>3, <1>4

\* The steps of the operator's confirmation, and his answer.
LEMMA TypeConfirm ==
    ASSUME TypeOK, NEW o \in Opps, NEW yes \in BOOLEAN,
           RegisterConfirm(o) \/ Resolve(o, yes) \/ Answered(o) \/ Expire(o)
    PROVE  TypeOK'
  <1>1. CASE RegisterConfirm(o)
    <2>1. PipelineType'
      BY <1>1 DEF RegisterConfirm, TypeOK, PipelineType, Statuses
    <2>2. SimulatorType'
      BY <1>1 DEF RegisterConfirm, TypeOK, SimulatorType, Pcs
    <2> QED  BY <1>1, <2>1, <2>2, Frames DEF RegisterConfirm, TypeOK
  <1>2. CASE Resolve(o, yes)
    <2>1. SimulatorType'
      BY <1>2 DEF Resolve, TypeOK, SimulatorType
    <2> QED  BY <1>2, <2>1, Frames DEF Resolve, TypeOK
  <1>3. CASE Answered(o)
    <2>1. PipelineType' /\ pc' \in Pcs /\ cur' \in SUBSET Opps
      <3>1. CASE Done(o, "Declined") \/ Done(o, "Skipped")
        BY <1>3, <3>1, DoneType DEF Answered, Statuses
      <3>2. CASE pc' = "compose" /\ UNCHANGED <<cur, stage, status, job>>
        BY <1>3, <3>2 DEF Answered, TypeOK, PipelineType, SimulatorType, Pcs
      <3> QED  BY <1>3, <3>1, <3>2 DEF Answered
    <2>2. SimulatorType'
      BY <1>3, <2>1 DEF Answered, TypeOK, SimulatorType
    <2> QED  BY <1>3, <2>1, <2>2, Frames DEF Answered, TypeOK
  <1>5. CASE Expire(o)
    <2>1. PipelineType' /\ pc' \in Pcs /\ cur' \in SUBSET Opps
      BY <1>5, DoneType DEF Expire, Statuses
    <2>2. SimulatorType'
      BY <1>5, <2>1 DEF Expire, TypeOK, SimulatorType
    <2> QED  BY <1>5, <2>1, <2>2, Frames DEF Expire, TypeOK
  <1> QED  BY <1>1, <1>2, <1>3, <1>5

LEMMA TypeConfirmTimeout ==
    ASSUME TypeOK, ConfirmTimeout
    PROVE  TypeOK'
  <1>1. SimulatorType'
    BY DEF ConfirmTimeout, TypeOK, SimulatorType, Pcs
  <1> QED  BY <1>1, Frames DEF ConfirmTimeout, TypeOK

\* A step inside execute_live changes the task and, perhaps, the bundle.
LEMMA LiveStepType ==
    ASSUME TypeOK, NEW from, NEW next \in Pcs, NEW result \in Outcomes, LiveStep(from, next, result)
    PROVE  /\ SettingsType' /\ (risk \in RiskState)' /\ PipelineType' /\ SimulatorType' /\ HistoryType'
           /\ today' = today
  <1>1. SimulatorType'
    BY DEF LiveStep, TypeOK, SimulatorType
  <1> QED  BY <1>1, Frames DEF LiveStep

LEMMA QuietLiveStep ==
    ASSUME TypeOK, NEW from, NEW next \in Pcs, NEW result \in Outcomes,
           LiveStep(from, next, result), UNCHANGED bundle
    PROVE  TypeOK'
  <1>1. WorldType'
    BY LiveStepType DEF TypeOK, WorldType
  <1> QED  BY <1>1, LiveStepType DEF TypeOK

\* The places and the outcomes the steps of execute_live name.
LEMMA LivePlaces ==
    /\ {"close", "finalsim", "balance", "send", "poll", "confirmed", "post"} \subseteq Pcs
    /\ {"None", "NotSent", "Landed", "LandedUnknown", "Failed", "TimedOut"} \subseteq Outcomes
  BY DEF Pcs, LivePcs, Outcomes

\* The steps of execute_live that read nothing of the job.
LEMMA TypeLiveTask ==
    ASSUME TypeOK, FinalSim \/ PreBalance \/ PollTimeout \/ PostBalance
    PROVE  TypeOK'
  BY LivePlaces, QuietLiveStep DEF FinalSim, PreBalance, PollTimeout, PostBalance, Return

\* The steps of send_live and execute_live.
LEMMA TypeLive ==
    ASSUME TypeOK, NEW o \in Opps,
           \/ Compose(o) \/ SignLive(o) \/ SendBundle(o)
           \/ PollInflight(o) \/ PollStatus(o) \/ Close(o)
    PROVE  TypeOK'
  <1>r. /\ risk \in RiskState /\ today \in Nat /\ job[o] \in Jobs
        /\ bundle \in [Opps -> Bundles] /\ bundle[o].lo \in Int
    BY DEF TypeOK, WorldType, PipelineType, Bundles
  <1>1. CASE Compose(o)
    <2>1. CASE Done(o, "Skipped") /\ UNCHANGED risk
      <3>1. PipelineType' /\ pc' \in Pcs /\ cur' \in SUBSET Opps
        BY <1>1, <2>1, DoneType DEF Compose, Statuses
      <3>2. SimulatorType'
        BY <1>1, <3>1 DEF Compose, TypeOK, SimulatorType
      <3> QED  BY <1>1, <2>1, <3>1, <3>2, Frames DEF Compose, TypeOK
    <2>2. CASE /\ risk' = OpenExecution(risk)
               /\ status' = [status EXCEPT ![o] = "Submitted"]
               /\ pc' = "live"
               /\ UNCHANGED <<cur, stage, job>>
      <3>1. (risk \in RiskState)'
        BY <1>r, <2>2, OpenFacts
      <3>2. PipelineType'
        BY <1>1, <2>2 DEF Compose, TypeOK, PipelineType, Statuses
      <3>3. SimulatorType'
        BY <1>1, <2>2 DEF Compose, TypeOK, SimulatorType, Pcs, LivePcs
      <3> QED  BY <1>1, <3>1, <3>2, <3>3, Frames DEF Compose, TypeOK
    <2> QED  BY <1>1, <2>1, <2>2 DEF Compose
  <1>2. CASE SignLive(o)
    BY <1>2, LivePlaces, QuietLiveStep DEF SignLive, Return
  <1>5. CASE SendBundle(o)
    <2>1. CASE Return("send", "NotSent") /\ UNCHANGED bundle
      BY <2>1, LivePlaces, QuietLiveStep DEF Return
    <2>2. CASE /\ Return("send", "NotSent") \/ LiveStep("send", "poll", "None")
               /\ bundle' = [bundle EXCEPT ![o] =
                      [state |-> "flying", lo |-> job[o].floor - job[o].tip,
                       hi |-> job[o].gross - job[o].tip, day |-> today]]
      <3>1. /\ SettingsType' /\ (risk \in RiskState)' /\ PipelineType' /\ SimulatorType' /\ HistoryType'
            /\ today' = today
        BY <2>2, LivePlaces, LiveStepType DEF Return
      <3>2. job[o].floor - job[o].tip \in Int /\ job[o].gross - job[o].tip \in Int
        BY <1>r, JobFields
      <3>3. [state |-> "flying", lo |-> job[o].floor - job[o].tip,
             hi |-> job[o].gross - job[o].tip, day |-> today] \in Bundles
        BY <1>r, <3>2 DEF Bundles, BundleStates
      <3>4. WorldType'
        BY <1>r, <2>2, <3>1, <3>3 DEF WorldType
      <3> QED  BY <3>1, <3>4 DEF TypeOK
    <2> QED  BY <1>5, <2>1, <2>2 DEF SendBundle
  <1>6. CASE PollInflight(o)
    BY <1>6, LivePlaces, QuietLiveStep DEF PollInflight, Return
  <1>7. CASE PollStatus(o)
    BY <1>7, LivePlaces, QuietLiveStep DEF PollStatus, Return
  <1>10. CASE Close(o)
    <2> DEFINE success == outcome \in {"Landed", "LandedUnknown"}
               net == IF outcome = "Landed" THEN bundle[o].lo ELSE 0
    <2>1. PICK priced \in BOOLEAN :
            risk' = CloseExecution(risk, today, success, IF priced THEN UsdValue(net) ELSE 0)
      BY <1>10 DEF Close
    <2>2. (IF priced THEN UsdValue(net) ELSE 0) \in Int /\ success \in BOOLEAN
      BY <1>r, UsdValueType
    <2>3. (risk \in RiskState)'
      BY <1>r, <2>1, <2>2, CloseType
    <2>4. PipelineType' /\ pc' \in Pcs /\ cur' \in SUBSET Opps
      BY <1>10, DoneType DEF Close, Statuses
    <2>5. SimulatorType'
      BY <1>10, <2>4 DEF Close, TypeOK, SimulatorType, Outcomes
    <2> QED  BY <1>10, <2>3, <2>4, <2>5, Frames DEF Close, TypeOK
  <1> QED  BY <1>1, <1>2, <1>5, <1>6, <1>7, <1>10

\* What the operator does besides answering, and what the world does.
LEMMA TypeOthers ==
    ASSUME TypeOK,
           \/ KillSwitch \/ Restart \/ World
           \/ \E t \in Thresholds, allow \in BOOLEAN : SetThresholds(t, allow)
    PROVE  TypeOK'
  <1>1. CASE KillSwitch
    <2>1. SettingsType'
      BY <1>1 DEF KillSwitch, TypeOK, SettingsType
    <2> QED  BY <1>1, <2>1, Frames DEF KillSwitch, TypeOK
  <1>2. CASE Restart
    <2>1. SettingsType'
      BY <1>2 DEF Restart, TypeOK, SettingsType
    <2>2. HistoryType'
      BY <1>2 DEF Restart, TypeOK, HistoryType, LossPossible
    <2>3. (risk \in RiskState)'
      BY <1>2 DEF Restart, TypeOK, WorldType, RiskDefault, RiskState
    <2>4. PipelineType'
      BY <1>2, NoJobType DEF Restart, TypeOK, PipelineType, Stages
    <2>5. SimulatorType'
      BY <1>2 DEF Restart, SimulatorType, Pcs, Outcomes
    <2> QED  BY <1>2, <2>1, <2>2, <2>3, <2>4, <2>5, Frames DEF Restart, TypeOK
  <1>3. ASSUME NEW t \in Thresholds, NEW allow \in BOOLEAN, SetThresholds(t, allow)
        PROVE  TypeOK'
    <2>1. SettingsType'
      BY <1>3 DEF SetThresholds, TypeOK, SettingsType
    <2>2. HistoryType'
      BY <1>3 DEF SetThresholds, TypeOK, HistoryType, LossPossible
    <2> QED  BY <1>3, <2>1, <2>2, Frames DEF SetThresholds, TypeOK
  <1>4. CASE Tick
    <2>1. PipelineType'
      <3>1. ASSUME NEW p \in Opps
            PROVE  [job[p] EXCEPT !.age = Older(@, MaxQuoteAge),
                                  !.simAge = IF pc = "decide" /\ p \in cur THEN Older(@, MaxSimAge) ELSE @]
                   \in Jobs
        <4>1. job[p] \in Jobs
          BY DEF TypeOK, PipelineType
        <4>2. Older(job[p].age, MaxQuoteAge) \in 0..(MaxQuoteAge + 1)
          BY <4>1, JobFields DEF Older
        <4>3. Older(job[p].simAge, MaxSimAge) \in 0..(MaxSimAge + 1)
          BY <4>1, JobFields DEF Older
        <4> QED  BY <4>1, <4>2, <4>3 DEF Jobs
      <3>2. job' \in [Opps -> Jobs]
        BY <1>4, <3>1 DEF Tick, TypeOK, PipelineType
      <3> QED  BY <1>4, <3>2 DEF Tick, TypeOK, PipelineType
    <2> QED  BY <1>4, <2>1, Frames DEF Tick, TypeOK
  <1>5. CASE NewDay
    <2>1. WorldType'
      BY <1>5 DEF NewDay, TypeOK, WorldType
    <2> QED  BY <1>5, <2>1, Frames DEF NewDay, TypeOK
  <1>6. ASSUME NEW o \in Opps, Settle(o)
        PROVE  TypeOK'
    <2>1. bundle[o] \in Bundles /\ today \in Nat
      BY DEF TypeOK, WorldType
    <2>2. \A gain \in bundle[o].lo..bundle[o].hi :
             [state |-> "landed", lo |-> gain, hi |-> gain, day |-> today] \in Bundles
      BY <2>1 DEF Bundles, BundleStates
    <2>3. \A s \in {"reverted", "dropped"} : [NoBundle EXCEPT !.state = s] \in Bundles
      BY DEF Bundles, BundleStates, NoBundle
    <2>4. WorldType'
      BY <1>6, <2>2, <2>3 DEF Settle, TypeOK, WorldType
    <2> QED  BY <1>6, <2>4, Frames DEF Settle, TypeOK
  <1> QED  BY <1>1, <1>2, <1>3, <1>4, <1>5, <1>6 DEF World

LEMMA TypeStep == TypeOK /\ [Next]_vars => TypeOK'
  <1> SUFFICES ASSUME TypeOK, [Next]_vars PROVE TypeOK'
    OBVIOUS
  <1>1. CASE UNCHANGED vars
    BY <1>1, Frames DEF vars, TypeOK
  <1>2. CASE \E o \in Opps : Evaluation(o)
    BY <1>2, TypeEvaluation
  <1>3. CASE Simulator
    BY <1>3, TypeTake, TypeJob, TypeConfirm, TypeConfirmTimeout, TypeLive, TypeLiveTask DEF Simulator
  <1>4. CASE Operator
    BY <1>4, TypeConfirm, TypeOthers DEF Operator
  <1>5. CASE World
    BY <1>5, TypeOthers DEF World
  <1> QED  BY <1>1, <1>2, <1>3, <1>4, <1>5 DEF Next

\* Type correctness of every reachable state: whatever the tasks, the
\* operator and the chain do, the risk counters stay natural numbers and the
\* pipeline's maps keep their types.
THEOREM TypeCorrect == Spec => []TypeOK
  BY TypeInit, TypeStep, PTL DEF Spec

----------------------------------------------------------------------------
(* The control invariant *)

LEMMA ControlInit == Init => Control
  BY DEF Init, Control, OneJobAtATime, ApprovedBelowLimit, OpenMatchesInFlight,
         FailuresWithinLimit, ConfirmMapExact, SendNeedsYes, LivePcs, RiskDefault

\* A step that leaves the task, the counters and the map alone.
LEMMA ControlFrame ==
    ASSUME Control, UNCHANGED <<mode, risk, pc, cur, pending, answer>>
    PROVE  Control'
  BY DEF Control, OneJobAtATime, ApprovedBelowLimit, OpenMatchesInFlight,
         FailuresWithinLimit, ConfirmMapExact, SendNeedsYes

\* Back at recv, with nothing open, no entry in the map and the failures
\* within their limit, everything Control says holds.
LEMMA ControlIdle ==
    ASSUME pc' = "idle", cur' = {}, pending' = {}, risk'.open = 0, risk'.fails <= MaxFailures
    PROVE  Control'
  BY DEF Control, OneJobAtATime, ApprovedBelowLimit, OpenMatchesInFlight,
         FailuresWithinLimit, ConfirmMapExact, SendNeedsYes, LivePcs

\* What Control says before a step that is not in the confirmation.
LEMMA ControlFacts ==
    ASSUME Control, TypeOK
    PROVE  /\ pc \notin {"confirm", "expire"} => pending = {}
           /\ pc \in LivePcs => risk.open = 1
           /\ pc \notin LivePcs => risk.open = 0
           /\ risk.fails <= MaxFailures /\ risk.fails \in Nat
           /\ \A o \in cur : cur = {o}
  BY DEF Control, OneJobAtATime, OpenMatchesInFlight, FailuresWithinLimit, ConfirmMapExact,
         TypeOK, RiskState

\* The steps of simulate_job and decide.
LEMMA ControlJob ==
    ASSUME TypeOK, Control, NEW o \in Opps, TakeJob \/ Simulated(o) \/ Decide(o) \/ PaperFill(o)
    PROVE  Control'
  <1>r. risk \in RiskState /\ today \in Nat /\ job[o].net \in Int
    BY JobFields DEF TypeOK, WorldType, PipelineType
  <1>1. CASE TakeJob
    <2>1. CASE UNCHANGED <<pc, cur>>
      BY <1>1, <2>1, ControlFrame DEF TakeJob, settings
    <2>2. CASE pc' = "simulate" /\ cur' = {Head(queue)}
      BY <1>1, <2>2, ControlFacts
         DEF TakeJob, Control, OneJobAtATime, ApprovedBelowLimit, OpenMatchesInFlight,
             FailuresWithinLimit, ConfirmMapExact, SendNeedsYes, LivePcs
    <2> QED  BY <1>1, <2>1, <2>2 DEF TakeJob
  <1>2. CASE Simulated(o)
    <2>0. pending' = {} /\ risk' = risk /\ risk.open = 0 /\ mode' = mode
      BY <1>2, ControlFacts DEF Simulated, LivePcs, settings
    <2>1. CASE pc' = "idle" /\ cur' = {}
      BY <1>2, <2>0, <2>1, ControlIdle, ControlFacts
    <2>2. CASE pc' = "decide" /\ UNCHANGED cur
      BY <1>2, <2>0, <2>2, ControlFacts
         DEF Simulated, Control, OneJobAtATime, ApprovedBelowLimit, OpenMatchesInFlight,
             FailuresWithinLimit, ConfirmMapExact, SendNeedsYes, LivePcs
    <2> QED  BY <1>2, <2>1, <2>2 DEF Simulated, Done
  <1>3. CASE Decide(o)
    <2>0. /\ risk' = RollDay(risk, today) /\ risk'.fails = risk.fails /\ risk'.open = 0
          /\ pending' = {} /\ UNCHANGED <<mode, answer>> /\ risk.fails \in Nat
      BY <1>r, <1>3, RollDayFacts, ControlFacts DEF Decide, LivePcs, settings
    <2>1. CASE pc' = "idle" /\ cur' = {}
      BY <2>0, <2>1, ControlIdle, ControlFacts
    <2>2. CASE \E others \in BOOLEAN :
                 /\ Approved(risk', Facts(o, others), th.maxLoss, kill)
                 /\ pc' = CASE mode = "Paper"   -> "paper"
                            [] mode = "Confirm" -> "register"
                            [] mode = "Live"    -> "compose"
                 /\ UNCHANGED cur
      <3>1. risk'.fails < MaxFailures
        BY <2>2 DEF Approved, FailuresBelowLimit
      <3>2. mode \in {"Paper", "Confirm", "Live"}
        BY DEF TypeOK, SettingsType
      <3>3. /\ pc' \in {"paper", "register", "compose"}
            /\ pc' = "compose" => mode = "Live"
        BY <2>2, <3>2
      <3> QED
        BY <1>3, <2>0, <2>2, <3>1, <3>3
           DEF Decide, Control, OneJobAtATime, ApprovedBelowLimit, OpenMatchesInFlight,
               FailuresWithinLimit, ConfirmMapExact, SendNeedsYes, LivePcs
    <2> QED  BY <1>3, <2>1, <2>2 DEF Decide, Done
  <1>4. CASE PaperFill(o)
    <2>1. PICK priced \in BOOLEAN :
            risk' = CloseExecution(OpenExecution(risk), today, TRUE,
                                   IF priced THEN UsdValue(job[o].net) ELSE 0)
      BY <1>4 DEF PaperFill
    <2>2. (IF priced THEN UsdValue(job[o].net) ELSE 0) \in Int
      BY <1>r, UsdValueType
    <2>3. risk.open = 0 /\ pending' = {} /\ pc' = "idle" /\ cur' = {}
      BY <1>4, ControlFacts DEF PaperFill, Done, LivePcs
    <2>o. OpenExecution(risk) \in RiskState /\ OpenExecution(risk).open = 1
      BY <1>r, <2>3, OpenFacts
    <2>v. PICK v \in Int : risk' = CloseExecution(OpenExecution(risk), today, TRUE, v)
      BY <2>1, <2>2
    <2>4. risk'.open = 0 /\ risk'.fails = 0
      BY <1>r, <2>v, <2>o, CloseSuccess
    <2> QED  BY <2>3, <2>4, ControlIdle
  <1> QED  BY <1>1, <1>2, <1>3, <1>4

\* The steps of the operator's confirmation, and his answer.
LEMMA ControlConfirm ==
    ASSUME TypeOK, Control, NEW o \in Opps, NEW yes \in BOOLEAN,
           RegisterConfirm(o) \/ Resolve(o, yes) \/ Answered(o) \/ ConfirmTimeout \/ Expire(o)
    PROVE  Control'
  <1>u. UNCHANGED <<mode, risk>>
    BY DEF RegisterConfirm, Resolve, Answered, ConfirmTimeout, Expire, settings
  <1>1. CASE RegisterConfirm(o)
    <2>1. pending = {} /\ cur = {o}
      BY <1>1, ControlFacts DEF RegisterConfirm
    <2> QED
      BY <1>1, <1>u, <2>1
         DEF RegisterConfirm, Control, OneJobAtATime, ApprovedBelowLimit, OpenMatchesInFlight,
             FailuresWithinLimit, ConfirmMapExact, SendNeedsYes, LivePcs
  <1>2. CASE Resolve(o, yes)
    <2>1. pending' = {}
      BY <1>2 DEF Resolve, Control, OneJobAtATime, ConfirmMapExact
    <2> QED
      BY <1>2, <1>u, <2>1
         DEF Resolve, Control, OneJobAtATime, ApprovedBelowLimit, OpenMatchesInFlight,
             FailuresWithinLimit, ConfirmMapExact, SendNeedsYes, LivePcs
  <1>3. CASE Answered(o)
    <2>1. pending' = {} /\ risk.open = 0
      BY <1>3, ControlFacts DEF Answered, Control, ConfirmMapExact, LivePcs
    <2>2. CASE pc' = "idle" /\ cur' = {}
      BY <1>u, <2>1, <2>2, ControlIdle, ControlFacts
    <2>3. CASE answer = "yes" /\ pc' = "compose" /\ UNCHANGED cur
      BY <1>3, <1>u, <2>1, <2>3
         DEF Answered, Control, OneJobAtATime, ApprovedBelowLimit, OpenMatchesInFlight,
             FailuresWithinLimit, ConfirmMapExact, SendNeedsYes, LivePcs
    <2> QED  BY <1>3, <2>2, <2>3 DEF Answered, Done
  <1>4. CASE ConfirmTimeout
    BY <1>4, <1>u
       DEF ConfirmTimeout, Control, OneJobAtATime, ApprovedBelowLimit, OpenMatchesInFlight,
           FailuresWithinLimit, ConfirmMapExact, SendNeedsYes, LivePcs
  <1>5. CASE Expire(o)
    <2>1. pending' = {}
      BY <1>5 DEF Expire, Control, OneJobAtATime, ConfirmMapExact
    <2> QED  BY <1>5, <1>u, <2>1, ControlIdle, ControlFacts DEF Expire, Done, LivePcs
  <1> QED  BY <1>1, <1>2, <1>3, <1>4, <1>5

\* The steps of send_live and execute_live.
LEMMA ControlLive ==
    ASSUME TypeOK, Control, NEW o \in Opps,
           \/ Compose(o) \/ SignLive(o) \/ FinalSim \/ PreBalance \/ SendBundle(o)
           \/ PollInflight(o) \/ PollStatus(o) \/ PollTimeout \/ PostBalance \/ Close(o)
    PROVE  Control'
  <1>r. risk \in RiskState /\ today \in Nat /\ bundle[o].lo \in Int
    BY DEF TypeOK, WorldType, Bundles
  <1>l. ASSUME NEW from \in LivePcs, NEW next \in LivePcs, NEW result, LiveStep(from, next, result)
        PROVE  Control'
    BY <1>l DEF LiveStep, Control, OneJobAtATime, ApprovedBelowLimit, OpenMatchesInFlight,
                FailuresWithinLimit, ConfirmMapExact, SendNeedsYes, LivePcs, settings
  <1>p. LivePcs = {"live", "finalsim", "balance", "send", "poll", "confirmed", "post", "close"}
    BY DEF LivePcs
  <1>1. CASE Compose(o)
    <2>0. pending' = {} /\ risk.open = 0 /\ UNCHANGED <<mode, answer>>
      BY <1>1, ControlFacts DEF Compose, LivePcs, settings
    <2>1. CASE pc' = "idle" /\ cur' = {} /\ UNCHANGED risk
      BY <2>0, <2>1, ControlIdle, ControlFacts
    <2>2. CASE risk' = OpenExecution(risk) /\ pc' = "live" /\ UNCHANGED cur
      <3>1. risk'.open = 1 /\ risk'.fails = risk.fails
        BY <1>r, <2>0, <2>2, OpenFacts
      <3> QED
        BY <1>1, <2>0, <2>2, <3>1
           DEF Compose, Control, OneJobAtATime, ApprovedBelowLimit, OpenMatchesInFlight,
               FailuresWithinLimit, ConfirmMapExact, SendNeedsYes, LivePcs
    <2> QED  BY <1>1, <2>1, <2>2 DEF Compose, Done
  <1>2. CASE SignLive(o)
    BY <1>2, <1>p, <1>l DEF SignLive, Return
  <1>3. CASE FinalSim
    BY <1>3, <1>p, <1>l DEF FinalSim, Return
  <1>4. CASE PreBalance
    BY <1>4, <1>p, <1>l DEF PreBalance, Return
  <1>5. CASE SendBundle(o)
    BY <1>5, <1>p, <1>l DEF SendBundle, Return
  <1>6. CASE PollInflight(o)
    BY <1>6, <1>p, <1>l DEF PollInflight, Return
  <1>7. CASE PollStatus(o)
    BY <1>7, <1>p, <1>l DEF PollStatus, Return
  <1>8. CASE PollTimeout
    BY <1>8, <1>p, <1>l DEF PollTimeout, Return
  <1>9. CASE PostBalance
    BY <1>9, <1>p, <1>l DEF PostBalance, Return
  <1>10. CASE Close(o)
    <2> DEFINE success == outcome \in {"Landed", "LandedUnknown"}
               net == IF outcome = "Landed" THEN bundle[o].lo ELSE 0
    <2>1. PICK priced \in BOOLEAN :
            risk' = CloseExecution(risk, today, success, IF priced THEN UsdValue(net) ELSE 0)
      BY <1>10 DEF Close
    <2>2. (IF priced THEN UsdValue(net) ELSE 0) \in Int /\ success \in BOOLEAN
      BY <1>r, UsdValueType
    <2>3. risk.open = 1 /\ pending' = {} /\ pc' = "idle" /\ cur' = {}
      BY <1>10, ControlFacts DEF Close, Done, LivePcs
    <2>4. risk.fails < MaxFailures /\ risk.fails \in Nat
      BY <1>10, <1>r DEF Close, Control, ApprovedBelowLimit, LivePcs, RiskState
    <2>v. PICK v \in Int : \/ risk' = CloseExecution(risk, today, TRUE, v)
                           \/ risk' = CloseExecution(risk, today, FALSE, v)
      <3>1. CASE success
        <4>1. success = TRUE
          BY <3>1
        <4> QED  BY <2>1, <2>2, <4>1
      <3>2. CASE ~success
        <4>1. success = FALSE
          BY <3>2
        <4> QED  BY <2>1, <2>2, <4>1
      <3> QED  BY <3>1, <3>2
    <2>5. risk'.open = 0 /\ (risk'.fails = 0 \/ risk'.fails = risk.fails + 1)
      <3>1. CASE risk' = CloseExecution(risk, today, TRUE, v)
        BY <1>r, <2>3, <3>1, CloseSuccess
      <3>2. CASE risk' = CloseExecution(risk, today, FALSE, v)
        BY <1>r, <2>3, <3>2, CloseFailure
      <3> QED  BY <2>v, <3>1, <3>2
    <2>6. risk'.fails <= MaxFailures
      BY <2>4, <2>5
    <2> QED  BY <2>3, <2>5, <2>6, ControlIdle
  <1> QED  BY <1>1, <1>2, <1>3, <1>4, <1>5, <1>6, <1>7, <1>8, <1>9, <1>10

LEMMA ControlStep == TypeOK /\ Control /\ [Next]_vars => Control'
  <1> SUFFICES ASSUME TypeOK, Control, [Next]_vars PROVE Control'
    OBVIOUS
  <1> USE DEF settings, simulator
  <1>1. CASE UNCHANGED vars
    BY <1>1, ControlFrame DEF vars
  <1>2. CASE \E o \in Opps : Evaluation(o)
    BY <1>2, ControlFrame
       DEF Evaluation, BuildError, Price, Protect, Requote, Assemble, Enqueue, Drop
  <1>3. CASE Simulator
    <2>1. \E o \in Opps : TRUE
      <3>1. CASE TakeJob
        BY <3>1 DEF TakeJob, TypeOK, PipelineType
      <3>2. CASE pc # "idle"
        BY <3>2 DEF Control, OneJobAtATime, TypeOK, SimulatorType
      <3>3. CASE \E o \in Opps : TRUE
        BY <3>3
      <3> QED
        BY <1>3, <3>1, <3>2, <3>3
           DEF Simulator, ConfirmTimeout, FinalSim, PreBalance, PollTimeout, PostBalance,
               Return, LiveStep
    <2> QED  BY <1>3, <2>1, ControlJob, ControlConfirm, ControlLive DEF Simulator
  <1>4. CASE Operator
    <2>1. CASE KillSwitch
      BY <2>1, ControlFrame DEF KillSwitch
    <2>2. CASE Restart
      <3>1. risk'.open = 0 /\ risk'.fails = 0
        BY <2>2 DEF Restart, RiskDefault
      <3> QED  BY <2>2, <3>1, ControlIdle DEF Restart
    <2>3. CASE \E o \in Opps, approve \in BOOLEAN : Resolve(o, approve)
      BY <2>3, ControlConfirm
    <2>4. CASE \E t \in Thresholds, allowLoss \in BOOLEAN : SetThresholds(t, allowLoss)
      BY <2>4, ControlFrame DEF SetThresholds
    <2> QED  BY <1>4, <2>1, <2>2, <2>3, <2>4 DEF Operator
  <1>5. CASE World
    BY <1>5, ControlFrame DEF World, Tick, NewDay, Settle
  <1> QED  BY <1>1, <1>2, <1>3, <1>4, <1>5 DEF Next

\* The inductive invariant: in every reachable state the place of the
\* simulator task decides the open slots, bounds the failures, and says what
\* is in the confirmation map.
THEOREM ControlCorrect == Spec => []Control
  BY TypeInit, TypeStep, ControlInit, ControlStep, PTL DEF Spec

\* No path of send_live and execute_live leaks or double-frees an open slot of
\* the risk engine, for any number of opportunities.
THEOREM SlotsExact == Spec => []OpenMatchesInFlight
  BY ControlCorrect, PTL DEF Control

\* consecutive_failures never exceeds its limit, although the check is made
\* in decide and the count in send_live, one await after another.
THEOREM FailuresBounded == Spec => []FailuresWithinLimit
  BY ControlCorrect, PTL DEF Control

\* The confirmation map holds the one opportunity on screen while the
\* operator can still answer, and nothing afterwards.
THEOREM ConfirmationsExact == Spec => []ConfirmMapExact
  BY ControlCorrect, PTL DEF Control

\* In CONFIRM mode nothing is composed or sent without a yes.
THEOREM NothingSentWithoutYes == Spec => []SendNeedsYes
  BY ControlCorrect, PTL DEF Control

----------------------------------------------------------------------------
(* Where an opportunity is decides its status and its bundle *)

LEMMA TrackInit == Init => Track
  <1> SUFFICES ASSUME Init PROVE Track
    OBVIOUS
  <1>1. \A o \in Opps : stage[o] = "new" /\ status[o] = "New" /\ bundle[o].state = "none"
    BY DEF Init, NoBundle
  <1>2. queue = <<>> /\ cur = {}
    BY DEF Init
  <1> QED
    BY <1>1, <1>2 DEF Track, QueueExact, StatusByPlace, BundleByPlace, ReportsAreTrue, Refusals

\* A step that leaves the places, statuses, task and bundles alone.
LEMMA TrackFrame ==
    ASSUME Track, UNCHANGED <<stage, status, queue, pc, cur, outcome, bundle>>
    PROVE  Track'
  BY DEF Track, QueueExact, StatusByPlace, BundleByPlace, ReportsAreTrue

\* Before it is approved, nothing has been sent for an opportunity.
LEMMA NothingOutYet ==
    ASSUME Track, NEW o \in Opps,
           status[o] \in {"New", "Quoted", "Skipped", "Executable", "AwaitingConfirm"}
    PROVE  bundle[o].state = "none"
  BY DEF Track, BundleByPlace, ReportsAreTrue, Refusals

\* The status an opportunity has on its way to the simulator.
LEMMA VerdictSoFar ==
    ASSUME TypeOK, Track, NEW o \in Opps, stage[o] \notin {"sim", "done"}
    PROVE  status[o] \in {"New", "Quoted", "Skipped"} /\ bundle[o].state = "none" /\ o \notin cur
  <1>1. stage[o] \in Stages
    BY DEF TypeOK, PipelineType
  <1>2. status[o] \in {"New", "Quoted", "Skipped"}
    BY <1>1 DEF Track, StatusByPlace, Stages
  <1>3. o \notin cur
    BY DEF Track, QueueExact
  <1> QED  BY <1>2, <1>3, NothingOutYet

\* An evaluation task that moves its own opportunity, to a stage with a
\* verdict that fits it.
LEMMA TrackEvaluated ==
    ASSUME TypeOK, Track, NEW o \in Opps, stage[o] \notin {"queued", "sim", "done"},
           \A p \in Opps \ {o} : stage'[p] = stage[p] /\ status'[p] = status[p],
           stage'[o] \in {"priced", "requote", "built", "submit", "done"},
           stage'[o] = "requote" => status'[o] = "Quoted",
           stage'[o] # "done" => status'[o] \in {"Quoted", "Skipped"},
           status'[o] \in {"New", "Quoted", "Skipped"},
           UNCHANGED <<queue, pc, cur, outcome, bundle>>
    PROVE  Track'
  <1>1. bundle[o].state = "none" /\ o \notin cur
    BY VerdictSoFar
  <1>2. \A i \in DOMAIN queue : queue[i] \in Opps /\ queue[i] # o
    BY DEF TypeOK, PipelineType, Track, QueueExact
  <1>3. QueueExact'
    BY <1>1, <1>2 DEF Track, QueueExact
  <1>4. StatusByPlace'
    BY <1>1 DEF Track, StatusByPlace
  <1>5. BundleByPlace' /\ ReportsAreTrue'
    BY <1>1 DEF Track, BundleByPlace, ReportsAreTrue
  <1> QED  BY <1>3, <1>4, <1>5 DEF Track

\* What ending an evaluation does to each opportunity.
LEMMA FinishFacts ==
    ASSUME TypeOK, NEW o \in Opps, NEW s, Finish(o, s)
    PROVE  /\ stage'[o] = "done" /\ status'[o] = s /\ job'[o] = NoJob
           /\ \A p \in Opps \ {o} : stage'[p] = stage[p] /\ status'[p] = status[p] /\ job'[p] = job[p]
  BY DEF TypeOK, PipelineType, Finish

\* Pricing says Quoted or Skipped, and what was skipped stays skipped.
LEMMA PricingFacts ==
    /\ \A n, f, b : PricedStatus(n, f, b) \in {"Quoted", "Skipped"}
    /\ \A t : KeepSkip("Skipped", t) = "Skipped" /\ KeepSkip("Quoted", t) = t
    /\ \A s, n, f, b : s \in {"Quoted", "Skipped"}
                          => KeepSkip(s, PricedStatus(n, f, b)) \in {"Quoted", "Skipped"}
  BY DEF PricedStatus, KeepSkip

\* The steps of an evaluation task.
LEMMA TrackEvaluation ==
    ASSUME TypeOK, Track, NEW o \in Opps, Evaluation(o)
    PROVE  Track'
  <1> USE DEF simulator, world
  <1>t. stage \in [Opps -> Stages] /\ status \in [Opps -> Statuses] /\ queue \in Seq(Opps)
    BY DEF TypeOK, PipelineType
  <1>1. CASE BuildError(o)
    <2>1. stage[o] = "new" /\ UNCHANGED <<queue, pc, cur, outcome, bundle>>
      BY <1>1 DEF BuildError
    <2>2. PICK s \in {"New", "Skipped"} : Finish(o, s)
      BY <1>1 DEF BuildError
    <2> QED  BY <2>1, <2>2, FinishFacts, TrackEvaluated
  <1>2. CASE Price(o)
    <2>1. /\ stage[o] = "new" /\ UNCHANGED <<queue, pc, cur, outcome, bundle>>
          /\ stage' = [stage EXCEPT ![o] = "priced"]
      BY <1>2 DEF Price
    <2>2. PICK s \in {"Quoted", "Skipped"} : status' = [status EXCEPT ![o] = s]
      BY <1>2, PricingFacts DEF Price
    <2> QED  BY <1>t, <2>1, <2>2, TrackEvaluated
  <1>3. CASE Protect(o)
    <2>1. stage[o] = "priced" /\ UNCHANGED <<queue, pc, cur, outcome, bundle>>
      BY <1>3 DEF Protect
    <2>2. status[o] \in {"Quoted", "Skipped"}
      BY <2>1 DEF Track, StatusByPlace
    <2>3. \/ stage' = [stage EXCEPT ![o] = "built"] /\ status' = status
          \/ /\ stage' = [stage EXCEPT ![o] = "built"]
             /\ status' = [status EXCEPT ![o] = "Skipped"]
          \/ /\ stage' = [stage EXCEPT ![o] = "requote"]
             /\ status' = status /\ status[o] = "Quoted"
      BY <1>3 DEF Protect
    <2> QED  BY <1>t, <2>1, <2>2, <2>3, TrackEvaluated
  <1>4. CASE Requote(o)
    <2>1. /\ stage[o] = "requote" /\ UNCHANGED <<queue, pc, cur, outcome, bundle>>
          /\ stage' = [stage EXCEPT ![o] = "built"]
      BY <1>4 DEF Requote
    <2>2. PICK s \in {"Quoted", "Skipped"} : status' = [status EXCEPT ![o] = s]
      BY <1>4, PricingFacts DEF Requote
    <2> QED  BY <1>t, <2>1, <2>2, TrackEvaluated
  <1>5. CASE Assemble(o)
    <2>1. stage[o] = "built" /\ UNCHANGED <<queue, pc, cur, outcome, bundle>>
      BY <1>5 DEF Assemble
    <2>2. status[o] \in {"Quoted", "Skipped"}
      BY <2>1 DEF Track, StatusByPlace
    <2>3. CASE Finish(o, "Skipped")
      BY <2>1, <2>3, FinishFacts, TrackEvaluated
    <2>4. CASE ~Finish(o, "Skipped")
      <3>1. stage' = [stage EXCEPT ![o] = "submit"]
        BY <1>5, <2>4 DEF Assemble
      <3>2. \/ status' = status
            \/ \E f \in TipFloors, others \in BOOLEAN :
                  status' = [status EXCEPT ![o] =
                      KeepSkip(@, PricedStatus(Net(job[o].gross, f, 0), f, others))]
        BY <1>5, <2>4 DEF Assemble
      <3>3. PICK s \in {"Quoted", "Skipped"} : status' = [status EXCEPT ![o] = s]
        BY <1>t, <2>2, <3>2, PricingFacts
      <3> QED  BY <1>t, <2>1, <3>1, <3>3, TrackEvaluated
    <2> QED  BY <2>3, <2>4
  <1>6. CASE Enqueue(o)
    <2>1. /\ stage[o] = "submit" /\ queue' = Append(queue, o)
          /\ stage' = [stage EXCEPT ![o] = "queued"]
          /\ UNCHANGED <<status, pc, cur, outcome, bundle>>
      BY <1>6 DEF Enqueue
    <2>2. o \notin cur /\ status[o] \in {"Quoted", "Skipped"}
      BY <2>1, VerdictSoFar DEF Track, StatusByPlace
    <2>3. /\ \A i \in DOMAIN queue : queue[i] \in Opps /\ queue[i] # o
          /\ DOMAIN queue = 1..Len(queue) /\ DOMAIN queue' = 1..(Len(queue) + 1)
          /\ \A i \in DOMAIN queue' :
                queue'[i] = IF i = Len(queue) + 1 THEN o ELSE queue[i]
      BY <1>t, <2>1 DEF Track, QueueExact
    <2>4. QueueExact'
      <3>1. \A i \in DOMAIN queue' : stage'[queue'[i]] = "queued"
        BY <1>t, <2>1, <2>3 DEF Track, QueueExact
      <3>2. \A i, k \in DOMAIN queue' : queue'[i] = queue'[k] => i = k
        BY <1>t, <2>3 DEF Track, QueueExact
      <3>3. \A p \in Opps : stage'[p] = "sim" <=> p \in cur'
        BY <1>t, <2>1, <2>2 DEF Track, QueueExact
      <3> QED  BY <3>1, <3>2, <3>3 DEF QueueExact
    <2>5. StatusByPlace'
      BY <1>t, <2>1, <2>2 DEF Track, StatusByPlace
    <2> QED
      BY <2>1, <2>4, <2>5 DEF Track, BundleByPlace, ReportsAreTrue
  <1>7. CASE Drop(o)
    <2>1. stage[o] = "submit" /\ UNCHANGED <<queue, pc, cur, outcome, bundle>>
          /\ Finish(o, status[o])
      BY <1>7 DEF Drop
    <2>2. status[o] \in {"Quoted", "Skipped"}
      BY <2>1 DEF Track, StatusByPlace
    <2> QED  BY <2>1, <2>2, FinishFacts, TrackEvaluated
  <1> QED  BY <1>1, <1>2, <1>3, <1>4, <1>5, <1>6, <1>7 DEF Evaluation

\* The simulator task ends its job with a status that its bundle justifies.
LEMMA TrackDone ==
    ASSUME TypeOK, Control, Track, NEW o \in cur, NEW s, Done(o, s),
           UNCHANGED <<queue, bundle>>,
           s \notin {"New", "Executable", "AwaitingConfirm"},
           s = "Landed" => bundle[o].state = "landed",
           s \in Refusals \cup {"Quoted", "PaperFilled"} => bundle[o].state = "none"
    PROVE  Track'
  <1>1. o \in Opps /\ cur = {o} /\ stage[o] = "sim"
    BY DEF TypeOK, SimulatorType, Control, OneJobAtATime, Track, QueueExact
  <1>2. /\ stage'[o] = "done" /\ status'[o] = s /\ cur' = {} /\ pc' = "idle"
        /\ \A p \in Opps \ {o} : stage'[p] = stage[p] /\ status'[p] = status[p]
    BY <1>1, FinishFacts DEF Done
  <1>3. \A i \in DOMAIN queue : queue[i] \in Opps /\ queue[i] # o
    BY <1>1 DEF TypeOK, PipelineType, Track, QueueExact
  <1>4. QueueExact'
    BY <1>1, <1>2, <1>3 DEF Track, QueueExact
  <1>5. StatusByPlace'
    BY <1>1, <1>2 DEF Track, StatusByPlace
  <1>6. BundleByPlace' /\ ReportsAreTrue'
    BY <1>1, <1>2 DEF Track, BundleByPlace, ReportsAreTrue
  <1> QED  BY <1>4, <1>5, <1>6 DEF Track

\* The simulator task goes on with its job: the new place fits the status and
\* the bundle.
LEMMA TrackGoesOn ==
    ASSUME TypeOK, Control, Track, NEW o \in cur,
           UNCHANGED <<stage, queue, cur>>,
           \A p \in Opps \ {o} : status'[p] = status[p] /\ bundle'[p] = bundle[p],
           \/ pc' = "decide" /\ status'[o] = "Quoted" /\ bundle'[o].state = "none"
           \/ pc' \in {"paper", "register"} /\ status'[o] = "Executable" /\ bundle'[o].state = "none"
           \/ pc' \in {"confirm", "expire"} /\ status'[o] = "AwaitingConfirm" /\ bundle'[o].state = "none"
           \/ /\ pc' = "compose" /\ status'[o] \in {"Executable", "AwaitingConfirm"}
              /\ bundle'[o].state = "none"
           \/ /\ pc' \in {"live", "finalsim", "balance", "send"}
              /\ status'[o] = "Submitted" /\ bundle'[o].state = "none"
           \/ pc' = "poll" /\ status'[o] = "Submitted"
           \/ pc' = "confirmed" /\ status'[o] = "Submitted" /\ bundle'[o].state \in {"landed", "reverted"}
           \/ pc' = "post" /\ status'[o] = "Submitted" /\ bundle'[o].state = "landed"
           \/ /\ pc' = "close" /\ status'[o] = "Submitted"
              /\ outcome' \in {"Landed", "LandedUnknown"} => bundle'[o].state = "landed"
    PROVE  Track'
  <1>1. o \in Opps /\ cur = {o}
    BY DEF TypeOK, SimulatorType, Control, OneJobAtATime
  <1>2. QueueExact'
    BY DEF Track, QueueExact
  <1>3. StatusByPlace'
    BY <1>1 DEF Track, StatusByPlace, QueueExact, LivePcs
  <1>4. BundleByPlace'
    BY <1>1 DEF Track, BundleByPlace
  <1>5. ReportsAreTrue'
    BY <1>1 DEF Track, ReportsAreTrue, Refusals
  <1> QED  BY <1>2, <1>3, <1>4, <1>5 DEF Track

\* What the invariants say of the job the simulator task holds.
LEMMA HeldFacts ==
    ASSUME TypeOK, Control, Track, NEW o \in cur
    PROVE  /\ o \in Opps /\ cur = {o} /\ stage[o] = "sim" /\ pc # "idle"
           /\ pc = "simulate" => status[o] \in {"Quoted", "Skipped"}
           /\ pc = "decide" => status[o] = "Quoted"
           /\ pc \in {"paper", "register"} => status[o] = "Executable"
           /\ pc \in {"confirm", "expire"} => status[o] = "AwaitingConfirm"
           /\ pc = "compose" => status[o] \in {"Executable", "AwaitingConfirm"}
           /\ pc \in LivePcs => status[o] = "Submitted"
           /\ pc \in {"simulate", "decide", "paper", "register", "confirm", "expire", "compose",
                      "live", "finalsim", "balance", "send"} => bundle[o].state = "none"
           /\ pc = "confirmed" => bundle[o].state \in {"landed", "reverted"}
           /\ pc = "post" => bundle[o].state = "landed"
           /\ pc = "close" /\ outcome \in {"Landed", "LandedUnknown"} => bundle[o].state = "landed"
  <1>1. o \in Opps /\ cur = {o} /\ stage[o] = "sim" /\ pc # "idle"
    BY DEF TypeOK, SimulatorType, Control, OneJobAtATime, Track, QueueExact
  <1>2. /\ pc = "simulate" => status[o] \in {"Quoted", "Skipped"}
        /\ pc = "decide" => status[o] = "Quoted"
        /\ pc \in {"paper", "register"} => status[o] = "Executable"
        /\ pc \in {"confirm", "expire"} => status[o] = "AwaitingConfirm"
        /\ pc = "compose" => status[o] \in {"Executable", "AwaitingConfirm"}
        /\ pc \in LivePcs => status[o] = "Submitted"
    BY <1>1 DEF Track, StatusByPlace
  <1>3. pc \in {"simulate", "decide", "paper", "register", "confirm", "expire", "compose"}
           => bundle[o].state = "none"
    BY <1>1, <1>2, NothingOutYet
  <1> QED  BY <1>1, <1>2, <1>3 DEF Track, BundleByPlace

\* run_simulator's receive.
LEMMA TrackTake ==
    ASSUME TypeOK, Control, Track, TakeJob
    PROVE  Track'
  <1> DEFINE o == Head(queue)
  <1>t. /\ stage \in [Opps -> Stages] /\ status \in [Opps -> Statuses]
        /\ queue \in Seq(Opps) /\ queue # <<>>
    BY DEF TypeOK, PipelineType, TakeJob
  <1>1. o \in Opps /\ o = queue[1] /\ 1 \in DOMAIN queue /\ queue' = Tail(queue)
    BY <1>t DEF TakeJob
  <1>2. stage[o] = "queued" /\ o \notin cur /\ cur = {}
    BY <1>1 DEF Track, QueueExact, TakeJob, Control, OneJobAtATime
  <1>3. status[o] \in {"Quoted", "Skipped"} /\ bundle[o].state = "none"
    BY <1>1, <1>2, NothingOutYet DEF Track, StatusByPlace
  <1>4. /\ DOMAIN queue = 1..Len(queue) /\ DOMAIN queue' = 1..(Len(queue) - 1)
        /\ \A i \in DOMAIN queue' :
              queue'[i] = queue[i + 1] /\ i + 1 \in DOMAIN queue /\ queue'[i] # o /\ queue'[i] \in Opps
    <2>1. /\ DOMAIN queue = 1..Len(queue) /\ DOMAIN queue' = 1..(Len(queue) - 1)
          /\ \A i \in DOMAIN queue' : queue'[i] = queue[i + 1] /\ i + 1 \in DOMAIN queue
      BY <1>t, <1>1
    <2>2. \A i \in DOMAIN queue : queue[i] = o => i = 1
      BY <1>1 DEF Track, QueueExact
    <2>3. \A i \in DOMAIN queue' : i + 1 # 1
      BY <2>1
    <2>4. \A i \in DOMAIN queue : queue[i] \in Opps
      BY <1>t
    <2> QED  BY <2>1, <2>2, <2>3, <2>4
  <1>5. \A i, k \in DOMAIN queue' : queue'[i] = queue'[k] => i = k
    <2> SUFFICES ASSUME NEW i \in DOMAIN queue', NEW k \in DOMAIN queue', queue'[i] = queue'[k]
                 PROVE  i = k
      OBVIOUS
    <2>1. i + 1 = k + 1
      BY <1>4 DEF Track, QueueExact
    <2> QED  BY <1>4, <2>1, <1>t
  <1>6. CASE Finish(o, KeepSkip(status[o], "Skipped")) /\ UNCHANGED <<pc, cur>>
    <2>1. KeepSkip(status[o], "Skipped") = "Skipped"
      BY <1>3, PricingFacts
    <2>2. /\ stage'[o] = "done" /\ status'[o] = "Skipped"
          /\ \A p \in Opps \ {o} : stage'[p] = stage[p] /\ status'[p] = status[p]
      BY <1>1, <1>6, <2>1, FinishFacts
    <2>3. QueueExact'
      BY <1>2, <1>4, <1>5, <1>6, <2>2 DEF Track, QueueExact
    <2>4. StatusByPlace'
      BY <1>2, <1>6, <2>2 DEF Track, StatusByPlace
    <2>5. BundleByPlace' /\ ReportsAreTrue'
      BY <1>2, <1>3, <1>6, <2>2 DEF TakeJob, Track, BundleByPlace, ReportsAreTrue, world
    <2> QED  BY <2>3, <2>4, <2>5 DEF Track
  <1>7. CASE /\ stage' = [stage EXCEPT ![o] = "sim"]
             /\ pc' = "simulate" /\ cur' = {o} /\ UNCHANGED <<status, job>>
    <2>1. QueueExact'
      BY <1>t, <1>1, <1>2, <1>4, <1>5, <1>7 DEF Track, QueueExact
    <2>2. StatusByPlace'
      BY <1>t, <1>1, <1>2, <1>3, <1>7 DEF Track, StatusByPlace, LivePcs
    <2>3. BundleByPlace' /\ ReportsAreTrue'
      BY <1>7 DEF TakeJob, Track, BundleByPlace, ReportsAreTrue, world
    <2> QED  BY <2>1, <2>2, <2>3 DEF Track
  <1> QED  BY <1>6, <1>7 DEF TakeJob

\* The steps of simulate_job, decide and paper_fill.
LEMMA TrackJob ==
    ASSUME TypeOK, Control, Track, NEW o \in cur, Simulated(o) \/ Decide(o) \/ PaperFill(o)
    PROVE  Track'
  <1> USE DEF world
  <1>h. /\ o \in Opps /\ cur = {o} /\ status \in [Opps -> Statuses]
        /\ mode \in {"Paper", "Confirm", "Live"}
    BY HeldFacts DEF TypeOK, PipelineType, SettingsType
  <1>1. CASE Simulated(o)
    <2>1. /\ pc = "simulate" /\ status[o] \in {"Quoted", "Skipped"} /\ bundle[o].state = "none"
          /\ UNCHANGED <<queue, bundle, outcome>>
      BY <1>1, HeldFacts DEF Simulated
    <2>2. \A s : s # "Quoted" /\ (\E f \in TipFloors, worse \in {0, 1}, others \in BOOLEAN :
                     s = KeepSkip(status[o], PricedStatus(Net(job[o].gross, f, worse), f, others)))
                   => s = "Skipped"
      BY <2>1, PricingFacts
    <2>3. CASE Done(o, KeepSkip(status[o], "Skipped"))
      BY <2>1, <2>3, PricingFacts, TrackDone DEF Refusals
    <2>4. CASE \E s \in {"Skipped"} : Done(o, s)
      BY <2>1, <2>4, TrackDone DEF Refusals
    <2>5. CASE \E f \in TipFloors, worse \in {0, 1}, others \in BOOLEAN :
                 /\ KeepSkip(status[o], PricedStatus(Net(job[o].gross, f, worse), f, others)) = "Quoted"
                 /\ pc' = "decide" /\ UNCHANGED <<cur, stage, status>>
      <3>1. status[o] = "Quoted"
        BY <2>1, <2>5, PricingFacts
      <3> QED  BY <2>1, <2>5, <3>1, TrackGoesOn
    <2> QED  BY <1>1, <2>2, <2>3, <2>4, <2>5 DEF Simulated
  <1>2. CASE Decide(o)
    <2>1. pc = "decide" /\ status[o] = "Quoted" /\ bundle[o].state = "none" /\ UNCHANGED <<queue, bundle, outcome>>
      BY <1>2, HeldFacts DEF Decide
    <2>2. CASE Done(o, "Skipped")
      BY <2>1, <2>2, TrackDone DEF Refusals
    <2>3. CASE /\ status' = [status EXCEPT ![o] = "Executable"]
               /\ pc' = CASE mode = "Paper"   -> "paper"
                          [] mode = "Confirm" -> "register"
                          [] mode = "Live"    -> "compose"
               /\ UNCHANGED <<cur, stage>>
      <3>1. pc' \in {"paper", "register", "compose"}
        BY <1>h, <2>3
      <3>2. status'[o] = "Executable" /\ \A p \in Opps \ {o} : status'[p] = status[p]
        BY <1>h, <2>3
      <3> QED  BY <2>1, <2>3, <3>1, <3>2, TrackGoesOn
    <2> QED  BY <1>2, <2>2, <2>3 DEF Decide
  <1>3. CASE PaperFill(o)
    <2>1. bundle[o].state = "none" /\ Done(o, "PaperFilled") /\ UNCHANGED <<queue, bundle>>
      BY <1>3, HeldFacts DEF PaperFill
    <2> QED  BY <2>1, TrackDone DEF Refusals
  <1> QED  BY <1>1, <1>2, <1>3

\* The steps of confirm_then_send.
LEMMA TrackConfirm ==
    ASSUME TypeOK, Control, Track, NEW o \in cur,
           RegisterConfirm(o) \/ Answered(o) \/ ConfirmTimeout \/ Expire(o)
    PROVE  Track'
  <1> USE DEF world, pipeline
  <1>h. o \in Opps /\ cur = {o} /\ status \in [Opps -> Statuses]
    BY HeldFacts DEF TypeOK, PipelineType
  <1>1. CASE RegisterConfirm(o)
    <2>1. /\ pc' = "confirm" /\ bundle[o].state = "none" /\ status'[o] = "AwaitingConfirm"
          /\ \A p \in Opps \ {o} : status'[p] = status[p]
      BY <1>1, <1>h, HeldFacts DEF RegisterConfirm
    <2> QED  BY <1>1, <2>1, TrackGoesOn DEF RegisterConfirm
  <1>2. CASE Answered(o)
    <2>1. status[o] = "AwaitingConfirm" /\ bundle[o].state = "none" /\ UNCHANGED <<queue, bundle, outcome>>
      BY <1>2, HeldFacts DEF Answered
    <2>2. CASE \E s \in {"Declined", "Skipped"} : Done(o, s)
      BY <2>1, <2>2, TrackDone DEF Refusals
    <2>3. CASE pc' = "compose" /\ UNCHANGED <<cur, stage, status>>
      BY <2>1, <2>3, TrackGoesOn
    <2> QED  BY <1>2, <2>2, <2>3 DEF Answered
  <1>3. CASE ConfirmTimeout
    <2>1. status[o] = "AwaitingConfirm" /\ bundle[o].state = "none"
      BY <1>3, HeldFacts DEF ConfirmTimeout
    <2> QED  BY <1>3, <2>1, TrackGoesOn DEF ConfirmTimeout
  <1>4. CASE Expire(o)
    <2>1. bundle[o].state = "none" /\ Done(o, "Expired") /\ UNCHANGED <<queue, bundle>>
      BY <1>4, HeldFacts DEF Expire
    <2> QED  BY <2>1, TrackDone DEF Refusals
  <1> QED  BY <1>1, <1>2, <1>3, <1>4

\* The steps of send_live and execute_live.
LEMMA TrackLive ==
    ASSUME TypeOK, Control, Track, NEW o \in cur,
           \/ Compose(o) \/ SignLive(o) \/ FinalSim \/ PreBalance \/ SendBundle(o)
           \/ PollInflight(o) \/ PollStatus(o) \/ PollTimeout \/ PostBalance \/ Close(o)
    PROVE  Track'
  <1> USE DEF world, pipeline, LiveStep, Return, LivePcs
  <1>h. o \in Opps /\ cur = {o} /\ status \in [Opps -> Statuses] /\ bundle \in [Opps -> Bundles]
    BY HeldFacts DEF TypeOK, PipelineType, WorldType
  <1>1. CASE Compose(o)
    <2>1. bundle[o].state = "none" /\ UNCHANGED <<queue, bundle, outcome>>
      BY <1>1, HeldFacts DEF Compose
    <2>2. CASE Done(o, "Skipped")
      BY <2>1, <2>2, TrackDone DEF Refusals
    <2>3. CASE /\ status' = [status EXCEPT ![o] = "Submitted"]
               /\ pc' = "live" /\ UNCHANGED <<cur, stage>>
      BY <1>h, <2>1, <2>3, TrackGoesOn
    <2> QED  BY <1>1, <2>2, <2>3 DEF Compose
  <1>2. CASE SignLive(o) \/ FinalSim \/ PreBalance
    <2>1. status[o] = "Submitted" /\ bundle[o].state = "none"
      BY <1>2, HeldFacts DEF SignLive, FinalSim, PreBalance
    <2>2. /\ UNCHANGED <<stage, status, queue, cur, bundle>>
          /\ \/ pc' = "close" /\ outcome' = "NotSent"
             \/ pc' \in {"finalsim", "balance", "send"}
      BY <1>2 DEF SignLive, FinalSim, PreBalance
    <2> QED  BY <2>1, <2>2, TrackGoesOn
  <1>3. CASE SendBundle(o)
    <2>1. status[o] = "Submitted"
      BY <1>3, HeldFacts DEF SendBundle
    <2>2. /\ UNCHANGED <<stage, status, queue, cur>>
          /\ \A p \in Opps \ {o} : bundle'[p] = bundle[p]
          /\ (pc' = "close" /\ outcome' = "NotSent") \/ pc' = "poll"
      BY <1>3, <1>h DEF SendBundle
    <2> QED  BY <2>1, <2>2, TrackGoesOn
  <1>4. CASE PollInflight(o) \/ PollStatus(o) \/ PollTimeout
    <2>1. status[o] = "Submitted"
      BY <1>4, HeldFacts DEF PollInflight, PollStatus, PollTimeout
    <2>2. /\ UNCHANGED <<stage, status, queue, cur, bundle>>
          /\ \/ pc' = "close" /\ outcome' \in {"Failed", "TimedOut"}
             \/ pc' = "confirmed" /\ bundle[o].state \in {"landed", "reverted"}
             \/ pc' = "post" /\ bundle[o].state = "landed"
      BY <1>4 DEF PollInflight, PollStatus, PollTimeout
    <2> QED  BY <2>1, <2>2, TrackGoesOn
  <1>5. CASE PostBalance
    <2>1. status[o] = "Submitted" /\ bundle[o].state = "landed"
      BY <1>5, HeldFacts DEF PostBalance
    <2>2. UNCHANGED <<stage, status, queue, cur, bundle>> /\ pc' = "close"
      BY <1>5 DEF PostBalance
    <2> QED  BY <2>1, <2>2, TrackGoesOn
  <1>6. CASE Close(o)
    <2>1. UNCHANGED <<queue, bundle>>
      BY <1>6 DEF Close
    <2>2. CASE outcome \in {"Landed", "LandedUnknown"}
      <3>1. Done(o, "Landed") /\ bundle[o].state = "landed"
        BY <1>6, <2>2, HeldFacts DEF Close
      <3> QED  BY <2>1, <3>1, TrackDone DEF Refusals
    <2>3. CASE outcome \notin {"Landed", "LandedUnknown"}
      <3>1. Done(o, "Failed")
        BY <1>6, <2>3 DEF Close
      <3> QED  BY <2>1, <3>1, TrackDone DEF Refusals
    <2> QED  BY <2>2, <2>3
  <1> QED  BY <1>1, <1>2, <1>3, <1>4, <1>5, <1>6

\* The operator's commands, time and the chain.
LEMMA TrackOthers ==
    ASSUME TypeOK, Control, Track, Operator \/ World
    PROVE  Track'
  <1> USE DEF world, pipeline, simulator, settings, history
  <1>t. /\ stage \in [Opps -> Stages] /\ status \in [Opps -> Statuses]
        /\ bundle \in [Opps -> Bundles] /\ queue \in Seq(Opps)
    BY DEF TypeOK, PipelineType, WorldType
  <1>1. CASE KillSwitch \/ NewDay \/ Tick
    BY <1>1, TrackFrame DEF KillSwitch, NewDay, Tick
  <1>2. CASE \E t \in Thresholds, allowLoss \in BOOLEAN : SetThresholds(t, allowLoss)
    BY <1>2, TrackFrame DEF SetThresholds
  <1>3. CASE \E o \in Opps, approve \in BOOLEAN : Resolve(o, approve)
    BY <1>3, TrackFrame DEF Resolve
  <1>4. CASE Restart
    <2>1. /\ \A o \in Opps : stage'[o] = (IF stage[o] = "new" THEN "new" ELSE "done")
          /\ queue' = <<>> /\ cur' = {} /\ UNCHANGED <<status, bundle>>
      BY <1>4 DEF Restart
    <2>2. QueueExact' /\ StatusByPlace'
      BY <2>1 DEF Track, QueueExact, StatusByPlace
    <2>3. BundleByPlace' /\ ReportsAreTrue'
      BY <2>1 DEF Track, BundleByPlace, ReportsAreTrue
    <2> QED  BY <2>2, <2>3 DEF Track
  <1>5. ASSUME NEW o \in Opps, Settle(o)
        PROVE  Track'
    <2>1. /\ bundle[o].state = "flying" /\ bundle'[o].state \in {"landed", "reverted", "dropped"}
          /\ \A p \in Opps \ {o} : bundle'[p] = bundle[p]
          /\ UNCHANGED <<stage, status, queue, pc, cur, outcome>>
      BY <1>t, <1>5 DEF Settle, NoBundle
    <2>2. QueueExact' /\ StatusByPlace'
      BY <2>1 DEF Track, QueueExact, StatusByPlace
    <2>3. BundleByPlace' /\ ReportsAreTrue'
      BY <2>1 DEF Track, BundleByPlace, ReportsAreTrue
    <2> QED  BY <2>2, <2>3 DEF Track
  <1> QED  BY <1>1, <1>2, <1>3, <1>4, <1>5 DEF Operator, World

\* A step of the simulator task is one of its receive or of its one job's.
LEMMA SimulatorSteps ==
    ASSUME TypeOK, Control, Simulator
    PROVE  \/ TakeJob
           \/ \E o \in cur :
                \/ Simulated(o) \/ Decide(o) \/ PaperFill(o)
                \/ RegisterConfirm(o) \/ Answered(o) \/ ConfirmTimeout \/ Expire(o)
                \/ Compose(o) \/ SignLive(o) \/ FinalSim \/ PreBalance \/ SendBundle(o)
                \/ PollInflight(o) \/ PollStatus(o) \/ PollTimeout \/ PostBalance \/ Close(o)
  <1>1. pc # "idle" => \E o \in cur : TRUE
    BY DEF Control, OneJobAtATime
  <1>2. CASE ConfirmTimeout \/ FinalSim \/ PreBalance \/ PollTimeout \/ PostBalance
    <2>1. pc # "idle"
      BY <1>2 DEF ConfirmTimeout, FinalSim, PreBalance, PollTimeout, PostBalance, Return, LiveStep
    <2> QED  BY <1>1, <1>2, <2>1
  <1>3. CASE \E o \in Opps :
               \/ Simulated(o) \/ Decide(o) \/ PaperFill(o)
               \/ RegisterConfirm(o) \/ Answered(o) \/ Expire(o)
               \/ Compose(o) \/ SignLive(o) \/ SendBundle(o)
               \/ PollInflight(o) \/ PollStatus(o) \/ Close(o)
    <2>1. PICK o \in Opps :
               \/ Simulated(o) \/ Decide(o) \/ PaperFill(o)
               \/ RegisterConfirm(o) \/ Answered(o) \/ Expire(o)
               \/ Compose(o) \/ SignLive(o) \/ SendBundle(o)
               \/ PollInflight(o) \/ PollStatus(o) \/ Close(o)
      BY <1>3
    <2>2. o \in cur
      BY <2>1 DEF Simulated, Decide, PaperFill, RegisterConfirm, Answered, Expire, Compose,
                  SignLive, SendBundle, PollInflight, PollStatus, Close
    <2> QED  BY <2>1, <2>2
  <1> QED  BY <1>2, <1>3 DEF Simulator

LEMMA TrackStep == TypeOK /\ Control /\ Track /\ [Next]_vars => Track'
  <1> SUFFICES ASSUME TypeOK, Control, Track, [Next]_vars PROVE Track'
    OBVIOUS
  <1>1. CASE UNCHANGED vars
    BY <1>1, TrackFrame DEF vars, pipeline, simulator, world
  <1>2. CASE \E o \in Opps : Evaluation(o)
    BY <1>2, TrackEvaluation
  <1>3. CASE Simulator
    BY <1>3, SimulatorSteps, TrackTake, TrackJob, TrackConfirm, TrackLive
  <1>4. CASE Operator \/ World
    BY <1>4, TrackOthers
  <1> QED  BY <1>1, <1>2, <1>3, <1>4 DEF Next

\* The inductive invariant: a queued job is in the channel once, a held one is
\* the simulator's, and both tell what its status and its bundle are.
THEOREM TrackCorrect == Spec => []Track
  BY TypeInit, TypeStep, ControlInit, ControlStep, TrackInit, TrackStep, PTL DEF Spec

\* What the pipeline reports is what the chain did: Landed is reported only of
\* a bundle that landed without an error, and for an opportunity that was
\* refused, given up or filled on paper nothing was ever sent.
THEOREM ReportsCorrect == Spec => []ReportsAreTrue
  BY TrackCorrect, PTL DEF Track

----------------------------------------------------------------------------
(* What was approved gains, and what is sent guarantees its costs *)

\* A costed route counts its tip, which is never above the policy's cap.
LEMMA CostedFacts ==
    ASSUME NEW g \in Int, NEW f \in Int, NEW t \in TipFloors, NEW w \in Nat, NEW a, NEW e
    PROVE  /\ Costed(g, f, t, w, a, e).net <= g - Costed(g, f, t, w, a, e).tip
           /\ Costed(g, f, t, w, a, e).tip <= MaxTip
           /\ Costed(g, f, t, w, a, e).gross = g
           /\ Costed(g, f, t, w, a, e).floor = f
           /\ Costed(g, f, t, w, a, e).net = Net(g, t, w)
  <1>1. Tip(t) \in Nat /\ Tip(t) <= MaxTip
    BY DEF Tip
  <1> QED  BY <1>1 DEF Costed, Net

\* The same of a quote: its result, and its result less the tolerance.
LEMMA QuoteFacts ==
    ASSUME NEW g \in Grosses, NEW d \in Tolerances, NEW t \in TipFloors, NEW a
    PROVE  LET j == Costed(g, g - d, t, 0, a, FALSE)
           IN  j.net <= j.gross - j.tip /\ j.tip <= MaxTip /\ j.floor = g - d /\ g - d \in Int
  <1>1. g \in Int /\ g - d \in Int /\ Tip(t) \in Nat /\ Tip(t) <= MaxTip
    BY DEF Tip
  <1> QED  BY <1>1 DEF Costed, Net

\* Requiring and InOneTx change one field each.
LEMMA JobUpdateFacts ==
    ASSUME NEW j \in Jobs, NEW r
    PROVE  /\ Requiring(j, r).gross = j.gross /\ Requiring(j, r).floor = j.floor
           /\ Requiring(j, r).tip = j.tip /\ Requiring(j, r).net = j.net
           /\ Requiring(j, r).required = r
           /\ InOneTx(j).gross = j.gross /\ InOneTx(j).floor = j.floor
           /\ InOneTx(j).tip = j.tip /\ InOneTx(j).net = j.net
  BY DEF Jobs, Requiring, InOneTx

LEMMA MoneyInit == Init => Money
  <1> SUFFICES ASSUME Init PROVE Money
    OBVIOUS
  <1>1. CostsCounted
    BY DEF Init, CostsCounted, NoJob
  <1>2. ApprovedIsSound /\ DaysBegin
    BY DEF Init, ApprovedIsSound, ApprovedPcs, LivePcs, DaysBegin, RiskDefault
  <1>3. Protected
    BY DEF Init, Protected
  <1>4. SentIsSafe
    BY DEF Init, SentIsSafe, SentWasProfitable, LossWithinTip, NoBundle
  <1> QED  BY <1>1, <1>2, <1>3, <1>4 DEF Money

\* A step that leaves all that Money speaks of alone.
LEMMA MoneyFrame ==
    ASSUME Money, UNCHANGED <<th, lossAllowed, stage, status, job, pc, cur, risk, today, bundle>>
    PROVE  Money'
  BY DEF Money, CostsCounted, ApprovedIsSound, DaysBegin, Protected, SentIsSafe,
         SentWasProfitable, LossWithinTip, LossPossible

\* An evaluation task that changes its own opportunity: the new job counts its
\* tip, and where protection is on its minimum output covers the costs.
LEMMA MoneyEvaluated ==
    ASSUME TypeOK, Money, NEW o \in Opps, o \notin cur,
           UNCHANGED <<th, lossAllowed, pc, cur, risk, today, bundle>>,
           \A p \in Opps \ {o} : stage'[p] = stage[p] /\ status'[p] = status[p] /\ job'[p] = job[p],
           job'[o].net <= job'[o].gross - job'[o].tip /\ job'[o].tip <= MaxTip,
           ~lossAllowed /\ stage'[o] \in {"built", "submit", "queued", "sim"} /\ status'[o] # "Skipped"
              => job'[o].floor >= 0,
           ~lossAllowed /\ stage'[o] = "requote" => job'[o].required >= 0
    PROVE  Money'
  <1>1. CostsCounted'
    BY DEF Money, CostsCounted
  <1>2. ApprovedIsSound' /\ DaysBegin'
    BY DEF Money, ApprovedIsSound, DaysBegin, TypeOK, SimulatorType
  <1>3. Protected'
    BY DEF Money, Protected, LossPossible
  <1>4. SentIsSafe'
    BY DEF Money, SentIsSafe, SentWasProfitable, LossWithinTip
  <1> QED  BY <1>1, <1>2, <1>3, <1>4 DEF Money

\* The empty job left behind is sound.
LEMMA NoJobFacts ==
    /\ NoJob.net <= NoJob.gross - NoJob.tip /\ NoJob.tip <= MaxTip
    /\ NoJob.floor = 0 /\ NoJob.required = 0
  BY DEF NoJob

LEMMA MoneyEvaluation ==
    ASSUME TypeOK, Track, Money, NEW o \in Opps, Evaluation(o)
    PROVE  Money'
  <1> USE DEF simulator, world, settings, history
  <1>t. /\ stage \in [Opps -> Stages] /\ status \in [Opps -> Statuses] /\ job \in [Opps -> Jobs]
        /\ job[o] \in Jobs /\ th.minProfit \in Int
    BY DEF TypeOK, PipelineType, SettingsType, Thresholds
  <1>s. stage[o] \notin {"sim", "done"}
    BY DEF Evaluation, BuildError, Price, Protect, Requote, Assemble, Enqueue, Drop
  <1>c. o \notin cur
    BY <1>s, VerdictSoFar
  <1>u. UNCHANGED <<th, lossAllowed, pc, cur, risk, today, bundle>>
    BY DEF Evaluation, BuildError, Price, Protect, Requote, Assemble, Enqueue, Drop
  <1>j. /\ job[o].net <= job[o].gross - job[o].tip /\ job[o].tip <= MaxTip /\ job[o].tip \in Nat
        /\ job[o].gross \in Int /\ job[o].floor \in Int
    BY <1>t, JobFields DEF Money, CostsCounted
  <1>p. /\ ~lossAllowed => th.protect /\ th.minProfit >= 0
        /\ ~lossAllowed /\ stage[o] \in {"built", "submit", "queued", "sim"} /\ status[o] # "Skipped"
              => job[o].floor >= 0
        /\ ~lossAllowed /\ stage[o] = "requote" => job[o].required >= 0
    BY <1>t DEF Money, Protected, LossPossible
  <1>f. \A s : Finish(o, s) => Money'
    <2> SUFFICES ASSUME NEW s, Finish(o, s) PROVE Money'
      OBVIOUS
    <2> QED  BY <1>c, <1>u, FinishFacts, NoJobFacts, MoneyEvaluated
  <1>1. CASE BuildError(o) \/ Drop(o)
    BY <1>1, <1>f DEF BuildError, Drop
  <1>2. CASE Price(o)
    <2>1. PICK g \in Grosses, d \in Tolerances, f \in TipFloors :
             job' = [job EXCEPT ![o] = Costed(g, g - d, f, 0, 0, FALSE)]
      BY <1>2 DEF Price
    <2>2. /\ stage' = [stage EXCEPT ![o] = "priced"]
          /\ \A p \in Opps \ {o} : status'[p] = status[p]
      BY <1>2, <1>t DEF Price
    <2>3. /\ job'[o].net <= job'[o].gross - job'[o].tip /\ job'[o].tip <= MaxTip
          /\ \A p \in Opps \ {o} : job'[p] = job[p]
      BY <1>t, <2>1, QuoteFacts
    <2> QED  BY <1>t, <1>c, <1>u, <2>2, <2>3, MoneyEvaluated
  <1>3. CASE Protect(o)
    <2> DEFINE r == RequiredFinalOut(job[o])
    <2>r. r \in Int /\ (~lossAllowed => r >= 0)
      BY <1>t, <1>j, <1>p DEF RequiredFinalOut
    <2>q. ~lossAllowed => th.protect
      BY <1>p
    <2>1. CASE /\ stage' = [stage EXCEPT ![o] = "built"] /\ job' = job
               /\ \A p \in Opps \ {o} : status'[p] = status[p]
               /\ ~th.protect \/ status'[o] = "Skipped" \/ job[o].floor >= r
      BY <1>t, <1>c, <1>u, <1>j, <2>1, <2>r, <2>q, MoneyEvaluated
    <2>2. CASE /\ stage' = [stage EXCEPT ![o] = "requote"] /\ status' = status
               /\ job' = [job EXCEPT ![o] = Requiring(job[o], r)]
      <3>1. /\ job'[o].net <= job'[o].gross - job'[o].tip /\ job'[o].tip <= MaxTip
            /\ job'[o].required = r /\ \A p \in Opps \ {o} : job'[p] = job[p]
        BY <1>t, <1>j, <2>2, JobUpdateFacts
      <3> QED  BY <1>t, <1>c, <1>u, <2>2, <2>r, <3>1, MoneyEvaluated
    <2>3. \/ /\ stage' = [stage EXCEPT ![o] = "built"] /\ job' = job
             /\ \A p \in Opps \ {o} : status'[p] = status[p]
             /\ ~th.protect \/ status'[o] = "Skipped" \/ job[o].floor >= r
          \/ /\ stage' = [stage EXCEPT ![o] = "requote"] /\ status' = status
             /\ job' = [job EXCEPT ![o] = Requiring(job[o], r)]
      <3>1. status[o] \in {"Quoted", "Skipped"}
        BY <1>3 DEF Protect, Track, StatusByPlace
      <3>2. CASE /\ ~th.protect \/ status[o] # "Quoted"
                 /\ stage' = [stage EXCEPT ![o] = "built"] /\ UNCHANGED <<status, job>>
        BY <3>1, <3>2
      <3>3. CASE /\ stage' = [stage EXCEPT ![o] = "built"]
                 /\ status' = [status EXCEPT ![o] = "Skipped"] /\ UNCHANGED job
        BY <1>t, <3>3
      <3>4. CASE /\ IF NeedsRequote(job[o], r)
                    THEN /\ stage' = [stage EXCEPT ![o] = "requote"]
                         /\ job' = [job EXCEPT ![o] = Requiring(@, r)]
                    ELSE stage' = [stage EXCEPT ![o] = "built"] /\ UNCHANGED job
                 /\ UNCHANGED status
        <4>1. CASE NeedsRequote(job[o], r)
          BY <3>4, <4>1, <1>t
        <4>2. CASE ~NeedsRequote(job[o], r)
          BY <3>4, <4>2, <1>j, <2>r DEF NeedsRequote
        <4> QED  BY <4>1, <4>2
      <3> QED  BY <1>3, <3>2, <3>3, <3>4 DEF Protect
    <2> QED  BY <2>1, <2>2, <2>3
  <1>4. CASE Requote(o)
    <2>0. stage[o] = "requote" /\ stage' = [stage EXCEPT ![o] = "built"]
      BY <1>4 DEF Requote
    <2>1. CASE \E g \in Grosses, d \in Tolerances, f \in TipFloors, s \in {"Quoted", "Skipped"} :
                 /\ g - d >= job[o].required
                 /\ status' = [status EXCEPT ![o] = s]
                 /\ job' = [job EXCEPT ![o] = Costed(g, g - d, f, 0, job[o].age, FALSE)]
      <3>1. PICK g \in Grosses, d \in Tolerances, f \in TipFloors, s \in {"Quoted", "Skipped"} :
                 /\ g - d >= job[o].required
                 /\ status' = [status EXCEPT ![o] = s]
                 /\ job' = [job EXCEPT ![o] = Costed(g, g - d, f, 0, job[o].age, FALSE)]
        BY <2>1
      <3>2. /\ job'[o].net <= job'[o].gross - job'[o].tip /\ job'[o].tip <= MaxTip
            /\ job'[o].floor = g - d /\ g - d \in Int
            /\ \A p \in Opps \ {o} : job'[p] = job[p] /\ status'[p] = status[p]
        BY <1>t, <3>1, QuoteFacts
      <3>3. job[o].required \in Int
        BY <1>t, JobFields
      <3>4. ~lossAllowed => job'[o].floor >= 0
        <4>1. g - d >= job[o].required /\ job'[o].floor = g - d /\ g - d \in Int
          BY <3>1, <3>2
        <4>2. ~lossAllowed => job[o].required >= 0
          BY <1>p, <2>0
        <4> QED  BY <3>3, <4>1, <4>2
      <3> QED  BY <1>t, <1>c, <1>u, <2>0, <3>2, <3>4, MoneyEvaluated
    <2>2. CASE /\ status' = [status EXCEPT ![o] = "Skipped"]
               /\ job' = [job EXCEPT ![o] = Requiring(job[o], 0)]
      <3>1. /\ job'[o].net <= job'[o].gross - job'[o].tip /\ job'[o].tip <= MaxTip
            /\ \A p \in Opps \ {o} : job'[p] = job[p] /\ status'[p] = status[p]
            /\ status'[o] = "Skipped"
        BY <1>t, <1>j, <2>2, JobUpdateFacts
      <3> QED  BY <1>t, <1>c, <1>u, <2>0, <3>1, MoneyEvaluated
    <2>3. \A g \in Grosses, d \in Tolerances, f \in TipFloors, others \in BOOLEAN :
             PricedStatus(Net(g, f, 0), f, others) \in {"Quoted", "Skipped"}
      BY PricingFacts
    <2> QED  BY <1>4, <2>1, <2>2, <2>3 DEF Requote
  <1>5. CASE Assemble(o)
    <2>1. stage[o] = "built" /\ status[o] \in {"Quoted", "Skipped"}
      BY <1>5 DEF Assemble, Track, StatusByPlace
    <2>2. CASE Finish(o, "Skipped")
      BY <2>2, <1>f
    <2>3. CASE ~Finish(o, "Skipped")
      <3>0. stage' = [stage EXCEPT ![o] = "submit"]
        BY <1>5, <2>3 DEF Assemble
      <3>1. CASE job' = [job EXCEPT ![o] = InOneTx(job[o])] /\ UNCHANGED status
        <4>1. /\ job'[o].net <= job'[o].gross - job'[o].tip /\ job'[o].tip <= MaxTip
              /\ job'[o].floor = job[o].floor
              /\ \A p \in Opps \ {o} : job'[p] = job[p]
          BY <1>t, <1>j, <3>1, JobUpdateFacts
        <4> QED  BY <1>t, <1>c, <1>u, <1>p, <2>1, <3>0, <3>1, <4>1, MoneyEvaluated
      <3>2. CASE \E exact \in BOOLEAN, f \in TipFloors, others \in BOOLEAN :
                    /\ status' = [status EXCEPT ![o] =
                          KeepSkip(status[o], PricedStatus(Net(job[o].gross, f, 0), f, others))]
                    /\ job' = [job EXCEPT ![o] =
                          Costed(job[o].gross, job[o].floor, f, 0, job[o].age, exact)]
        <4>1. PICK exact \in BOOLEAN, f \in TipFloors, others \in BOOLEAN :
                    /\ status' = [status EXCEPT ![o] =
                          KeepSkip(status[o], PricedStatus(Net(job[o].gross, f, 0), f, others))]
                    /\ job' = [job EXCEPT ![o] =
                          Costed(job[o].gross, job[o].floor, f, 0, job[o].age, exact)]
          BY <3>2
        <4>2. /\ job'[o].net <= job'[o].gross - job'[o].tip /\ job'[o].tip <= MaxTip
              /\ job'[o].floor = job[o].floor
              /\ \A p \in Opps \ {o} : job'[p] = job[p] /\ status'[p] = status[p]
          BY <1>t, <1>j, <4>1, CostedFacts
        <4>3. status[o] = "Skipped" => status'[o] = "Skipped"
          BY <1>t, <4>1, PricingFacts
        <4> QED  BY <1>t, <1>c, <1>u, <1>p, <2>1, <3>0, <4>2, <4>3, MoneyEvaluated
      <3> QED  BY <1>5, <2>3, <3>1, <3>2 DEF Assemble
    <2> QED  BY <2>2, <2>3
  <1>6. CASE Enqueue(o)
    <2>1. /\ stage[o] = "submit" /\ stage' = [stage EXCEPT ![o] = "queued"]
          /\ UNCHANGED <<status, job>>
      BY <1>6 DEF Enqueue
    <2> QED  BY <1>t, <1>c, <1>u, <1>j, <1>p, <2>1, MoneyEvaluated
  <1> QED  BY <1>1, <1>2, <1>3, <1>4, <1>5, <1>6 DEF Evaluation

\* The simulator task ends its job; if it books something, it is of today.
LEMMA MoneyDone ==
    ASSUME TypeOK, Control, Track, Money, NEW o \in cur, NEW s, Done(o, s),
           UNCHANGED <<th, lossAllowed, today, bundle>>,
           risk' = risk \/ risk'.day = today
    PROVE  Money'
  <1>1. o \in Opps
    BY HeldFacts
  <1>2. /\ stage'[o] = "done" /\ job'[o] = NoJob /\ pc' = "idle"
        /\ \A p \in Opps \ {o} : stage'[p] = stage[p] /\ status'[p] = status[p] /\ job'[p] = job[p]
    BY <1>1, FinishFacts DEF Done
  <1>3. CostsCounted'
    BY <1>1, <1>2, NoJobFacts DEF Money, CostsCounted
  <1>4. ApprovedIsSound' /\ DaysBegin'
    BY <1>2 DEF Money, ApprovedIsSound, ApprovedPcs, LivePcs, DaysBegin, TypeOK, WorldType
  <1>5. Protected'
    BY <1>1, <1>2 DEF Money, Protected, LossPossible
  <1>6. SentIsSafe'
    BY DEF Money, SentIsSafe, SentWasProfitable, LossWithinTip
  <1> QED  BY <1>3, <1>4, <1>5, <1>6 DEF Money

\* The simulator task goes on with the job as it is, and what was booked stays.
LEMMA MoneyGoesOn ==
    ASSUME TypeOK, Control, Track, Money, NEW o \in cur,
           UNCHANGED <<th, lossAllowed, stage, job, cur, today, bundle>>,
           \A p \in Opps \ {o} : status'[p] = status[p],
           status[o] # "Skipped",
           risk'.pnl = risk.pnl, risk'.day = risk.day,
           pc' \in ApprovedPcs => pc \in ApprovedPcs
    PROVE  Money'
  <1>1. CostsCounted' /\ DaysBegin'
    BY DEF Money, CostsCounted, DaysBegin
  <1>2. ApprovedIsSound'
    BY DEF Money, ApprovedIsSound
  <1>3. Protected'
    BY DEF Money, Protected, LossPossible
  <1>4. SentIsSafe'
    BY DEF Money, SentIsSafe, SentWasProfitable, LossWithinTip
  <1> QED  BY <1>1, <1>2, <1>3, <1>4 DEF Money

\* run_simulator's receive.
LEMMA MoneyTake ==
    ASSUME TypeOK, Control, Track, Money, TakeJob
    PROVE  Money'
  <1> USE DEF world, settings, history
  <1> DEFINE o == Head(queue)
  <1>1. /\ o \in Opps /\ stage[o] = "queued" /\ stage \in [Opps -> Stages]
        /\ UNCHANGED <<th, lossAllowed, risk, today, bundle>>
    BY DEF TakeJob, TypeOK, PipelineType, Track, QueueExact
  <1>2. CASE Finish(o, KeepSkip(status[o], "Skipped")) /\ UNCHANGED <<pc, cur>>
    <2>1. o \notin cur
      BY <1>1 DEF Track, QueueExact
    <2> QED  BY <1>1, <1>2, <2>1, FinishFacts, NoJobFacts, MoneyEvaluated
  <1>3. CASE /\ stage' = [stage EXCEPT ![o] = "sim"]
             /\ pc' = "simulate" /\ cur' = {o} /\ UNCHANGED <<status, job>>
    <2>1. CostsCounted' /\ DaysBegin'
      BY <1>1, <1>3 DEF Money, CostsCounted, DaysBegin
    <2>2. ApprovedIsSound'
      BY <1>3 DEF ApprovedIsSound, ApprovedPcs, LivePcs
    <2>3. Protected'
      BY <1>1, <1>3 DEF Money, Protected, LossPossible
    <2>4. SentIsSafe'
      BY <1>1 DEF Money, SentIsSafe, SentWasProfitable, LossWithinTip
    <2> QED  BY <2>1, <2>2, <2>3, <2>4 DEF Money
  <1> QED  BY <1>2, <1>3 DEF TakeJob

\* The steps of simulate_job, decide and paper_fill.
LEMMA MoneyJob ==
    ASSUME TypeOK, Control, Track, Money, NEW o \in cur, Simulated(o) \/ Decide(o) \/ PaperFill(o)
    PROVE  Money'
  <1> USE DEF world, settings, history
  <1>h. /\ o \in Opps /\ cur = {o} /\ stage[o] = "sim" /\ status \in [Opps -> Statuses]
        /\ job \in [Opps -> Jobs] /\ job[o] \in Jobs /\ th.maxLoss \in LossLimits
        /\ risk \in RiskState /\ today \in Nat
        /\ UNCHANGED <<th, lossAllowed, today, bundle>>
    BY HeldFacts
       DEF TypeOK, PipelineType, SettingsType, Thresholds, WorldType, Simulated, Decide, PaperFill
  <1>1. CASE Simulated(o)
    <2>0. status[o] \in {"Quoted", "Skipped"} /\ risk' = risk
      BY <1>1, HeldFacts DEF Simulated
    <2>1. CASE \E s : Done(o, s)
      BY <1>h, <2>0, <2>1, MoneyDone
    <2>2. CASE \E f \in TipFloors, worse \in {0, 1}, others \in BOOLEAN :
                 /\ KeepSkip(status[o], PricedStatus(Net(job[o].gross, f, worse), f, others)) = "Quoted"
                 /\ pc' = "decide"
                 /\ job' = [job EXCEPT ![o] =
                       Costed(job[o].gross, job[o].floor, f, worse, job[o].age, job[o].exact)]
                 /\ UNCHANGED <<cur, stage, status>>
      <3>1. PICK f \in TipFloors, worse \in {0, 1} :
                 /\ pc' = "decide"
                 /\ job' = [job EXCEPT ![o] =
                       Costed(job[o].gross, job[o].floor, f, worse, job[o].age, job[o].exact)]
                 /\ UNCHANGED <<cur, stage, status>>
        BY <2>2
      <3>2. status[o] = "Quoted"
        BY <2>0, <2>2, PricingFacts
      <3>3. job[o].gross \in Int /\ job[o].floor \in Int /\ worse \in Nat
        BY <1>h, JobFields
      <3>4. /\ job'[o].net <= job'[o].gross - job'[o].tip /\ job'[o].tip <= MaxTip
            /\ job'[o].floor = job[o].floor
            /\ \A p \in Opps \ {o} : job'[p] = job[p]
        BY <1>h, <3>1, <3>3, CostedFacts
      <3>5. CostsCounted' /\ DaysBegin'
        BY <1>h, <2>0, <3>4 DEF Money, CostsCounted, DaysBegin
      <3>6. ApprovedIsSound'
        BY <3>1 DEF ApprovedIsSound, ApprovedPcs, LivePcs
      <3>7. Protected'
        BY <1>h, <3>1, <3>2, <3>4 DEF Money, Protected, LossPossible
      <3>8. SentIsSafe'
        BY <1>h DEF Money, SentIsSafe, SentWasProfitable, LossWithinTip
      <3> QED  BY <3>5, <3>6, <3>7, <3>8 DEF Money
    <2> QED  BY <1>1, <2>1, <2>2 DEF Simulated
  <1>2. CASE Decide(o)
    <2>0. /\ status[o] = "Quoted" /\ risk' = RollDay(risk, today)
          /\ risk'.day = today
      BY <1>2, <1>h, HeldFacts, RollDayFacts DEF Decide
    <2>1. CASE Done(o, "Skipped")
      BY <1>h, <2>0, <2>1, MoneyDone
    <2>2. CASE \E others \in BOOLEAN :
                 /\ Approved(risk', Facts(o, others), th.maxLoss, kill)
                 /\ status' = [status EXCEPT ![o] = "Executable"]
                 /\ UNCHANGED <<cur, stage, job>>
      <3>1. job[o].net > 0 /\ -risk'.pnl < th.maxLoss
        BY <2>2 DEF Approved, LossBelowLimit, Facts
      <3>2. CostsCounted' /\ DaysBegin'
        BY <1>h, <2>0, <2>2 DEF Money, CostsCounted, DaysBegin
      <3>3. ApprovedIsSound'
        BY <1>h, <2>2, <3>1 DEF ApprovedIsSound
      <3>4. Protected'
        BY <1>h, <2>0, <2>2 DEF Money, Protected, LossPossible
      <3>5. SentIsSafe'
        BY <1>h DEF Money, SentIsSafe, SentWasProfitable, LossWithinTip
      <3> QED  BY <3>2, <3>3, <3>4, <3>5 DEF Money
    <2> QED  BY <1>2, <2>1, <2>2 DEF Decide
  <1>3. CASE PaperFill(o)
    <2>1. risk'.day = today /\ Done(o, "PaperFilled")
      BY <1>3 DEF PaperFill, CloseExecution
    <2> QED  BY <1>h, <2>1, MoneyDone
  <1> QED  BY <1>1, <1>2, <1>3

\* The steps of confirm_then_send.
LEMMA MoneyConfirm ==
    ASSUME TypeOK, Control, Track, Money, NEW o \in cur,
           RegisterConfirm(o) \/ Answered(o) \/ ConfirmTimeout \/ Expire(o)
    PROVE  Money'
  <1> USE DEF world, settings, history, pipeline
  <1>h. /\ o \in Opps /\ status \in [Opps -> Statuses]
        /\ UNCHANGED <<th, lossAllowed, risk, today, bundle>>
    BY HeldFacts DEF TypeOK, PipelineType, RegisterConfirm, Answered, ConfirmTimeout, Expire
  <1>1. CASE RegisterConfirm(o) \/ ConfirmTimeout
    <2>1. /\ status[o] # "Skipped" /\ pc \in ApprovedPcs
          /\ UNCHANGED <<stage, job, cur>> /\ \A p \in Opps \ {o} : status'[p] = status[p]
      BY <1>1, <1>h, HeldFacts DEF RegisterConfirm, ConfirmTimeout, ApprovedPcs
    <2> QED  BY <1>h, <2>1, MoneyGoesOn
  <1>2. CASE Answered(o)
    <2>1. CASE \E s \in {"Declined", "Skipped"} : Done(o, s)
      BY <1>h, <2>1, MoneyDone
    <2>2. CASE UNCHANGED <<cur, stage, status, job>>
      <3>1. status[o] # "Skipped" /\ pc \in ApprovedPcs
        BY <1>2, HeldFacts DEF Answered, ApprovedPcs
      <3> QED  BY <1>h, <2>2, <3>1, MoneyGoesOn
    <2> QED  BY <1>2, <2>1, <2>2 DEF Answered
  <1>3. CASE Expire(o)
    BY <1>3, <1>h, MoneyDone DEF Expire
  <1> QED  BY <1>1, <1>2, <1>3

\* The steps of send_live and execute_live.
LEMMA MoneyLive ==
    ASSUME TypeOK, Control, Track, Money, NEW o \in cur,
           \/ Compose(o) \/ SignLive(o) \/ FinalSim \/ PreBalance \/ SendBundle(o)
           \/ PollInflight(o) \/ PollStatus(o) \/ PollTimeout \/ PostBalance \/ Close(o)
    PROVE  Money'
  <1> USE DEF world, settings, history, pipeline
  <1>h. /\ o \in Opps /\ stage[o] = "sim" /\ status \in [Opps -> Statuses] /\ job[o] \in Jobs
        /\ bundle \in [Opps -> Bundles] /\ risk \in RiskState
        /\ UNCHANGED <<th, lossAllowed, today>>
    BY HeldFacts
       DEF TypeOK, PipelineType, WorldType, Compose, SignLive, FinalSim, PreBalance, SendBundle,
           PollInflight, PollStatus, PollTimeout, PostBalance, Close, LiveStep, Return
  <1>1. CASE Compose(o)
    <2>1. CASE Done(o, "Skipped") /\ UNCHANGED risk
      BY <1>1, <1>h, <2>1, MoneyDone DEF Compose
    <2>2. CASE /\ risk' = OpenExecution(risk) /\ pc' = "live"
               /\ status' = [status EXCEPT ![o] = "Submitted"]
               /\ UNCHANGED <<cur, stage, job>>
      <3>1. risk'.pnl = risk.pnl /\ risk'.day = risk.day
        BY <1>h, <2>2 DEF OpenExecution, RiskState
      <3>2. /\ status[o] # "Skipped" /\ pc \in ApprovedPcs /\ bundle' = bundle
            /\ \A p \in Opps \ {o} : status'[p] = status[p]
        BY <1>1, <1>h, <2>2, HeldFacts DEF Compose, ApprovedPcs
      <3> QED  BY <1>h, <2>2, <3>1, <3>2, MoneyGoesOn
    <2> QED  BY <1>1, <2>1, <2>2 DEF Compose
  <1>2. CASE \/ SignLive(o) \/ FinalSim \/ PreBalance
             \/ PollInflight(o) \/ PollStatus(o) \/ PollTimeout \/ PostBalance
    <2>1. /\ status[o] = "Submitted" /\ pc \in ApprovedPcs
          /\ UNCHANGED <<stage, status, job, cur, risk, bundle>>
      BY <1>2, HeldFacts
         DEF SignLive, FinalSim, PreBalance, PollInflight, PollStatus, PollTimeout, PostBalance,
             LiveStep, Return, LivePcs, ApprovedPcs
    <2> QED  BY <1>h, <2>1, MoneyGoesOn
  <1>3. CASE SendBundle(o)
    <2>1. /\ status[o] = "Submitted" /\ pc \in ApprovedPcs
          /\ UNCHANGED <<th, lossAllowed, stage, status, job, cur, risk, today>>
      BY <1>3, HeldFacts DEF SendBundle, LiveStep, Return, LivePcs, ApprovedPcs
    <2>2. CostsCounted' /\ DaysBegin' /\ Protected'
      BY <2>1 DEF Money, CostsCounted, DaysBegin, Protected, LossPossible
    <2>3. ApprovedIsSound'
      BY <2>1 DEF Money, ApprovedIsSound
    <2>4. CASE UNCHANGED bundle
      BY <2>1, <2>2, <2>3, <2>4 DEF Money, SentIsSafe, SentWasProfitable, LossWithinTip
    <2>5. CASE bundle' = [bundle EXCEPT ![o] =
                 [state |-> "flying", lo |-> job[o].floor - job[o].tip,
                  hi |-> job[o].gross - job[o].tip, day |-> today]]
      <3>1. /\ job[o].gross \in Int /\ job[o].floor \in Int /\ job[o].tip \in Nat /\ job[o].net \in Int
            /\ job[o].net <= job[o].gross - job[o].tip /\ job[o].tip <= MaxTip
        BY <1>h, JobFields DEF Money, CostsCounted
      <3>2. job[o].net > 0
        BY <2>1 DEF Money, ApprovedIsSound
      <3>3. ~lossAllowed => job[o].floor >= 0
        BY <1>h, <2>1 DEF Money, Protected
      <3>4. /\ bundle'[o].hi = job[o].gross - job[o].tip
            /\ bundle'[o].lo = job[o].floor - job[o].tip
            /\ \A p \in Opps \ {o} : bundle'[p] = bundle[p]
        BY <1>h, <2>5
      <3>5. bundle'[o].hi > 0
        BY <3>1, <3>2, <3>4
      <3>6. ~lossAllowed => bundle'[o].lo >= -MaxTip
        BY <3>1, <3>3, <3>4
      <3>7. SentIsSafe'
        BY <2>1, <3>4, <3>5, <3>6 DEF Money, SentIsSafe, SentWasProfitable, LossWithinTip
      <3> QED  BY <2>2, <2>3, <3>7 DEF Money
    <2> QED  BY <1>3, <2>4, <2>5 DEF SendBundle
  <1>4. CASE Close(o)
    <2>1. bundle' = bundle /\ risk'.day = today
      BY <1>4 DEF Close, CloseExecution
    <2>2. \E s : Done(o, s)
      BY <1>4 DEF Close
    <2> QED  BY <1>h, <2>1, <2>2, MoneyDone
  <1> QED  BY <1>1, <1>2, <1>3, <1>4

\* The operator's commands, time and the chain.
LEMMA MoneyOthers ==
    ASSUME TypeOK, Control, Track, Money, Operator \/ World
    PROVE  Money'
  <1> USE DEF world, pipeline, simulator, settings, history
  <1>t. /\ stage \in [Opps -> Stages] /\ job \in [Opps -> Jobs] /\ bundle \in [Opps -> Bundles]
        /\ today \in Nat
    BY DEF TypeOK, PipelineType, WorldType
  <1>1. CASE KillSwitch \/ \E o \in Opps, approve \in BOOLEAN : Resolve(o, approve)
    BY <1>1, MoneyFrame DEF KillSwitch, Resolve
  <1>2. CASE \E t \in Thresholds, allowLoss \in BOOLEAN : SetThresholds(t, allowLoss)
    <2>1. PICK t \in Thresholds, allowLoss \in BOOLEAN : SetThresholds(t, allowLoss)
      BY <1>2
    <2>2. /\ ~lossAllowed' => ~lossAllowed /\ ~LossPossible(th')
          /\ UNCHANGED <<stage, status, job, pc, cur, risk, today, bundle>>
      BY <2>1 DEF SetThresholds
    <2>3. CostsCounted' /\ ApprovedIsSound' /\ DaysBegin'
      BY <2>2 DEF Money, CostsCounted, ApprovedIsSound, DaysBegin
    <2>4. Protected'
      BY <2>2 DEF Money, Protected, LossPossible
    <2>5. SentIsSafe'
      BY <2>2 DEF Money, SentIsSafe, SentWasProfitable, LossWithinTip
    <2> QED  BY <2>3, <2>4, <2>5 DEF Money
  <1>3. CASE Restart
    <2>1. /\ ~lossAllowed' => ~lossAllowed /\ ~LossPossible(th')
          /\ \A o \in Opps : stage'[o] \in {"new", "done"} /\ job'[o] = NoJob
          /\ pc' = "idle" /\ risk' = RiskDefault /\ UNCHANGED <<today, bundle>>
      BY <1>3 DEF Restart
    <2>2. CostsCounted'
      BY <2>1, NoJobFacts DEF CostsCounted
    <2>3. ApprovedIsSound' /\ DaysBegin'
      BY <2>1 DEF Money, ApprovedIsSound, DaysBegin, RiskDefault, ApprovedPcs, LivePcs
    <2>4. Protected'
      BY <2>1 DEF Protected, LossPossible
    <2>5. SentIsSafe'
      BY <2>1 DEF Money, SentIsSafe, SentWasProfitable, LossWithinTip
    <2> QED  BY <2>2, <2>3, <2>4, <2>5 DEF Money
  <1>4. CASE Tick
    <2>1. /\ UNCHANGED <<th, lossAllowed, stage, status, pc, cur, risk, today, bundle>>
          /\ \A o \in Opps : /\ job'[o].net = job[o].net /\ job'[o].gross = job[o].gross
                             /\ job'[o].tip = job[o].tip /\ job'[o].floor = job[o].floor
                             /\ job'[o].required = job[o].required
      BY <1>t, <1>4 DEF Tick, Jobs
    <2>2. CostsCounted' /\ ApprovedIsSound' /\ DaysBegin'
      BY <2>1 DEF Money, CostsCounted, ApprovedIsSound, DaysBegin, TypeOK, SimulatorType
    <2>3. Protected'
      BY <2>1 DEF Money, Protected, LossPossible
    <2>4. SentIsSafe'
      BY <2>1 DEF Money, SentIsSafe, SentWasProfitable, LossWithinTip
    <2> QED  BY <2>2, <2>3, <2>4 DEF Money
  <1>5. CASE NewDay
    <2>1. /\ UNCHANGED <<th, lossAllowed, stage, status, job, pc, cur, risk, bundle>>
          /\ today' = today + 1
      BY <1>5 DEF NewDay
    <2>2. CostsCounted' /\ ApprovedIsSound' /\ DaysBegin'
      BY <1>t, <2>1 DEF Money, CostsCounted, ApprovedIsSound, DaysBegin
    <2>3. Protected'
      BY <2>1 DEF Money, Protected, LossPossible
    <2>4. SentIsSafe'
      BY <2>1 DEF Money, SentIsSafe, SentWasProfitable, LossWithinTip
    <2> QED  BY <2>2, <2>3, <2>4 DEF Money
  <1>6. ASSUME NEW o \in Opps, Settle(o)
        PROVE  Money'
    <2>1. /\ UNCHANGED <<th, lossAllowed, stage, status, job, pc, cur, risk, today>>
          /\ \A p \in Opps \ {o} : bundle'[p] = bundle[p]
          /\ bundle[o].state = "flying" /\ bundle[o].lo \in Int /\ bundle[o].hi \in Int
      BY <1>t, <1>6 DEF Settle, Bundles
    <2>2. \/ bundle'[o].state = "landed" /\ bundle'[o].lo >= bundle[o].lo /\ bundle'[o].lo \in Int
          \/ bundle'[o].state \in {"reverted", "dropped"}
      BY <1>t, <1>6, <2>1 DEF Settle, NoBundle
    <2>3. CostsCounted' /\ ApprovedIsSound' /\ DaysBegin'
      BY <2>1 DEF Money, CostsCounted, ApprovedIsSound, DaysBegin
    <2>4. Protected'
      BY <2>1 DEF Money, Protected, LossPossible
    <2>5. SentWasProfitable'
      BY <2>1, <2>2 DEF Money, SentIsSafe, SentWasProfitable
    <2>6. LossWithinTip'
      BY <2>1, <2>2 DEF Money, SentIsSafe, LossWithinTip
    <2> QED  BY <2>3, <2>4, <2>5, <2>6 DEF Money, SentIsSafe
  <1> QED  BY <1>1, <1>2, <1>3, <1>4, <1>5, <1>6 DEF Operator, World

LEMMA MoneyStep == TypeOK /\ Control /\ Track /\ Money /\ [Next]_vars => Money'
  <1> SUFFICES ASSUME TypeOK, Control, Track, Money, [Next]_vars PROVE Money'
    OBVIOUS
  <1>1. CASE UNCHANGED vars
    BY <1>1, MoneyFrame DEF vars, settings, pipeline, simulator, world, history
  <1>2. CASE \E o \in Opps : Evaluation(o)
    BY <1>2, MoneyEvaluation
  <1>3. CASE Simulator
    BY <1>3, SimulatorSteps, MoneyTake, MoneyJob, MoneyConfirm, MoneyLive
  <1>4. CASE Operator \/ World
    BY <1>4, MoneyOthers
  <1> QED  BY <1>1, <1>2, <1>3, <1>4 DEF Next

\* The inductive invariant: costs are counted, protection holds from prepare
\* to the simulator task, and what risk approved gains and may be lost.
THEOREM MoneyCorrect == Spec => []Money
  BY TypeInit, TypeStep, ControlInit, ControlStep, TrackInit, TrackStep,
     MoneyInit, MoneyStep, PTL DEF Spec

\* Whatever the tip floor does between two quotes and whichever thresholds the
\* operator sets meanwhile, a bundle goes out only when it gains at its quoted
\* prices after its tip, and while losses were never allowed it cannot realize
\* less than minus the largest tip.
THEOREM SentSafely == Spec => []SentIsSafe
  BY MoneyCorrect, PTL DEF Money

----------------------------------------------------------------------------
(* What a step may never do *)

\* A step that books a loss within a day is the close of an approved trade.
LEMMA LossStep ==
    ASSUME TypeOK, Control, Track, Money, [Next]_vars,
           risk'.day = risk.day, risk'.pnl < risk.pnl
    PROVE  \E l \in LossLimits : -risk.pnl < l
  <1> USE DEF settings, pipeline, simulator, world, history
  <1>r. risk \in RiskState /\ today \in Nat
    BY DEF TypeOK, WorldType
  <1>1. CASE risk'.pnl = risk.pnl
    BY <1>1, <1>r DEF RiskState
  <1>2. CASE Restart
    <2>1. risk'.day = 0 /\ risk'.pnl = 0
      BY <1>2 DEF Restart, RiskDefault
    <2> QED  BY <1>r, <2>1 DEF Money, DaysBegin, RiskState
  <1>3. CASE Simulator
    <2>1. CASE UNCHANGED risk
      BY <1>1, <2>1
    <2>2. CASE ~UNCHANGED risk
      <3>1. PICK o \in cur : Decide(o) \/ PaperFill(o) \/ Compose(o) \/ Close(o)
        BY <1>3, <2>2, SimulatorSteps
           DEF TakeJob, Simulated, RegisterConfirm, Answered, ConfirmTimeout, Expire, SignLive,
               FinalSim, PreBalance, SendBundle, PollInflight, PollStatus, PollTimeout, PostBalance,
               LiveStep, Return
      <3>2. CASE Decide(o)
        <4>1. risk' = RollDay(risk, today)
          BY <3>2 DEF Decide
        <4>2. risk' = risk
          BY <1>r, <4>1, RollDayFacts DEF RollDay
        <4> QED  BY <2>2, <4>2
      <3>3. CASE Compose(o)
        <4>1. risk'.pnl = risk.pnl
          BY <1>r, <2>2, <3>3 DEF Compose, OpenExecution, RiskState
        <4> QED  BY <1>1, <4>1
      <3>4. CASE PaperFill(o) \/ Close(o)
        <4>1. pc \in ApprovedPcs
          BY <3>4 DEF PaperFill, Close, ApprovedPcs, LivePcs
        <4> QED  BY <4>1 DEF Money, ApprovedIsSound
      <3> QED  BY <3>1, <3>2, <3>3, <3>4
    <2> QED  BY <2>1, <2>2
  <1>4. CASE UNCHANGED vars
    BY <1>1, <1>4 DEF vars
  <1>5. CASE \E o \in Opps : Evaluation(o)
    <2>1. UNCHANGED risk
      BY <1>5 DEF Evaluation, BuildError, Price, Protect, Requote, Assemble, Enqueue, Drop
    <2> QED  BY <1>1, <2>1
  <1>6. CASE World \/ (Operator /\ ~Restart)
    <2>1. UNCHANGED risk
      BY <1>6 DEF World, Operator, Tick, NewDay, Settle, KillSwitch, Resolve, SetThresholds
    <2> QED  BY <1>1, <2>1
  <1> QED  BY <1>2, <1>3, <1>4, <1>5, <1>6 DEF Next

\* The verdicts and results that end an opportunity's one pass.
Final == Refusals \cup {"PaperFilled", "Landed", "Failed"}

\* An evaluation task leaves a final status as it is.
LEMMA FinalEvaluation ==
    ASSUME TypeOK, Track, NEW o \in Opps, Evaluation(o), NEW p \in Opps, status[p] \in Final
    PROVE  status'[p] = status[p]
  <1>t. stage \in [Opps -> Stages] /\ status \in [Opps -> Statuses]
    BY DEF TypeOK, PipelineType
  <1>1. CASE p # o
    BY <1>t, <1>1 DEF Evaluation, BuildError, Price, Protect, Requote, Assemble, Enqueue, Drop, Finish
  <1>2. CASE p = o
    <2>1. stage[o] \notin {"sim", "done"}
      BY DEF Evaluation, BuildError, Price, Protect, Requote, Assemble, Enqueue, Drop
    <2>2. status[o] = "Skipped" /\ stage[o] \notin {"new", "requote"}
      BY <1>2, <2>1, VerdictSoFar DEF Final, Refusals, Track, StatusByPlace
    <2>3. CASE Protect(o) \/ Enqueue(o) \/ Drop(o)
      BY <1>2, <1>t, <2>2, <2>3, FinishFacts DEF Protect, Enqueue, Drop
    <2>4. CASE Assemble(o)
      <3>1. \A s : KeepSkip(status[o], s) = "Skipped"
        BY <2>2, PricingFacts
      <3> QED  BY <1>2, <1>t, <2>2, <2>4, <3>1, FinishFacts DEF Assemble
    <2> QED  BY <2>2, <2>3, <2>4 DEF Evaluation, BuildError, Price, Requote
  <1> QED  BY <1>1, <1>2

\* So does the simulator task.
LEMMA FinalSimulator ==
    ASSUME TypeOK, Control, Track, Simulator, NEW p \in Opps, status[p] \in Final
    PROVE  status'[p] = status[p]
  <1> USE DEF pipeline
  <1>t. status \in [Opps -> Statuses] /\ queue \in Seq(Opps)
    BY DEF TypeOK, PipelineType
  <1>d. ASSUME NEW o \in cur, NEW s, Done(o, s), status[o] \notin Final \/ s = status[o]
        PROVE  status'[p] = status[p]
    <2>1. o \in Opps
      BY HeldFacts
    <2> QED  BY <1>d, <2>1, FinishFacts DEF Done
  <1>1. CASE TakeJob
    <2> DEFINE o == Head(queue)
    <2>1. o \in Opps /\ stage[o] = "queued"
      BY <1>t, <1>1 DEF TakeJob, Track, QueueExact
    <2>2. status[o] \in {"Quoted", "Skipped"}
      BY <2>1 DEF Track, StatusByPlace
    <2>3. CASE Finish(o, KeepSkip(status[o], "Skipped"))
      <3>1. KeepSkip(status[o], "Skipped") = "Skipped" /\ (status[o] \in Final => status[o] = "Skipped")
        BY <2>2, PricingFacts DEF Final, Refusals
      <3> QED  BY <2>1, <2>3, <3>1, FinishFacts
    <2> QED  BY <1>1, <2>3 DEF TakeJob
  <1>2. ASSUME NEW o \in cur, Simulated(o)
        PROVE  status'[p] = status[p]
    <2>1. status[o] \in {"Quoted", "Skipped"}
      BY <1>2, HeldFacts DEF Simulated
    <2>2. CASE status[o] = "Skipped"
      <3>1. \A s : KeepSkip(status[o], s) = "Skipped"
        BY <2>2, PricingFacts
      <3>2. Done(o, "Skipped")
        BY <1>2, <3>1 DEF Simulated
      <3> QED  BY <1>d, <2>2, <3>2
    <2>3. CASE status[o] = "Quoted"
      <3>1. status[o] \notin Final
        BY <2>3 DEF Final, Refusals
      <3> QED  BY <1>2, <1>d, <3>1 DEF Simulated
    <2> QED  BY <2>1, <2>2, <2>3
  <1>3. ASSUME NEW o \in cur,
               \/ Decide(o) \/ PaperFill(o) \/ RegisterConfirm(o) \/ Answered(o) \/ ConfirmTimeout
               \/ Expire(o) \/ Compose(o) \/ SignLive(o) \/ FinalSim \/ PreBalance \/ SendBundle(o)
               \/ PollInflight(o) \/ PollStatus(o) \/ PollTimeout \/ PostBalance \/ Close(o)
        PROVE  status'[p] = status[p]
    <2>1. pc \in {"decide", "paper", "register", "confirm", "expire", "compose"} \cup LivePcs
      BY <1>3 DEF Decide, PaperFill, RegisterConfirm, Answered, ConfirmTimeout, Expire, Compose,
                  SignLive, FinalSim, PreBalance, SendBundle, PollInflight, PollStatus, PollTimeout,
                  PostBalance, Close, LiveStep, Return, LivePcs
    <2>2. o \in Opps /\ status[o] \notin Final
      BY <2>1, HeldFacts DEF Final, Refusals
    <2>3. \/ \E s : Done(o, s)
          \/ UNCHANGED status
          \/ \E s : status' = [status EXCEPT ![o] = s]
      BY <1>3 DEF Decide, PaperFill, RegisterConfirm, Answered, ConfirmTimeout, Expire, Compose,
                  SignLive, FinalSim, PreBalance, SendBundle, PollInflight, PollStatus, PollTimeout,
                  PostBalance, Close, LiveStep, Return
    <2> QED  BY <1>t, <1>d, <2>2, <2>3
  <1> QED  BY <1>1, <1>2, <1>3, SimulatorSteps

LEMMA FinalStep ==
    ASSUME TypeOK, Control, Track, [Next]_vars, NEW p \in Opps, status[p] \in Final
    PROVE  status'[p] = status[p]
  <1>1. CASE \E o \in Opps : Evaluation(o)
    BY <1>1, FinalEvaluation
  <1>2. CASE Simulator
    BY <1>2, FinalSimulator
  <1>3. CASE Operator \/ World \/ UNCHANGED vars
    BY <1>3 DEF Operator, World, KillSwitch, Restart, Resolve, SetThresholds, Tick, NewDay, Settle,
                vars, pipeline
  <1> QED  BY <1>1, <1>2, <1>3 DEF Next

\* A no stays a no: a loss is booked only by a trade that was approved while
\* the day's loss was below a daily limit, and no opportunity that was
\* skipped, refused or concluded comes back, however the evaluation tasks, the
\* simulator task and the operator interleave.
THEOREM NoIsFinal == Spec => NoStaysNo
  <1>1. TypeOK /\ Control /\ Track /\ Money /\ [Next]_vars
           => [risk'.day = risk.day /\ risk'.pnl < risk.pnl
                  => \E l \in LossLimits : -risk.pnl < l]_vars
    BY LossStep
  <1>2. TypeOK /\ Control /\ Track /\ [Next]_vars
           => [\A o \in Opps :
                  status[o] \in Refusals \cup {"PaperFilled", "Landed", "Failed"}
                     => status'[o] = status[o]]_vars
    BY FinalStep DEF Final
  <1> QED
    BY <1>1, <1>2, TypeInit, TypeStep, ControlInit, ControlStep, TrackInit, TrackStep,
       MoneyInit, MoneyStep, PTL DEF Spec, NoStaysNo, LossStopsTrading, RefusalIsFinal

----------------------------------------------------------------------------
(* The pipeline implements the one pass of OneShot *)

\* The two variables of OneShot, read off the pipeline.
Lives == [o \in Opps |-> Life(o)]

Sent == {o \in Opps : bundle[o].state # "none"}

\* Life, case by case.
LifeIs(o) ==
    /\ stage[o] = "new" => Life(o) = "fresh"
    /\ stage[o] = "done" => Life(o) = "closed"
    /\ stage[o] \notin {"new", "done"} =>
          /\ status[o] = "Quoted" => Life(o) = "candidate"
          /\ status[o] = "Skipped" => Life(o) = "sample"
          /\ status[o] \notin {"Quoted", "Skipped"} => Life(o) = "approved"

LEMMA LifeFacts == \A o \in Opps : LifeIs(o) /\ LifeIs(o)'
  BY DEF LifeIs, Life

\* Equal stages and statuses are equal lives.
LEMMA SameLife ==
    ASSUME NEW o \in Opps, stage'[o] = stage[o], status'[o] = status[o]
    PROVE  Life(o)' = Life(o)
  BY DEF Life

\* What a step must do to be one of OneShot's.
LEMMA IsStutter ==
    ASSUME \A p \in Opps : Life(p)' = Life(p), Sent' = Sent
    PROVE  UNCHANGED <<Lives, Sent>>
  BY DEF Lives

LEMMA IsDetect ==
    ASSUME NEW o \in Opps, Sent' = Sent, \A p \in Opps \ {o} : Life(p)' = Life(p),
           Life(o) = "fresh", Life(o)' \in {"candidate", "sample"}
    PROVE  Promise!Next
  <1>1. Lives' = [Lives EXCEPT ![o] = Life(o)'] /\ Lives[o] = "fresh"
    BY DEF Lives
  <1> QED  BY <1>1 DEF Promise!Next, Promise!Detect, Lives, Sent

LEMMA IsDemote ==
    ASSUME NEW o \in Opps, Sent' = Sent, \A p \in Opps \ {o} : Life(p)' = Life(p),
           Life(o) = "candidate", Life(o)' = "sample"
    PROVE  Promise!Next
  <1>1. Lives' = [Lives EXCEPT ![o] = "sample"] /\ Lives[o] = "candidate"
    BY DEF Lives
  <1> QED  BY <1>1 DEF Promise!Next, Promise!Demote, Lives, Sent

LEMMA IsApprove ==
    ASSUME NEW o \in Opps, Sent' = Sent, \A p \in Opps \ {o} : Life(p)' = Life(p),
           \A p \in Opps : Life(p) # "approved",
           Life(o) = "candidate", Life(o)' = "approved"
    PROVE  Promise!Next
  <1>1. /\ Lives' = [Lives EXCEPT ![o] = "approved"] /\ Lives[o] = "candidate"
        /\ \A p \in Opps : Lives[p] # "approved"
    BY DEF Lives
  <1> QED  BY <1>1 DEF Promise!Next, Promise!Approve, Lives, Sent

LEMMA IsSend ==
    ASSUME NEW o \in Opps, \A p \in Opps : Life(p)' = Life(p),
           Life(o) = "approved", o \notin Sent, Sent' = Sent \cup {o}
    PROVE  Promise!Next
  <1>1. Lives' = Lives /\ Lives[o] = "approved"
    BY DEF Lives
  <1> QED  BY <1>1 DEF Promise!Next, Promise!Send, Lives, Sent

LEMMA IsConclude ==
    ASSUME NEW o \in Opps, Sent' = Sent, \A p \in Opps \ {o} : Life(p)' = Life(p),
           Life(o) # "closed", Life(o)' = "closed"
    PROVE  Promise!Next
  <1>1. Lives' = [Lives EXCEPT ![o] = "closed"] /\ Lives[o] # "closed"
    BY DEF Lives
  <1> QED  BY <1>1 DEF Promise!Next, Promise!Conclude, Lives, Sent

LEMMA RefinesInit == Init => Promise!Init
  <1> SUFFICES ASSUME Init PROVE Promise!Init
    OBVIOUS
  <1>1. \A o \in Opps : stage[o] = "new" /\ bundle[o].state = "none"
    BY DEF Init, NoBundle
  <1>2. Lives = [o \in Opps |-> "fresh"]
    BY <1>1, LifeFacts DEF Lives, LifeIs
  <1>3. Sent = {}
    BY <1>1 DEF Sent
  <1> QED  BY <1>2, <1>3 DEF Promise!Init, Lives, Sent

----------------------------------------------------------------------------
(* Its steps *)

\* Ending a pass concludes it.
LEMMA FinishConcludes ==
    ASSUME TypeOK, NEW o \in Opps, NEW s, Finish(o, s), stage[o] # "done", bundle' = bundle
    PROVE  Promise!Next
  <1>1. stage'[o] = "done" /\ \A p \in Opps \ {o} : Life(p)' = Life(p)
    BY FinishFacts, SameLife
  <1>2. stage[o] \in Stages
    BY DEF TypeOK, PipelineType
  <1>3. Life(o) # "closed" /\ Life(o)' = "closed"
    BY <1>1, <1>2, LifeFacts DEF LifeIs
  <1> QED  BY <1>1, <1>3, IsConclude DEF Sent

\* A step that changes neither stage, status nor bundle is a stutter.
LEMMA FrameStutters ==
    ASSUME UNCHANGED <<stage, status, bundle>>
    PROVE  UNCHANGED <<Lives, Sent>>
  BY SameLife, IsStutter DEF Sent

\* The steps of an evaluation task detect, demote or conclude.
LEMMA RefinesEvaluation ==
    ASSUME TypeOK, Track, NEW o \in Opps, Evaluation(o)
    PROVE  [Promise!Next]_<<Lives, Sent>>
  <1> USE DEF world
  <1>t. stage \in [Opps -> Stages] /\ status \in [Opps -> Statuses]
    BY DEF TypeOK, PipelineType
  <1>b. bundle' = bundle /\ Sent' = Sent
    BY DEF Evaluation, BuildError, Price, Protect, Requote, Assemble, Enqueue, Drop, Sent
  <1>k. \A p \in Opps \ {o} : Life(p)' = Life(p)
    <2>1. \A p \in Opps \ {o} : stage'[p] = stage[p] /\ status'[p] = status[p]
      BY <1>t DEF Evaluation, BuildError, Price, Protect, Requote, Assemble, Enqueue, Drop, Finish
    <2> QED  BY <2>1, SameLife
  <1>s. ASSUME stage[o] \in {"priced", "requote", "built", "submit"}, status[o] \in {"Quoted", "Skipped"},
               stage'[o] \notin {"new", "done"}, status'[o] \in {"Quoted", "Skipped"},
               status[o] = "Skipped" => status'[o] = "Skipped"
        PROVE  [Promise!Next]_<<Lives, Sent>>
    <2>1. CASE status'[o] = status[o]
      <3>1. Life(o)' = Life(o)
        BY <1>s, <2>1, LifeFacts DEF LifeIs
      <3> QED  BY <1>b, <1>k, <3>1, IsStutter
    <2>2. CASE status'[o] # status[o]
      <3>1. Life(o) = "candidate" /\ Life(o)' = "sample"
        BY <1>s, <2>2, LifeFacts DEF LifeIs
      <3> QED  BY <1>b, <1>k, <3>1, IsDemote
    <2> QED  BY <2>1, <2>2
  <1>1. CASE BuildError(o) \/ Drop(o)
    BY <1>1, <1>b, FinishConcludes DEF BuildError, Drop
  <1>2. CASE Price(o)
    <2>1. PICK g \in Grosses, f \in TipFloors, others \in BOOLEAN :
             status' = [status EXCEPT ![o] = PricedStatus(Net(g, f, 0), f, others)]
      BY <1>2 DEF Price
    <2>2. stage[o] = "new" /\ stage'[o] = "priced" /\ status'[o] \in {"Quoted", "Skipped"}
      BY <1>2, <1>t, <2>1, PricingFacts DEF Price
    <2>3. Life(o) = "fresh" /\ Life(o)' \in {"candidate", "sample"}
      BY <2>2, LifeFacts DEF LifeIs
    <2> QED  BY <1>b, <1>k, <2>3, IsDetect
  <1>3. CASE Protect(o)
    <2>1. stage[o] = "priced" /\ status[o] \in {"Quoted", "Skipped"}
      BY <1>3 DEF Protect, Track, StatusByPlace
    <2>2. /\ stage'[o] \in {"built", "requote"}
          /\ status'[o] = status[o] \/ (status[o] = "Quoted" /\ status'[o] = "Skipped")
      BY <1>3, <1>t DEF Protect
    <2> QED  BY <1>s, <2>1, <2>2
  <1>4. CASE Requote(o)
    <2>1. stage[o] = "requote" /\ status[o] = "Quoted"
      BY <1>4 DEF Requote, Track, StatusByPlace
    <2>2. \/ status' = [status EXCEPT ![o] = "Skipped"]
          \/ \E n, f, b : status' = [status EXCEPT ![o] = PricedStatus(n, f, b)]
      BY <1>4 DEF Requote
    <2>3. stage'[o] = "built" /\ status'[o] \in {"Quoted", "Skipped"}
      BY <1>4, <1>t, <2>2, PricingFacts DEF Requote
    <2> QED  BY <1>s, <1>t, <2>1, <2>2, <2>3
  <1>5. CASE Assemble(o)
    <2>1. stage[o] = "built" /\ status[o] \in {"Quoted", "Skipped"}
      BY <1>5 DEF Assemble, Track, StatusByPlace
    <2>2. CASE Finish(o, "Skipped")
      BY <1>b, <2>1, <2>2, FinishConcludes
    <2>3. CASE ~Finish(o, "Skipped")
      <3>1. stage'[o] = "submit"
        BY <1>5, <1>t, <2>3 DEF Assemble
      <3>2. \/ status' = status
            \/ \E f \in TipFloors, others \in BOOLEAN :
                  status' = [status EXCEPT ![o] =
                      KeepSkip(@, PricedStatus(Net(job[o].gross, f, 0), f, others))]
        BY <1>5, <2>3 DEF Assemble
      <3>3. status'[o] \in {"Quoted", "Skipped"} /\ (status[o] = "Skipped" => status'[o] = "Skipped")
        BY <1>t, <2>1, <3>2, PricingFacts
      <3> QED  BY <1>s, <2>1, <3>1, <3>3
    <2> QED  BY <2>2, <2>3
  <1>6. CASE Enqueue(o)
    <2>1. stage[o] = "submit" /\ stage'[o] = "queued" /\ status' = status
      BY <1>6, <1>t DEF Enqueue
    <2>2. status[o] \in {"Quoted", "Skipped"}
      BY <2>1 DEF Track, StatusByPlace
    <2> QED  BY <1>s, <2>1, <2>2
  <1> QED  BY <1>1, <1>2, <1>3, <1>4, <1>5, <1>6 DEF Evaluation

\* Nobody but the simulator's own job is past its verdict.
LEMMA OthersNotApproved ==
    ASSUME TypeOK, Track, NEW p \in Opps, p \notin cur
    PROVE  Life(p) # "approved"
  <1>1. stage[p] \in Stages /\ stage[p] # "sim"
    BY DEF TypeOK, PipelineType, Track, QueueExact
  <1>2. stage[p] \in {"new", "done"} \/ status[p] \in {"Quoted", "Skipped"}
    BY <1>1 DEF Track, StatusByPlace, Stages
  <1> QED  BY <1>2, LifeFacts DEF LifeIs

\* The steps of the simulator task approve, send, conclude or stutter.
LEMMA RefinesSimulator ==
    ASSUME TypeOK, Control, Track, Simulator
    PROVE  [Promise!Next]_<<Lives, Sent>>
  <1> USE DEF world, pipeline
  <1>t. /\ stage \in [Opps -> Stages] /\ status \in [Opps -> Statuses]
        /\ bundle \in [Opps -> Bundles] /\ queue \in Seq(Opps)
    BY DEF TypeOK, PipelineType, WorldType
  <1>d. ASSUME NEW o \in cur, NEW s, Done(o, s), bundle' = bundle
        PROVE  Promise!Next
    <2>1. o \in Opps /\ stage[o] = "sim"
      BY HeldFacts
    <2> QED  BY <1>d, <2>1, FinishConcludes DEF Done
  \* An approved job that stays approved.
  <1>a. ASSUME NEW o \in cur, stage' = stage, bundle' = bundle,
               \A p \in Opps \ {o} : status'[p] = status[p],
               status[o] \notin {"Quoted", "Skipped"}, status'[o] \notin {"Quoted", "Skipped"}
        PROVE  UNCHANGED <<Lives, Sent>>
    <2>1. o \in Opps /\ stage[o] = "sim"
      BY HeldFacts
    <2>2. Life(o)' = Life(o)
      BY <1>a, <2>1, LifeFacts DEF LifeIs
    <2>3. \A p \in Opps : Life(p)' = Life(p)
      BY <1>a, <2>2, SameLife
    <2> QED  BY <1>a, <2>3, IsStutter DEF Sent
  <1>1. CASE TakeJob
    <2> DEFINE head == Head(queue)
    <2>0. /\ head \in Opps /\ stage[head] = "queued" /\ bundle' = bundle
          /\ \/ Finish(head, KeepSkip(status[head], "Skipped"))
             \/ stage' = [stage EXCEPT ![head] = "sim"] /\ status' = status
      BY <1>t, <1>1 DEF TakeJob, Track, QueueExact
    <2> HIDE DEF head
    <2> PICK o \in Opps : o = head
      BY <2>0
    <2>1. stage[o] = "queued" /\ status[o] \in {"Quoted", "Skipped"} /\ bundle' = bundle
      BY <2>0 DEF Track, StatusByPlace
    <2>2. CASE Finish(o, KeepSkip(status[o], "Skipped"))
      BY <2>1, <2>2, FinishConcludes
    <2>3. CASE stage' = [stage EXCEPT ![o] = "sim"] /\ status' = status
      <3>1. Life(o)' = Life(o)
        BY <1>t, <2>1, <2>3, LifeFacts DEF LifeIs
      <3>2. \A p \in Opps : Life(p)' = Life(p)
        BY <1>t, <2>3, <3>1, SameLife
      <3> QED  BY <2>1, <3>2, IsStutter DEF Sent
    <2> QED  BY <2>0, <2>2, <2>3
  <1>2. ASSUME NEW o \in cur, Simulated(o)
        PROVE  [Promise!Next]_<<Lives, Sent>>
    BY <1>2, <1>d, FrameStutters DEF Simulated
  <1>3. ASSUME NEW o \in cur, Decide(o)
        PROVE  [Promise!Next]_<<Lives, Sent>>
    <2>1. /\ o \in Opps /\ cur = {o} /\ stage[o] = "sim" /\ status[o] = "Quoted"
          /\ bundle' = bundle
      BY <1>3, HeldFacts DEF Decide
    <2>2. CASE stage' = stage /\ status' = [status EXCEPT ![o] = "Executable"]
      <3>1. Life(o) = "candidate" /\ Life(o)' = "approved"
        BY <1>t, <2>1, <2>2, LifeFacts DEF LifeIs
      <3>2. \A p \in Opps : Life(p) # "approved"
        BY <2>1, <3>1, OthersNotApproved
      <3>3. \A p \in Opps \ {o} : Life(p)' = Life(p)
        BY <1>t, <2>2, SameLife
      <3> QED  BY <2>1, <3>1, <3>2, <3>3, IsApprove DEF Sent
    <2> QED  BY <1>3, <1>d, <2>1, <2>2 DEF Decide
  <1>4. ASSUME NEW o \in cur, PaperFill(o) \/ Expire(o) \/ Close(o)
        PROVE  [Promise!Next]_<<Lives, Sent>>
    BY <1>4, <1>d DEF PaperFill, Expire, Close
  <1>5. ASSUME NEW o \in cur, RegisterConfirm(o) \/ Answered(o) \/ Compose(o)
        PROVE  [Promise!Next]_<<Lives, Sent>>
    <2>1. o \in Opps /\ status[o] \in {"Executable", "AwaitingConfirm"} /\ bundle' = bundle
      BY <1>5, HeldFacts DEF RegisterConfirm, Answered, Compose
    <2>2. CASE stage' = stage /\ status' = status
      BY <2>1, <2>2, FrameStutters
    <2>3. CASE stage' = stage /\ \E s \in {"AwaitingConfirm", "Submitted"} :
                                    status' = [status EXCEPT ![o] = s]
      BY <1>t, <2>1, <2>3, <1>a
    <2> QED  BY <1>5, <1>d, <2>1, <2>2, <2>3 DEF RegisterConfirm, Answered, Compose
  <1>6. ASSUME NEW o \in cur, SendBundle(o)
        PROVE  [Promise!Next]_<<Lives, Sent>>
    <2>1. /\ o \in Opps /\ stage[o] = "sim" /\ status[o] = "Submitted" /\ bundle[o].state = "none"
          /\ UNCHANGED <<stage, status>>
      BY <1>6, HeldFacts DEF SendBundle, LiveStep, Return, LivePcs
    <2>2. CASE UNCHANGED bundle
      BY <2>1, <2>2, FrameStutters
    <2>3. CASE bundle' = [bundle EXCEPT ![o] =
                 [state |-> "flying", lo |-> job[o].floor - job[o].tip,
                  hi |-> job[o].gross - job[o].tip, day |-> today]]
      <3>1. o \notin Sent /\ Sent' = Sent \cup {o}
        BY <1>t, <2>1, <2>3 DEF Sent
      <3>2. Life(o) = "approved" /\ \A p \in Opps : Life(p)' = Life(p)
        BY <2>1, LifeFacts, SameLife DEF LifeIs
      <3> QED  BY <2>1, <3>1, <3>2, IsSend
    <2> QED  BY <1>6, <2>2, <2>3 DEF SendBundle
  <1>7. CASE \/ ConfirmTimeout \/ FinalSim \/ PreBalance \/ PollTimeout \/ PostBalance
             \/ \E o \in cur : SignLive(o) \/ PollInflight(o) \/ PollStatus(o)
    BY <1>7, FrameStutters
       DEF ConfirmTimeout, FinalSim, PreBalance, PollTimeout, PostBalance, SignLive, PollInflight,
           PollStatus, LiveStep, Return
  <1> QED  BY <1>1, <1>2, <1>3, <1>4, <1>5, <1>6, <1>7, SimulatorSteps

\* A stop and a new start are the crash of OneShot; the operator's other
\* commands, time and the chain leave its state alone.
LEMMA RefinesOthers ==
    ASSUME TypeOK, Operator \/ World
    PROVE  [Promise!Next]_<<Lives, Sent>>
  <1> USE DEF world, pipeline
  <1>1. CASE Restart
    <2>1. /\ \A o \in Opps : stage'[o] = (IF stage[o] = "new" THEN "new" ELSE "done")
          /\ Sent' = Sent
      BY <1>1 DEF Restart, Sent
    <2>2. \A o \in Opps : Life(o)' = (IF Life(o) = "fresh" THEN "fresh" ELSE "closed")
      <3> SUFFICES ASSUME NEW o \in Opps
                   PROVE  Life(o)' = (IF Life(o) = "fresh" THEN "fresh" ELSE "closed")
        OBVIOUS
      <3>1. CASE stage[o] = "new"
        BY <2>1, <3>1, LifeFacts DEF LifeIs
      <3>2. CASE stage[o] # "new"
        BY <2>1, <3>2, LifeFacts DEF LifeIs
      <3> QED  BY <3>1, <3>2
    <2>3. Lives' = [o \in Opps |-> IF Lives[o] = "fresh" THEN "fresh" ELSE "closed"]
      BY <2>2 DEF Lives
    <2> QED  BY <2>1, <2>3 DEF Promise!Next, Promise!Crash, Lives, Sent
  <1>2. ASSUME NEW o \in Opps, Settle(o)
        PROVE  UNCHANGED <<Lives, Sent>>
    <2>1. /\ UNCHANGED <<stage, status>> /\ bundle[o].state # "none" /\ bundle'[o].state # "none"
          /\ \A p \in Opps \ {o} : bundle'[p] = bundle[p]
      BY <1>2 DEF Settle, NoBundle, TypeOK, WorldType
    <2>2. Sent' = Sent
      BY <2>1 DEF Sent
    <2> QED  BY <2>1, <2>2, SameLife, IsStutter
  <1>3. CASE (Operator /\ ~Restart) \/ Tick \/ NewDay
    BY <1>3, FrameStutters DEF Operator, KillSwitch, Resolve, SetThresholds, Tick, NewDay
  <1> QED  BY <1>1, <1>2, <1>3 DEF World

LEMMA RefinesStep == TypeOK /\ Control /\ Track /\ [Next]_vars => [Promise!Next]_<<Lives, Sent>>
  <1> SUFFICES ASSUME TypeOK, Control, Track, [Next]_vars PROVE [Promise!Next]_<<Lives, Sent>>
    OBVIOUS
  <1>1. CASE UNCHANGED vars
    BY <1>1, FrameStutters DEF vars, pipeline, world
  <1>2. CASE \E o \in Opps : Evaluation(o)
    BY <1>2, RefinesEvaluation
  <1>3. CASE Simulator
    BY <1>3, RefinesSimulator
  <1>4. CASE Operator \/ World
    BY <1>4, RefinesOthers
  <1> QED  BY <1>1, <1>2, <1>3, <1>4 DEF Next

\* The pipeline implements the one pass of OneShot for any number of
\* opportunities: each is judged once, at most one is being executed at a
\* time, and at most one bundle is ever sent for it, while it is.
THEOREM OnePass == Spec => ImplementsOneShot
  <1>1. TypeOK /\ Control /\ Track /\ [Next]_vars => [Promise!Next]_<<Lives, Sent>>
    BY RefinesStep
  <1> QED
    BY <1>1, RefinesInit, TypeInit, TypeStep, ControlInit, ControlStep, TrackInit, TrackStep,
       PTL DEF Spec, ImplementsOneShot, Promise!Spec, Lives, Sent
=============================================================================
