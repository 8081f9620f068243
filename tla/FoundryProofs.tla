---------------------------- MODULE FoundryProofs ---------------------------
(***************************************************************************)
(* What TLAPS proves of Foundry: for any number of jobs and stops.         *)
(***************************************************************************)
EXTENDS Foundry, FiniteSetTheorems, TLAPS

\* Jobs are numbered from 1 as they start, so the next number is never running.
IInv ==
    /\ TypeOK
    /\ IsFiniteSet(jobs)
    /\ \A j \in jobs : j <= started
    /\ FlagHasItsJob
    /\ JobsBounded
    /\ ModelFollowsJobs

\* Finite sets: what one element more or less does to a cardinality.
LEMMA JobCounts ==
  ASSUME IsFiniteSet(jobs)
  PROVE  /\ Cardinality(jobs) \in Nat
         /\ \A j : j \notin jobs =>
              /\ IsFiniteSet(jobs \cup {j})
              /\ Cardinality(jobs \cup {j}) = Cardinality(jobs) + 1
         /\ \A j \in jobs :
              /\ IsFiniteSet(jobs \ {j})
              /\ Cardinality(jobs \ {j}) = Cardinality(jobs) - 1
  BY FS_CardinalityType, FS_AddElement, FS_RemoveElement

LEMMA InitInv == Init => IInv
  <1> SUFFICES ASSUME Init
               PROVE  IInv
    OBVIOUS
  <1>1. IsFiniteSet(jobs) /\ Cardinality(jobs) = 0
    BY FS_EmptySet DEF Init
  <1>2. TypeOK /\ (\A j \in jobs : j <= started) /\ FlagHasItsJob
    BY DEF Init, TypeOK, FlagHasItsJob
  <1>3. JobsBounded
    BY <1>1 DEF Init, JobsBounded
  <1>4. ModelFollowsJobs
    BY <1>1 DEF Init, ModelFollowsJobs
  <1> QED
    BY <1>1, <1>2, <1>3, <1>4 DEF IInv

LEMMA NextInv == IInv /\ [Next]_vars => IInv'
  <1> SUFFICES ASSUME IInv, [Next]_vars
               PROVE  IInv'
    OBVIOUS
  <1>0. /\ started \in Nat /\ stops \in Nat /\ isTraining \in BOOLEAN /\ jobs \in SUBSET Job
        /\ Cardinality(jobs) \in Nat
    BY JobCounts DEF IInv, TypeOK
  <1>1. CASE StartTraining
    <2>1. started + 1 \notin jobs
      BY <1>0 DEF IInv, Job
    <2>2. /\ IsFiniteSet(jobs')
          /\ Cardinality(jobs') = Cardinality(jobs) + 1
      BY <1>1, <2>1, JobCounts DEF StartTraining, IInv
    <2>3. TypeOK' /\ \A j \in jobs' : j <= started'
      BY <1>0, <1>1 DEF StartTraining, IInv, TypeOK, Job
    <2>4. FlagHasItsJob'
      BY <1>1 DEF StartTraining, FlagHasItsJob
    <2>5. JobsBounded'
      BY <1>0, <1>1, <2>2 DEF StartTraining, IInv, JobsBounded
    <2>6. ModelFollowsJobs'
      BY <1>0, <1>1, <2>2 DEF StartTraining, IInv, ModelFollowsJobs
    <2> QED
      BY <2>2, <2>3, <2>4, <2>5, <2>6 DEF IInv
  <1>2. CASE EmergencyStop
    <2>1. JobsBounded'
      BY <1>0, <1>2 DEF EmergencyStop, IInv, JobsBounded
    <2>2. TypeOK'
      <3>1. stops' \in Nat
        BY <1>0, <1>2 DEF EmergencyStop
      <3>2. isTraining' \in BOOLEAN
        BY <1>2 DEF EmergencyStop
      <3> QED
        BY <1>2, <3>1, <3>2 DEF EmergencyStop, IInv, TypeOK
    <2>4. FlagHasItsJob'
      BY <1>2 DEF EmergencyStop, FlagHasItsJob
    <2>3. ModelFollowsJobs'
      BY <1>2 DEF EmergencyStop, IInv, ModelFollowsJobs
    <2> QED
      BY <1>2, <2>1, <2>2, <2>3, <2>4 DEF EmergencyStop, IInv
  <1>3. ASSUME NEW j \in jobs, TrainingEnds(j)
        PROVE  IInv'
    <2>1. /\ IsFiniteSet(jobs')
          /\ Cardinality(jobs') = Cardinality(jobs) - 1
      BY <1>3, JobCounts DEF TrainingEnds, IInv
    <2>2. TypeOK' /\ (\A k \in jobs' : k <= started') /\ FlagHasItsJob'
      BY <1>0, <1>3 DEF TrainingEnds, IInv, TypeOK, FlagHasItsJob
    <2>3. JobsBounded'
      BY <1>0, <1>3, <2>1 DEF TrainingEnds, IInv, JobsBounded
    <2>4. ModelFollowsJobs'
      <3>1. Cardinality(jobs) <= started
        <4>1. jobs \subseteq 1 .. started
          BY <1>0 DEF IInv, Job
        <4>2. IsFiniteSet(1 .. started) /\ Cardinality(1 .. started) = started
          BY <1>0, FS_Interval
        <4> QED
          BY <4>1, <4>2, FS_Subset
      <3> QED
        BY <1>0, <1>3, <2>1, <3>1 DEF TrainingEnds, ModelFollowsJobs
    <2> QED
      BY <2>1, <2>2, <2>3, <2>4 DEF IInv
  <1>4. CASE UNCHANGED vars
    BY <1>4 DEF vars, IInv, TypeOK, FlagHasItsJob, JobsBounded, ModelFollowsJobs
  <1> QED
    BY <1>1, <1>2, <1>3, <1>4 DEF Next

\* The flag, the model and the running jobs fit together in every state.
THEOREM Invariant == Spec => []IInv
  BY InitInv, NextInv, PTL DEF Spec

\* The flag, the counts and the numbers of the running jobs keep their types.
THEOREM TypeCorrect == Spec => []TypeOK
  BY Invariant, PTL DEF IInv

\* A second training beside the first needs an emergency stop.
THEOREM StopsBoundJobs == Spec => []JobsBounded
  BY Invariant, PTL DEF IInv

\* The flag is never left set by a job that is gone.
THEOREM FlagIsHonest == Spec => []FlagHasItsJob
  BY Invariant, PTL DEF IInv

\* The model in service is the new one exactly when a job has ended.
THEOREM ModelIsHonest == Spec => []ModelFollowsJobs
  BY Invariant, PTL DEF IInv
=============================================================================
