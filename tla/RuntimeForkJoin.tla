-------------------------- MODULE RuntimeForkJoin --------------------------
(***************************************************************************)
(* The runtime implements ForkJoin, for any number of workers, tasks and   *)
(* groups: every step of Runtime is a step of ForkJoin or changes nothing  *)
(* that an application sees.                                               *)
(***************************************************************************)
EXTENDS RuntimeTallies

USE RuntimeAssumption

\* What is known of a state when there are no spurious wakeups.
Known == /\ IInv /\ Ordered /\ Chosen /\ Tallied
         /\ AllIn /\ Logged

LEMMA InvariantKnown ==
  ASSUME ~ SpuriousWakeups
  PROVE  Spec => []Known
<1>1. IInv /\ Ordered /\ Chosen /\ Tallied /\ AllIn /\ Logged => Known
  BY DEF Known
<1> QED
  BY <1>1, InvariantTallied, InvariantAllIn, InvariantLogged, PTL

(***************************************************************************)
(* A step that changes nothing an application sees.                        *)
(***************************************************************************)
LEMMA Stutters ==
  ASSUME UNCHANGED <<my_group, pending_q, waited, ran>>,
         mainPc' \in InWait <=> mainPc \in InWait,
         mainPc \in InWait => UNCHANGED <<cur, goal>>,
         \A t \in Tasks : /\ Settled(t)' <=> Settled(t)
                          /\ Settled(t) => significance'[t] = significance[t]
                          /\ my_group[t] # NULL => versions'[t] = versions[t]
  PROVE  UNCHANGED Abstract!vars
<1>1. MembersOf' = MembersOf
  BY DEF MembersOf, Members
<1>2. LevelOf' = LevelOf
  <2>1. \A t : Bucket(t)' = Bucket(t)
    BY SameBucket
  <2> QED
    BY <2>1 DEF LevelOf
<1>3. OffersOf' = OffersOf
  BY DEF OffersOf
<1>4. PhaseOf' = PhaseOf
  BY DEF PhaseOf
<1>5. ShareOf' = ShareOf
  <2>1. \A g \in Groups : PhaseOf[g] = "forked" => mainPc \in InWait
    BY DEF PhaseOf
  <2> QED
    BY <1>4, <2>1 DEF ShareOf
<1>6. ModeOf' = ModeOf
  BY DEF ModeOf
<1> QED
  BY <1>1, <1>2, <1>3, <1>4, <1>5, <1>6 DEF Abstract!vars

\* The steps that only move the main application on.
LEMMA MainStutters ==
  ASSUME TypeOK,
         \/ StartWorker \/ StopWorker \/ JoinWorker \/ JoinCrashes
         \/ CountTask \/ NextLevel \/ CondWait \/ Shutdown \/ SpuriousWakeup
         \/ \E g \in Groups : WaitGroup(g) \/ WaitAborts(g)
         \/ UNCHANGED vars
  PROVE  UNCHANGED Abstract!vars
<1>1. UNCHANGED <<my_group, pending_q, waited, ran, significance, versions,
                  stage>>
  BY DEF StartWorker, StopWorker, JoinWorker, JoinCrashes, CountTask, Count,
         NextLevel, LowerLevel, BucketDone, CondWait, EndLoops, Shutdown,
         SpuriousWakeup, WaitGroup, WaitAborts, vars, tasks, buckets, history
<1>2. /\ mainPc' \in InWait <=> mainPc \in InWait
      /\ mainPc \in InWait => UNCHANGED <<cur, goal>>
  BY DEF StartWorker, StopWorker, JoinWorker, JoinCrashes, CountTask, Count,
         NextLevel, LowerLevel, BucketDone, CondWait, EndLoops, Shutdown,
         SpuriousWakeup, WaitGroup, WaitAborts, vars, locals, InWait
<1>3. \A t : Settled(t)' <=> Settled(t)
  BY <1>1 DEF Settled
<1> QED
  BY <1>1, <1>2, <1>3, Stutters

\* A task is in one bucket of its group.
LEMMA OneBucket ==
  ASSUME TypeOK, Structure, NEW t \in Tasks, my_group[t] # NULL,
         NEW l \in Levels, NEW m \in Levels, InBucket(t, l), InBucket(t, m)
  PROVE  l = m
<1>1. my_group[t] \in Groups
  BY DEF TypeOK, TaskType, GroupType
<1>2. /\ \E n \in 1 .. Len(pending_q[my_group[t]][l]) :
            pending_q[my_group[t]][l][n] = t
      /\ \E n \in 1 .. Len(pending_q[my_group[t]][m]) :
            pending_q[my_group[t]][m][n] = t
  BY DEF InBucket
<1> QED
  BY <1>1, <1>2 DEF Structure, BucketsHold

(***************************************************************************)
(* The calls of the application.                                           *)
(***************************************************************************)
LEMMA ApplicationSteps ==
  ASSUME Known, Application
  PROVE  [Abstract!Next]_Abstract!vars
<1> USE DEF Known, IInv
<1>0. /\ stage \in [Tasks -> Stages]
      /\ significance \in [Tasks -> Levels]
      /\ versions \in [Tasks -> SUBSET Versions]
      /\ my_group \in [Tasks -> groups \cup {NULL}]
      /\ groups \subseteq Groups
  BY DEF TypeOK, HistoryType, TaskType, GroupType
<1>1. /\ mainPc \notin InWait /\ mainPc' \notin InWait
  BY DEF Application, NewTask, PushTask, PushUngrouped, WaitGroup, WaitAborts,
         Shutdown, InWait
<1>2. ASSUME NEW s \in SigChoices, NEW v \in VersionChoices, NewTask(s, v)
      PROVE  UNCHANGED Abstract!vars
  <2>1. PICK t \in Tasks : t = id /\ stage[t] = "unborn" /\ my_group[t] = NULL
    BY <1>2 DEF NewTask, TypeOK, TaskType, Tasks, Structure, Ids, GroupKnown
  <2>2. /\ stage'[t] = "made"
        /\ \A u \in Tasks \ {t} : /\ stage'[u] = stage[u]
                                  /\ significance'[u] = significance[u]
                                  /\ versions'[u] = versions[u]
        /\ UNCHANGED <<my_group, pending_q, waited, ran>>
    BY <1>0, <1>2, <2>1 DEF NewTask, buckets
  <2>3. \A u \in Tasks : /\ Settled(u)' <=> Settled(u)
                         /\ Settled(u) => significance'[u] = significance[u]
                         /\ my_group[u] # NULL => versions'[u] = versions[u]
    BY <2>1, <2>2 DEF Settled
  <2> QED
    BY <1>1, <2>2, <2>3, Stutters
<1>3. ASSUME NEW t \in Tasks, PushUngrouped(t)
      PROVE  UNCHANGED Abstract!vars
  <2>1. /\ stage[t] = "made"
        /\ stage' = [stage EXCEPT ![t] = "ungrouped"]
        /\ UNCHANGED <<my_group, pending_q, waited, ran, significance,
                       versions>>
    BY <1>3 DEF PushUngrouped, buckets
  <2>2. \A u \in Tasks : Settled(u)' <=> Settled(u)
    BY <1>0, <2>1 DEF Settled
  <2> QED
    BY <1>1, <2>1, <2>2, Stutters
<1>4. ASSUME NEW t \in Tasks, NEW g \in Groups, PushTask(t, g)
      PROVE  Abstract!Submit(t, g)
  <2>1. /\ stage[t] = "made" /\ my_group[t] = NULL
        /\ stage' = [stage EXCEPT ![t] = "pending"]
        /\ my_group' = [my_group EXCEPT ![t] = g]
        /\ UNCHANGED <<significance, versions, waited, ran>>
    BY <1>4 DEF PushTask, Structure, GroupKnown
  <2>2. /\ significance[t] \in Levels /\ versions[t] \in SUBSET Versions
        /\ my_group'[t] = g /\ NULL \notin Groups
    BY <1>0, <2>1
  <2>3. \A u \in Tasks \ {t} :
           /\ my_group'[u] = my_group[u]
           /\ my_group[u] # NULL => \A l \in Levels :
                InBucket(u, l)' <=> InBucket(u, l)
    BY <1>4, PushBucket
  <2>4. \A l \in Levels : InBucket(t, l)' <=> l = significance[t]
    <3>1. \A l \in Levels : InBucket(t, l)' => l = significance[t]
      BY <1>4, PushOneBucket
    <3>2. InBucket(t, significance[t])'
      BY <1>4, PushBucket
    <3>3. ASSUME NEW l \in Levels, l = significance[t]
          PROVE  InBucket(t, l)'
      BY <2>1, <3>2, <3>3 DEF InBucket
    <3> QED
      BY <3>1, <3>3
  <2>5. \A h \in Groups : PhaseOf[h] # "forked" /\ PhaseOf'[h] = PhaseOf[h]
    BY <1>1, <2>1 DEF PhaseOf
  <2>6. PhaseOf' = PhaseOf /\ ShareOf' = ShareOf
    BY <2>5 DEF PhaseOf, ShareOf
  <2>7. \A h \in Groups : t \notin MembersOf[h]
    BY <2>1, <2>2 DEF MembersOf, Members
  <2>8. MembersOf' = [MembersOf EXCEPT ![g] = @ \cup {t}]
    <3>1. \A h \in Groups : Members(h)' =
             IF h = g THEN Members(h) \cup {t} ELSE Members(h)
      BY <1>0, <2>1, <2>2, <2>3 DEF Members
    <3> QED
      BY <3>1 DEF MembersOf
  <2>9. LevelOf' = [LevelOf EXCEPT ![t] = significance[t]]
    <3>1. LevelOf'[t] = significance[t]
      BY <2>2, <2>4 DEF LevelOf, Bucket
    <3>2. ASSUME NEW u \in Tasks \ {t}, my_group[u] # NULL
          PROVE  Bucket(u)' = Bucket(u)
      <4>1. /\ Bucket(u) \in Levels /\ InBucket(u, Bucket(u))
            /\ \A l \in Levels : InBucket(u, l) => l = Bucket(u)
        BY <3>2, BucketIsIn, OneBucket DEF Ordered
      <4>2. \A l \in Levels : InBucket(u, l)' <=> l = Bucket(u)
        BY <2>3, <3>2, <4>1
      <4>3. \A l \in Levels : InBucket(u, l)' => l = Bucket(u)
        BY <4>2
      <4> QED
        BY <4>1, <4>2, <4>3 DEF Bucket
    <3>3. \A u \in Tasks \ {t} : LevelOf'[u] = LevelOf[u]
      BY <2>3, <3>2 DEF LevelOf
    <3> QED
      BY <3>1, <3>3 DEF LevelOf
  <2>10. OffersOf' = [OffersOf EXCEPT ![t] = versions[t]]
    BY <2>1, <2>2, <2>3 DEF OffersOf
  <2>11. ModeOf' = ModeOf
    BY <1>0, <2>1 DEF ModeOf, Settled
  <2>12. significance[t] \in NON_SIGNIFICANT .. SIGNIFICANT
    BY <2>2 DEF Levels
  <2> QED
    BY <2>1, <2>2, <2>5, <2>6, <2>7, <2>8, <2>9, <2>10, <2>11, <2>12
    DEF Abstract!Submit
<1>5. ASSUME \/ \E g \in Groups : WaitGroup(g) \/ WaitAborts(g)
             \/ Shutdown
      PROVE  UNCHANGED Abstract!vars
  BY <1>5, MainStutters
<1> QED
  BY <1>2, <1>3, <1>4, <1>5 DEF Application, Abstract!Next

\* ForkJoin counts the elements of a set as Runtime does.
LEMMA SameCount ==
  ASSUME NEW S
  PROVE  Abstract!Cardinality(S) = Cardinality(S)
BY DEF Cardinality, Abstract!Cardinality

(***************************************************************************)
(* wait_group has the lock: its group is forked.  Its share is the product *)
(* of the ratio and the number of tasks, rounded down, or one more.        *)
(***************************************************************************)
LEMMA LockForks ==
  ASSUME Known, MaxTasks <= 2^PRECISION, NEW r \in Ratios, LockGroup(r)
  PROVE  cur \in Groups /\ Abstract!Fork(cur)
<1> USE DEF Known, IInv
<1>1. /\ mainPc = "lock" /\ lock[cur] = FREE /\ mainPc' = "select"
      /\ goal' \in Goals(total[cur], r)
      /\ UNCHANGED <<cur, my_group, pending_q, significance, versions, stage,
                     ran, waited>>
  BY DEF LockGroup, BeginWait, tasks, buckets, history
<1>2. cur \in Groups /\ cur \notin waited
  BY <1>1 DEF TypeOK, MainType, GroupType, Structure, MainLocks
<1>3. /\ MembersOf' = MembersOf /\ OffersOf' = OffersOf /\ ModeOf' = ModeOf
  BY <1>1 DEF MembersOf, Members, OffersOf, ModeOf, Settled
<1>4. LevelOf' = LevelOf
  <2>1. \A t : Bucket(t)' = Bucket(t)
    BY <1>1, SameBucket
  <2> QED
    BY <1>1, <2>1 DEF LevelOf
<1>5. /\ PhaseOf[cur] = "open"
      /\ \A g \in Groups : PhaseOf[g] # "forked"
      /\ PhaseOf' = [PhaseOf EXCEPT ![cur] = "forked"]
  <2>1. \A g \in Groups :
           PhaseOf[g] = IF g \in waited THEN "joined" ELSE "open"
    BY <1>1 DEF PhaseOf, InWait
  <2>2. \A g \in Groups :
           PhaseOf'[g] = IF g = cur THEN "forked" ELSE PhaseOf[g]
    BY <1>1, <1>2 DEF PhaseOf, InWait
  <2>3. PhaseOf' = [PhaseOf EXCEPT ![cur] = "forked"]
    BY <2>2 DEF PhaseOf
  <2> QED
    BY <1>2, <2>1, <2>3
<1>6. ShareOf' = [ShareOf EXCEPT ![cur] = goal']
  <2>1. \A g \in Groups : /\ ShareOf[g] = 0
                          /\ PhaseOf'[g] = "forked" <=> g = cur
    BY <1>2, <1>5 DEF ShareOf, PhaseOf
  <2>2. \A g \in Groups : ShareOf'[g] = IF g = cur THEN goal' ELSE ShareOf[g]
    BY <2>1 DEF ShareOf
  <2> QED
    BY <2>2 DEF ShareOf
<1>7. PICK extra \in {0, 1} :
         goal' = (Cardinality(MembersOf[cur]) * r) \div RatioUnit + extra
  <2> DEFINE n == Cardinality(Members(cur))
  <2>1. /\ total[cur] = n
        /\ MembersOf[cur] = Members(cur)
    BY <1>2 DEF Tallied, TotalCounts, MembersOf
  <2>2. n \in 0 .. Full
    <3>1. n \in 0 .. MaxTasks
      BY TaskSets DEF Members
    <3> QED
      BY <3>1, FullFacts DEF Full
  <2> HIDE DEF n
  <2>3. PICK e \in 0 .. LargestExponent - 1 : RatioUnit = 2^e
    BY RatioAssumption
  <2>4. PICK m \in Rounded(n) : \E p \in Rounded(m * r) :
           goal' = p \div RatioUnit
    BY <1>1, <2>1 DEF Goals
  <2>5. PICK p \in Rounded(m * r) : goal' = p \div RatioUnit
    BY <2>4
  <2>6. r \in 0 .. 2^e
    BY <2>3
  <2>7. p \div 2^e \in {(n * r) \div 2^e, (n * r) \div 2^e + 1}
    BY <2>2, <2>6, ShareAsked
  <2>8. (n * r) \div RatioUnit \in Nat
    <3>1. n * r \in Nat
      BY <2>2, <2>6, ShareAsked
    <3> QED
      BY <3>1
  <2>9. goal' \in {(n * r) \div RatioUnit + 0, (n * r) \div RatioUnit + 1}
    BY <2>3, <2>5, <2>7, <2>8
  <2> QED
    BY <2>1, <2>9 DEF n
<1>8. ran' = ran
  BY <1>1
<1>9. \E q \in Ratios, more \in {0, 1} :
         ShareOf' = [ShareOf EXCEPT ![cur] =
           (Cardinality(MembersOf[cur]) * q) \div RatioUnit + more]
  BY <1>6, <1>7
<1> QED
  BY <1>2, <1>3, <1>4, <1>5, <1>8, <1>9, SameCount DEF Abstract!Fork

\* What is taken is settled.
LEMMA SettledIsTaken ==
  ASSUME NEW t
  PROVE  Settled(t) <=> stage[t] \in Taken
BY DEF Settled, Taken

\* The group that is being waited for, as the application sees it.
LEMMA Forked ==
  ASSUME TypeOK, Structure, mainPc \in InWait
  PROVE  /\ cur \in Groups /\ cur # NULL
         /\ PhaseOf[cur] = "forked" /\ ShareOf[cur] = goal
         /\ MembersOf[cur] = Members(cur)
<1>1. cur \in Groups /\ cur \notin waited
  BY DEF TypeOK, MainType, GroupType, Structure, FirstWait
<1> QED
  BY <1>1 DEF PhaseOf, ShareOf, MembersOf

\* A task of middling level is promoted when ForkJoin has made it exact.
LEMMA PromotedIsExact ==
  ASSUME Known, mainPc \in InWait
  PROVE  Abstract!Promoted(cur) = Promoted
<1> USE DEF Known, IInv
<1>1. /\ cur \in Groups /\ cur # NULL /\ MembersOf[cur] = Members(cur)
  BY Forked
<1>2. ASSUME NEW t \in Members(cur)
      PROVE  /\ t \in Tasks /\ LevelOf[t] = Bucket(t)
             /\ Bucket(t) \in Levels
             /\ LevelOf[t] \in NON_SIGNIFICANT + 1 .. SIGNIFICANT - 1
                  <=> Undecided(Bucket(t))
             /\ Undecided(Bucket(t)) =>
                  (ModeOf[t] = "exact" <=> significance[t] = SIGNIFICANT)
  <2>1. t \in Tasks /\ my_group[t] = cur /\ LevelOf[t] = Bucket(t)
    BY <1>1 DEF Members, LevelOf
  <2>2. Bucket(t) \in Levels /\ InBucket(t, Bucket(t))
    BY <1>1, <2>1, BucketIsIn DEF Ordered
  <2>3. LevelOf[t] \in NON_SIGNIFICANT + 1 .. SIGNIFICANT - 1
          <=> Undecided(Bucket(t))
    BY <2>1, <2>2 DEF Undecided, Levels, NON_SIGNIFICANT
  <2>4. ASSUME Undecided(Bucket(t))
        PROVE  ModeOf[t] = "exact" <=> significance[t] = SIGNIFICANT
    <3>1. CASE Settled(t)
      BY <2>1, <3>1 DEF ModeOf
    <3>2. CASE ~ Settled(t)
      <4>1. stage[t] = "pending"
        BY <1>1, <2>1, <3>2 DEF Settled, Structure, GroupKnown, TypeOK,
                                HistoryType, Stages
      <4>2. significance[t] # SIGNIFICANT
        BY <2>1, <2>2, <2>4, <4>1 DEF Chosen, AsPushed, Undecided
      <4> QED
        BY <2>1, <3>2, <4>2 DEF ModeOf
    <3> QED
      BY <3>1, <3>2
  <2> QED
    BY <2>1, <2>2, <2>3, <2>4
<1> QED
  BY <1>1, <1>2 DEF Abstract!Promoted, Abstract!Middling, Promoted, Middling

(***************************************************************************)
(* wait_group takes a task: it is settled, after those of a higher level.  *)
(***************************************************************************)
LEMMA TakenSettles ==
  ASSUME Known, SkipTask \/ DispatchTask
  PROVE  cur \in Groups /\ Here \in Tasks /\ Abstract!Settle(Here, cur)
<1> USE DEF Known, IInv
<1>0. /\ SkipTask \/ DispatchTask
      /\ TypeOK /\ Structure /\ Chosen /\ Tallied
  OBVIOUS
<1>1. /\ mainPc = "select" /\ mainPc \in InWait /\ mainPc' \in InWait
      /\ cur \in Groups /\ sig \in Levels /\ Here \in Tasks
      /\ my_group[Here] = cur /\ stage[Here] = "pending"
      /\ significance[Here] = sig /\ significance'[Here] = Decision(Here)
      /\ \A l \in Levels : InBucket(Here, l) <=> l = sig
      /\ stage'[Here] = IF SkipTask THEN "skipped" ELSE "queued"
      /\ \A t \in Tasks \ {Here} : /\ stage'[t] = stage[t]
                                   /\ significance'[t] = significance[t]
      /\ UNCHANGED <<cur, goal, versions, my_group, pending_q>>
  BY <1>0, TaskTaken DEF InWait
<1>2. UNCHANGED <<ran, waited>>
  BY <1>0 DEF SkipTask, DispatchTask, Deal
<1>3. /\ cur # NULL /\ PhaseOf[cur] = "forked" /\ ShareOf[cur] = goal
      /\ MembersOf[cur] = Members(cur) /\ Here \in Members(cur)
  BY <1>1, Forked DEF Members
<1>4. /\ MembersOf' = MembersOf /\ OffersOf' = OffersOf
      /\ PhaseOf' = PhaseOf /\ ShareOf' = ShareOf
  BY <1>1, <1>2 DEF MembersOf, Members, OffersOf, PhaseOf, ShareOf
<1>5. LevelOf' = LevelOf
  <2>1. \A t : Bucket(t)' = Bucket(t)
    BY <1>1, SameBucket
  <2> QED
    BY <1>1, <2>1 DEF LevelOf
<1>6. LevelOf[Here] = sig
  BY <1>1, <1>3 DEF LevelOf, Bucket
<1>7. ModeOf[Here] = "open"
  BY <1>1 DEF ModeOf, Settled
<1>8. ASSUME NEW u \in Members(cur), ModeOf[u] = "open"
      PROVE  LevelOf[u] <= LevelOf[Here]
  <2>1. /\ u \in Tasks /\ my_group[u] = cur /\ LevelOf[u] = Bucket(u)
        /\ stage[u] \notin Taken
    BY <1>3, <1>8, SettledIsTaken DEF Members, LevelOf, ModeOf
  <2>2. Bucket(u) \in Levels /\ InBucket(u, Bucket(u))
    BY <1>3, <2>1, BucketIsIn DEF Ordered
  <2>3. PICK n \in 1 .. Len(pending_q[cur][Bucket(u)]) :
           pending_q[cur][Bucket(u)][n] = u
    BY <2>1, <2>2 DEF InBucket
  <2>4. Ahead(Bucket(u), n)
    BY <1>1, <2>1, <2>2, <2>3 DEF Chosen, PassedTaken, Dealing
  <2> QED
    BY <1>1, <1>6, <2>1, <2>2, <2>4 DEF Ahead, Levels, NON_SIGNIFICANT
<1>9. Abstract!Due(Here, cur) =
        IF Decision(Here) = SIGNIFICANT THEN "exact" ELSE "approx"
  <2>1. NON_SIGNIFICANT # SIGNIFICANT
    BY DEF NON_SIGNIFICANT
  <2>2. CASE ~ Undecided(sig)
    BY <1>1, <1>6, <2>1, <2>2
    DEF Abstract!Due, Decision, DecisionBy, Undecided
  <2>3. CASE Undecided(sig)
    <3>1. current \in Nat /\ goal \in Nat
      BY DEF TypeOK, MainType
    <3>2. Cardinality(Promoted) < goal <=> current < goal
      BY <1>1, <3>1 DEF Tallied, QuotaCounts
    <3>3. Abstract!Cardinality(Abstract!Promoted(cur)) = Cardinality(Promoted)
      BY <1>1, PromotedIsExact, SameCount
    <3> QED
      BY <1>1, <1>3, <1>6, <2>1, <2>3, <3>2, <3>3
      DEF Abstract!Due, Decision, DecisionBy, Undecided
  <2> QED
    BY <2>2, <2>3
<1>10. ModeOf' = [ModeOf EXCEPT ![Here] = Abstract!Due(Here, cur)]
  <2>1. ModeOf'[Here] = Abstract!Due(Here, cur)
    BY <1>1, <1>9 DEF ModeOf, Settled
  <2>2. \A t \in Tasks \ {Here} : ModeOf'[t] = ModeOf[t]
    BY <1>1 DEF ModeOf, Settled
  <2> QED
    BY <1>1, <2>1, <2>2 DEF ModeOf
<1> QED
  BY <1>1, <1>2, <1>3, <1>4, <1>5, <1>7, <1>8, <1>10 DEF Abstract!Settle

(***************************************************************************)
(* wait_group returns: every task of its group has been settled and has    *)
(* run, if it has the function that is due.                                *)
(***************************************************************************)
LEMMA ReturnJoins ==
  ASSUME Known, WaitReturn
  PROVE  cur \in Groups /\ Abstract!Join(cur)
<1> USE DEF Known, IInv
<1>1. /\ mainPc = "awake" /\ mainPc' = "user" /\ mainPc \in InWait
      /\ waited' = waited \cup {cur}
      /\ UNCHANGED <<cur, my_group, pending_q, significance, versions, stage,
                     ran>>
  BY DEF WaitReturn, InWait, locals, tasks, buckets
<1>2. /\ cur \in Groups /\ cur # NULL /\ PhaseOf[cur] = "forked"
      /\ MembersOf[cur] = Members(cur)
  BY <1>1, Forked
<1>3. /\ MembersOf' = MembersOf /\ OffersOf' = OffersOf /\ ModeOf' = ModeOf
  BY <1>1 DEF MembersOf, Members, OffersOf, ModeOf, Settled
<1>4. LevelOf' = LevelOf
  <2>1. \A t : Bucket(t)' = Bucket(t)
    BY <1>1, SameBucket
  <2> QED
    BY <1>1, <2>1 DEF LevelOf
<1>5. PhaseOf' = [PhaseOf EXCEPT ![cur] = "joined"]
  <2>1. \A g \in Groups :
           PhaseOf'[g] = IF g = cur THEN "joined" ELSE PhaseOf[g]
    BY <1>1 DEF PhaseOf, InWait
  <2> QED
    BY <2>1 DEF PhaseOf
<1>6. ShareOf' = [ShareOf EXCEPT ![cur] = 0]
  <2>1. \A g \in Groups : /\ PhaseOf'[g] # "forked"
                          /\ PhaseOf[g] = "forked" => g = cur
    BY <1>1 DEF PhaseOf, InWait
  <2>2. \A g \in Groups : ShareOf'[g] = IF g = cur THEN 0 ELSE ShareOf[g]
    BY <2>1 DEF ShareOf
  <2> QED
    BY <2>2 DEF ShareOf
<1>7. ASSUME NEW t \in Members(cur)
      PROVE  /\ ModeOf[t] # "open"
             /\ ModeOf[t] \in OffersOf[t] => ran[t] # << >>
  <2>1. t \in Tasks /\ my_group[t] = cur
    BY DEF Members
  <2>2. stage[t] \in Taken /\ Settled(t)
    BY <1>1, SettledIsTaken DEF Tallied, AllTaken, DealtOut
  <2>3. stage[t] \notin Out
    BY <1>1, <2>1 DEF AllIn, Counted, OutOf, Uncounted
  <2>4. ran[t] = Due(t)
    <3>1. stage[t] = "skipped" \/ stage[t] = "finished"
      BY <2>2, <2>3 DEF Taken, Out
    <3> QED
      BY <2>1, <3>1 DEF Logged
  <2>5. significance[t] \in {NON_SIGNIFICANT, SIGNIFICANT}
    BY <2>1, <2>2 DEF Tallied, Decided
  <2>6. /\ ModeOf[t] = IF significance[t] = SIGNIFICANT THEN "exact"
                       ELSE "approx"
        /\ OffersOf[t] = versions[t]
    BY <1>2, <2>1, <2>2 DEF ModeOf, OffersOf
  <2>7. NON_SIGNIFICANT # SIGNIFICANT
    BY DEF NON_SIGNIFICANT
  <2>8. << >> # <<"exact">> /\ << >> # <<"approx">>
    OBVIOUS
  <2>9. ModeOf[t] \in versions[t] => Due(t) # << >>
    BY <2>5, <2>6, <2>7, <2>8 DEF Due
  <2> QED
    BY <2>4, <2>6, <2>9
<1> QED
  BY <1>1, <1>2, <1>3, <1>4, <1>5, <1>6, <1>7 DEF Abstract!Join

(***************************************************************************)
(* A worker runs a task: that is the one time that ForkJoin executes it.   *)
(***************************************************************************)
LEMMA RunExecutes ==
  ASSUME Known, NEW w \in Workers, RunTask(w), execution[w] # NULL
  PROVE  \E t \in Tasks, g \in Groups : Abstract!Execute(t, g)
<1> USE DEF Known, IInv
<1>1. /\ workerPc[w] = "run" /\ workerPc[w] \in Working
      /\ ran' = [ran EXCEPT ![job[w]] = Append(@, execution[w])]
      /\ UNCHANGED <<mainPc, cur, goal, my_group, pending_q, significance,
                     versions, stage, waited>>
  BY DEF RunTask, Working, locals, tasks, buckets
<1>2. PICK t \in Tasks : t = job[w] /\ stage[t] = "held"
  BY <1>1 DEF Structure, HandsHold
<1>3. /\ my_group[t] \in Groups /\ t \in InFlight(my_group[t])
  <2>1. my_group[t] \in Groups
    <3>1. my_group[t] # NULL
      BY <1>2 DEF Structure, GroupKnown
    <3> QED
      BY <3>1 DEF TypeOK, TaskType, GroupType
  <2>2. Held(t)
    BY <1>1, <1>2 DEF Held
  <2> QED
    BY <2>1, <2>2 DEF InFlight, Members
<1>4. my_group[t] = cur /\ mainPc \in InWait
  <2>1. my_group[t] \notin waited
    BY <1>3, AllInRendezvous DEF Rendezvous
  <2> QED
    BY <1>2, <2>1 DEF Structure, TakenInWait, Taken
<1>5. /\ cur \in Groups /\ PhaseOf[cur] = "forked"
      /\ MembersOf[cur] = Members(cur) /\ t \in Members(cur)
  BY <1>4, Forked DEF Members
<1>6. ran[t] = << >> /\ execution[w] = Selected(t)
  BY <1>1, <1>2 DEF Logged
<1>7. ModeOf[t] = execution[w] /\ ModeOf[t] \in OffersOf[t]
  <2>1. significance[t] \in {NON_SIGNIFICANT, SIGNIFICANT}
    BY <1>2 DEF Tallied, Decided, Taken
  <2>2. ModeOf[t] = IF significance[t] = SIGNIFICANT THEN "exact" ELSE "approx"
    BY <1>2 DEF ModeOf, Settled
  <2>3. NON_SIGNIFICANT # SIGNIFICANT
    BY DEF NON_SIGNIFICANT
  <2>4. OffersOf[t] = versions[t]
    BY <1>4, <1>5 DEF OffersOf
  <2> QED
    BY <1>6, <2>1, <2>2, <2>3, <2>4 DEF Selected, OrNull
<1>8. ran' = [ran EXCEPT ![t] = <<ModeOf[t]>>]
  <2>1. Append(<< >>, execution[w]) = <<execution[w]>>
    OBVIOUS
  <2> QED
    BY <1>1, <1>2, <1>6, <1>7, <2>1
<1>9. /\ MembersOf' = MembersOf /\ OffersOf' = OffersOf /\ ModeOf' = ModeOf
      /\ PhaseOf' = PhaseOf /\ ShareOf' = ShareOf
  BY <1>1 DEF MembersOf, Members, OffersOf, ModeOf, Settled, PhaseOf, ShareOf
<1>10. LevelOf' = LevelOf
  <2>1. \A u : Bucket(u)' = Bucket(u)
    BY <1>1, SameBucket
  <2> QED
    BY <1>1, <2>1 DEF LevelOf
<1>11. Abstract!Execute(t, cur)
  BY <1>5, <1>6, <1>7, <1>8, <1>9, <1>10 DEF Abstract!Execute
<1> QED
  BY <1>5, <1>11

\* The other steps of a worker are not seen.
LEMMA WorkerExecutes ==
  ASSUME Known, NEW w \in Workers, Worker(w)
  PROVE  [Abstract!Next]_Abstract!vars
<1> USE DEF Known, IInv
<1>1. CASE RunTask(w) /\ execution[w] # NULL
  BY <1>1, RunExecutes DEF Abstract!Next
<1>2. ASSUME ~ (RunTask(w) /\ execution[w] # NULL)
      PROVE  UNCHANGED Abstract!vars
  <2>1. UNCHANGED <<pending_q, my_group, significance, versions, cur, goal,
                    waited>>
    <3>1. CASE CountDown(w)
      BY <3>1 DEF CountDown, CountDownAnd, locals, tasks, buckets
    <3>2. CASE ~ CountDown(w)
      BY <3>2 DEF Worker, CheckRunning, PopNothing, Recheck, LoopTest, PopTask,
                  RunTask, EnterSync, TakeLock, LeaveSync, locals, tasks,
                  buckets, history
    <3> QED
      BY <3>1, <3>2
  <2>2. ran' = ran
    BY <1>2 DEF Worker, CheckRunning, PopNothing, Recheck, LoopTest, PopTask,
                RunTask, EnterSync, TakeLock, LeaveSync, CountDown,
                CountDownAnd, history
  <2>3. mainPc' = mainPc \/ (mainPc = "asleep" /\ mainPc' = "awake")
    BY DEF Worker, CheckRunning, PopNothing, Recheck, LoopTest, PopTask,
           RunTask, EnterSync, TakeLock, LeaveSync, CountDown, CountDownAnd
  <2>4. mainPc' \in InWait <=> mainPc \in InWait
    BY <2>3 DEF InWait
  <2>5. \A t \in Tasks : stage'[t] \in Taken <=> stage[t] \in Taken
    BY WorkerStages
  <2>6. \A t \in Tasks : Settled(t)' <=> Settled(t)
    BY <2>5 DEF Settled, Taken
  <2> QED
    BY <2>1, <2>2, <2>4, <2>6, Stutters
<1> QED
  BY <1>1, <1>2

(***************************************************************************)
(* The runtime implements the fork and join that the application sees, if  *)
(* pthread_cond_wait does not return spuriously and a group has no more    *)
(* tasks than a float counts exactly.                                      *)
(***************************************************************************)
THEOREM ForkJoinImplemented ==
  ASSUME ~ SpuriousWakeups, MaxTasks <= 2^PRECISION
  PROVE  Spec => ImplementsForkJoin
<1>1. Init => Abstract!Init
  <2> SUFFICES ASSUME Init PROVE Abstract!Init
    OBVIOUS
  <2>1. /\ \A t \in Tasks : my_group[t] = NULL /\ stage[t] = "unborn"
        /\ NULL \notin Groups /\ waited = {} /\ mainPc = "init"
        /\ ran = [t \in Tasks |-> << >>]
    BY DEF Init
  <2>2. MembersOf = [g \in Groups |-> {}]
    BY <2>1 DEF MembersOf, Members
  <2>3. LevelOf = [t \in Tasks |-> NON_SIGNIFICANT]
    BY <2>1 DEF LevelOf
  <2>4. OffersOf = [t \in Tasks |-> {}]
    BY <2>1 DEF OffersOf
  <2>5. PhaseOf = [g \in Groups |-> "open"]
    BY <2>1 DEF PhaseOf, InWait
  <2>6. ShareOf = [g \in Groups |-> 0]
    BY <2>5 DEF ShareOf
  <2>7. ModeOf = [t \in Tasks |-> "open"]
    BY <2>1 DEF ModeOf, Settled
  <2> QED
    BY <2>1, <2>2, <2>3, <2>4, <2>5, <2>6, <2>7 DEF Abstract!Init
<1>2. Known /\ [Next]_vars => [Abstract!Next]_Abstract!vars
  <2> SUFFICES ASSUME Known, [Next]_vars
               PROVE  [Abstract!Next]_Abstract!vars
    OBVIOUS
  <2>1. TypeOK
    BY DEF Known, IInv
  <2>2. ASSUME NEW r \in Ratios, LockGroup(r)
        PROVE  Abstract!Next
    BY <2>2, LockForks DEF Abstract!Next
  <2>3. CASE SkipTask \/ DispatchTask
    BY <2>3, TakenSettles DEF Abstract!Next
  <2>4. CASE WaitReturn
    BY <2>4, ReturnJoins DEF Abstract!Next
  <2>5. CASE \/ StartWorker \/ StopWorker \/ JoinWorker \/ JoinCrashes
             \/ CountTask \/ NextLevel \/ CondWait \/ SpuriousWakeup
             \/ UNCHANGED vars
    BY <2>1, <2>5, MainStutters
  <2> QED
    BY <2>2, <2>3, <2>4, <2>5, ApplicationSteps, WorkerExecutes DEF Next, Call
<1> QED
  BY <1>1, <1>2, InvariantKnown, PTL
  DEF Spec, ImplementsForkJoin, Abstract!Spec

=============================================================================
