----------------------- MODULE ChainFeePlanner_proofs -----------------------
(***************************************************************************)
(* Proofs about ChainFeePlanner, for every TTL, every bound and every      *)
(* pattern of clock steps.                                                 *)
(***************************************************************************)
EXTENDS ChainFeePlanner, TLAPS

\* A state in which the planner's invariant holds satisfies the properties.
LEMMA InvImpliesProperties ==
    PlannerInv => ConfigIsRecent /\ ForgottenStaysForgotten /\ InfusionsReadInCall
BY DEF PlannerInv, CallConfigured, CallInfused, HasConfig, Priced, ConfigIsRecent,
       ForgottenStaysForgotten, InfusionsReadInCall

\* A cache hit hands out a config the chain held less than TTL, plus the
\* backward steps, ago: the arithmetic the wall clock and the TTL allow.
LEMMA HitIsRecent ==
    ASSUME PlannerInv, NEW refresh \in BOOLEAN, CacheHit(refresh)
    PROVE  Recent(m_config, now, TTL + back)
BY TTLAssumption
   DEF PlannerInv, TypeOK, HeldConfigInv, CacheHit, NowMs, Recent, Since, Versions

\* Since promises less for an earlier time, Recent less for a larger age.
LEMMA SinceWeaker ==
    ASSUME TypeOK, NEW v \in Versions, NEW t \in Int, NEW u \in Int, u <= t, Since(v, t)
    PROVE  Since(v, u)
BY DEF TypeOK, Since

LEMMA RecentWeaker ==
    ASSUME TypeOK, NEW v \in Versions, NEW t \in Int, NEW a \in Nat, NEW b \in Nat,
           a <= b, Recent(v, t, a)
    PROVE  Recent(v, t, b)
BY SinceWeaker, t - b + 1 <= t - a + 1, t - b + 1 \in Int, t - a + 1 \in Int DEF Recent

\* When governance replaces the config, the outgoing version was the chain's
\* until now.
LEMMA SinceSurvivesGovernance ==
    ASSUME TypeOK, Governance, NEW v \in Versions, NEW t \in Int, t <= now, Since(v, t)
    PROVE  v = version' \/ supersededAt'[v] >= t
BY DEF TypeOK, Since, Governance, Versions

LEMMA InitEstablishesInv == Init => PlannerInv
<1> SUFFICES ASSUME Init PROVE PlannerInv
    OBVIOUS
<1>1. Idle \in CallType
      BY DEF Idle, CallType, Messages, None
<1>2. TypeOK
  <2>1. m_haveConfig \in BOOLEAN
        BY DEF Init
  <2>2. supersededAt \in [Versions -> Nat]
        BY DEF Init
  <2> QED BY <1>1, <2>1, <2>2, BoundsAssumption DEF Init, TypeOK, Versions, Infusions
<1>3. forgotten <= version /\ HeldConfigInv
      BY DEF Init, HeldConfigInv
<1>4. CallStarted /\ CallConfigured /\ CallInfused
      BY DEF Init, CallStarted, CallConfigured, CallInfused, Idle, HasConfig, Priced
<1> QED BY <1>2, <1>3, <1>4 DEF PlannerInv

----------------------------------------------------------------------------
(* The clock and the chain move under the planner.                         *)

LEMMA TimePreservesInv ==
    PlannerInv /\ (Tick \/ StepForward \/ StepBack \/ Infuse) => PlannerInv'
<1> SUFFICES ASSUME PlannerInv, Tick \/ StepForward \/ StepBack \/ Infuse
             PROVE  PlannerInv'
    OBVIOUS
<1>1. /\ UNCHANGED <<version, supersededAt, planner, forgotten, call>>
      /\ now' \in Nat /\ fwd' \in Nat /\ back' \in Nat /\ held' \in Infusions
      /\ now <= now' /\ fwd <= fwd' /\ back <= back' /\ held <= held'
      BY BoundsAssumption
      DEF PlannerInv, TypeOK, Tick, StepForward, StepBack, Infuse, clock, chain, Infusions
<1>2. TypeOK'
      BY <1>1 DEF PlannerInv, TypeOK, planner
<1>3. forgotten' <= version'
      BY <1>1 DEF PlannerInv
<1>4. HeldConfigInv'
  <2> SUFFICES ASSUME m_haveConfig' PROVE HeldConfigInv!2'
      BY DEF HeldConfigInv
  <2>1. m_fetchedAt <= now + fwd /\ Since(m_config, m_fetchedAt - fwd) /\ m_config >= forgotten
        BY <1>1 DEF PlannerInv, HeldConfigInv, planner
  <2>2. Since(m_config, m_fetchedAt - fwd')
        BY <1>1, <2>1, SinceWeaker DEF PlannerInv, TypeOK
  <2>3. m_fetchedAt <= now' + fwd'
    <3> DEFINE n == now'  f == fwd'
    <3>1. now \in Nat /\ fwd \in Nat /\ n \in Nat /\ f \in Nat /\ m_fetchedAt \in Int
          BY <1>1 DEF PlannerInv, TypeOK
    <3>2. now <= n /\ fwd <= f /\ m_fetchedAt <= now + fwd
          BY <1>1, <2>1
    <3> HIDE DEF n, f
    <3>3. m_fetchedAt <= n + f
          BY <3>1, <3>2
    <3> QED BY <3>3 DEF n, f
  <2> QED BY <1>1, <2>1, <2>2, <2>3 DEF Since, planner
<1>5. CallStarted'
      BY <1>1 DEF PlannerInv, TypeOK, CallType, CallStarted, Versions, Infusions
<1>6. CallConfigured'
  <2> SUFFICES ASSUME call.pc \in HasConfig PROVE CallConfigured!2'
      BY <1>1 DEF CallConfigured
  <2>1. CallConfigured!2
        BY DEF PlannerInv, CallConfigured
  <2>2. Recent(call.config, call.start, TTL + back')
        BY <1>1, <2>1, TTLAssumption, RecentWeaker DEF PlannerInv, TypeOK, CallType
  <2> QED BY <1>1, <2>1, <2>2 DEF Since, Recent
<1>7. CallInfused'
      BY <1>1 DEF PlannerInv, CallInfused
<1> QED BY <1>2, <1>3, <1>4, <1>5, <1>6, <1>7 DEF PlannerInv

LEMMA GovernancePreservesInv == PlannerInv /\ Governance => PlannerInv'
<1> SUFFICES ASSUME PlannerInv, Governance PROVE PlannerInv'
    OBVIOUS
<1>1. /\ UNCHANGED <<clock, held, planner, forgotten, call>>
      /\ version' = version + 1 /\ version' \in Versions
      /\ supersededAt' \in [Versions -> Nat]
      BY BoundsAssumption DEF PlannerInv, TypeOK, Governance, Versions
<1>2. TypeOK'
      BY <1>1 DEF PlannerInv, TypeOK, clock, planner
<1>3. forgotten' <= version'
      BY <1>1 DEF PlannerInv, TypeOK, Versions
<1>4. ASSUME NEW v \in Versions, NEW t \in Int, t <= now, Since(v, t)
      PROVE  v = version' \/ supersededAt'[v] >= t
      BY <1>4, SinceSurvivesGovernance DEF PlannerInv
<1>5. HeldConfigInv'
  <2> SUFFICES ASSUME m_haveConfig PROVE HeldConfigInv!2'
      BY <1>1 DEF HeldConfigInv, planner
  <2>1. m_fetchedAt <= now + fwd /\ Since(m_config, m_fetchedAt - fwd) /\ m_config >= forgotten
        BY DEF PlannerInv, HeldConfigInv
  <2>2. m_config \in Versions /\ m_fetchedAt - fwd \in Int /\ m_fetchedAt - fwd <= now
        BY <2>1 DEF PlannerInv, TypeOK
  <2>3. m_config = version' \/ supersededAt'[m_config] >= m_fetchedAt - fwd
        BY <1>4, <2>1, <2>2
  <2> QED BY <1>1, <2>1, <2>3 DEF Since, planner, clock
<1>6. CallStarted'
      BY <1>1 DEF PlannerInv, TypeOK, CallType, CallStarted, Versions, clock
<1>7. CallConfigured'
  <2> SUFFICES ASSUME call.pc \in HasConfig PROVE CallConfigured!2'
      BY <1>1 DEF CallConfigured
  <2>1. CallConfigured!2
        BY DEF PlannerInv, CallConfigured
  <2>2. call.start \in Int /\ call.start <= now /\ TTL + back \in Nat
        BY TTLAssumption DEF PlannerInv, TypeOK, CallType, CallStarted
  <2>3. ASSUME Since(call.config, call.start)
        PROVE  call.config = version' \/ supersededAt'[call.config] >= call.start
        BY <1>4, <2>1, <2>2, <2>3
  <2>4. ASSUME Since(call.config, call.start - (TTL + back) + 1),
               ~Since(call.config, call.start)
        PROVE  \/ call.config = version'
               \/ supersededAt'[call.config] >= call.start - (TTL + back) + 1
    <3>1. supersededAt[call.config] < call.start
          BY <2>1, <2>2, <2>4 DEF Since, PlannerInv, TypeOK
    <3>2. call.config # version
          BY <2>4 DEF Since
    <3>3. supersededAt'[call.config] = supersededAt[call.config]
          BY <2>1, <3>2 DEF Governance, PlannerInv, TypeOK
    <3> QED BY <2>4, <3>2, <3>3 DEF Since
  <2>5. call.config = version' \/ \/ supersededAt'[call.config] >= call.start
                                 \/ supersededAt'[call.config] >= call.start - (TTL + back) + 1
        BY <2>1, <2>3, <2>4 DEF Recent
  <2> QED BY <1>1, <2>1, <2>3, <2>5 DEF Since, Recent, clock
<1>8. CallInfused'
      BY <1>1 DEF PlannerInv, CallInfused
<1> QED BY <1>2, <1>3, <1>5, <1>6, <1>7, <1>8 DEF PlannerInv

----------------------------------------------------------------------------
(* The planner's own steps.                                                *)

\* Enter is where a stale config could get in: a miss takes nothing from the
\* cache, a hit is HitIsRecent.
LEMMA EnterPreservesInv ==
    ASSUME PlannerInv, NEW op \in {"config", "plan"}, NEW msg \in Messages,
           NEW stated \in BOOLEAN, NEW refresh \in BOOLEAN,
           Enter(op, msg, stated, refresh)
    PROVE  PlannerInv'
<1>1. UNCHANGED <<now, fwd, back, version, supersededAt, held,
                  m_haveConfig, m_config, m_fetchedAt, forgotten>>
      BY DEF Enter, clock, chain, planner
<1>2. NowMs \in Int /\ NowMs <= now + fwd
      BY DEF PlannerInv, TypeOK, NowMs
<1>3. /\ call'.start = now /\ call'.localNow = NowMs /\ call'.startHeld = held
      /\ call'.floor \in {version, forgotten}
      /\ call'.pc \in {"request", "answered", "infusions"}
      /\ call'.pc = "answered" => call'.op = "config"
      BY DEF Enter, AfterConfig
<1>4. call' \in CallType
      BY <1>2 DEF PlannerInv, Enter, TypeOK, CallType, AfterConfig, None, Versions, Infusions
<1>5. TypeOK'
      BY <1>1, <1>4 DEF PlannerInv, TypeOK
<1>6. forgotten' <= version' /\ HeldConfigInv'
      BY <1>1 DEF PlannerInv, HeldConfigInv, Since
<1>7. CallStarted'
      BY <1>1, <1>2, <1>3 DEF PlannerInv, TypeOK, CallStarted, Versions, Infusions
<1>8. CallConfigured'
  <2> SUFFICES ASSUME call'.pc \in HasConfig PROVE CallConfigured!2'
      BY DEF CallConfigured
  <2>1. CacheHit(refresh)
        BY DEF Enter, HasConfig
  <2>2. m_haveConfig /\ ~refresh
        BY <2>1 DEF CacheHit
  <2>3. call'.config = m_config /\ call'.floor = forgotten /\ call'.pc # "reply"
        BY <1>3, <2>1, <2>2 DEF Enter
  <2>4. m_config \in Versions /\ m_config >= forgotten
        BY <2>2 DEF PlannerInv, TypeOK, HeldConfigInv
  <2>5. Recent(m_config, now, TTL + back)
        BY <2>1, HitIsRecent
  <2> QED BY <1>1, <1>3, <2>3, <2>4, <2>5 DEF Recent, Since
<1>9. CallInfused'
      BY <1>3 DEF CallInfused, Priced
<1> QED BY <1>5, <1>6, <1>7, <1>8, <1>9 DEF PlannerInv

\* Failing forgets the call, and Idle promises nothing.
LEMMA FailPreservesInv == PlannerInv /\ Fail => PlannerInv'
<1> SUFFICES ASSUME PlannerInv, Fail PROVE PlannerInv'
    OBVIOUS
<1>1. UNCHANGED <<now, fwd, back, version, supersededAt, held,
                  m_haveConfig, m_config, m_fetchedAt, forgotten>> /\ call' = Idle
      BY DEF Fail, clock, chain, planner
<1>2. Idle \in CallType
      BY DEF Idle, CallType, Messages, None
<1>3. TypeOK'
      BY <1>1, <1>2 DEF PlannerInv, TypeOK
<1>4. forgotten' <= version' /\ HeldConfigInv'
      BY <1>1 DEF PlannerInv, HeldConfigInv, Since
<1>5. CallStarted' /\ CallConfigured' /\ CallInfused'
      BY <1>1 DEF PlannerInv, TypeOK, CallStarted, CallConfigured, CallInfused, Idle,
                  HasConfig, Priced, Versions, Infusions
<1> QED BY <1>3, <1>4, <1>5 DEF PlannerInv

LEMMA PlannerPreservesInv == PlannerInv /\ Planner => PlannerInv'
<1> SUFFICES ASSUME PlannerInv, Planner PROVE PlannerInv'
    OBVIOUS
<1>1. ASSUME NEW refresh \in BOOLEAN, CallConfig(refresh) PROVE PlannerInv'
      BY <1>1, EnterPreservesInv DEF CallConfig, Messages
<1>2. ASSUME NEW msg \in Messages, NEW stated \in BOOLEAN, CallPlan(msg, stated)
      PROVE  PlannerInv'
      BY <1>2, EnterPreservesInv DEF CallPlan
<1>3. CASE ConfigFails \/ PlanShortBurn \/ PlanInfusionsFail \/ PlanUnpriced
      BY <1>3, FailPreservesInv DEF ConfigFails, PlanShortBurn, PlanInfusionsFail, PlanUnpriced
<1>4. CASE NodeServesConfig
  <2>1. UNCHANGED <<now, fwd, back, version, supersededAt, held,
                    m_haveConfig, m_config, m_fetchedAt, forgotten>>
        BY <1>4 DEF NodeServesConfig, clock, chain, planner
  <2>2. call' = [call EXCEPT !.pc = "reply", !.config = version] /\ call.pc = "request"
        BY <1>4 DEF NodeServesConfig
  <2>3. call' \in CallType
    <3>1. version \in Int
          BY DEF PlannerInv, TypeOK, Versions
    <3> QED BY <2>2, <3>1 DEF PlannerInv, TypeOK, CallType
  <2>4. TypeOK' /\ HeldConfigInv' /\ forgotten' <= version'
        BY <2>1, <2>3 DEF PlannerInv, TypeOK, HeldConfigInv, Since
  <2>5. CallStarted'
        BY <2>1, <2>2 DEF PlannerInv, TypeOK, CallType, CallStarted
  <2>6. CallConfigured'
        BY <2>1, <2>2
        DEF PlannerInv, TypeOK, CallType, CallStarted, CallConfigured, HasConfig, Since, Recent
  <2>7. CallInfused'
        BY <2>2 DEF PlannerInv, TypeOK, CallType, CallInfused, Priced
  <2> QED BY <2>4, <2>5, <2>6, <2>7 DEF PlannerInv
<1>5. CASE ConfigArrives
  <2>1. UNCHANGED <<now, fwd, back, version, supersededAt, held, forgotten>>
        BY <1>5 DEF ConfigArrives, clock, chain
  <2>2. /\ m_config' = call.config /\ m_haveConfig' = TRUE /\ m_fetchedAt' = call.localNow
        /\ call' = [call EXCEPT !.pc = AfterConfig(call.op)] /\ call.pc = "reply"
        BY <1>5 DEF ConfigArrives
  <2>3. call' \in CallType
        BY <2>2 DEF PlannerInv, TypeOK, CallType, AfterConfig
  <2>4. call.config \in Versions /\ Since(call.config, call.start) /\ call.config >= call.floor
        BY <2>2 DEF PlannerInv, CallConfigured, HasConfig
  <2>5. TypeOK' /\ forgotten' <= version'
    <3>1. m_haveConfig' \in BOOLEAN
          BY <2>2
    <3> QED BY <2>1, <2>2, <2>3, <2>4, <3>1 DEF PlannerInv, TypeOK, CallType
  <2>6. HeldConfigInv'
    <3>1. call.localNow <= now + fwd /\ call.localNow - fwd <= call.start
          BY DEF PlannerInv, TypeOK, CallType, CallStarted
    <3>2. Since(call.config, call.localNow - fwd)
          BY <2>4, <3>1, SinceWeaker DEF PlannerInv, TypeOK, CallType
    <3>3. call.config >= forgotten
          BY <2>2, <2>4 DEF PlannerInv, TypeOK, CallType, CallStarted, Versions
    <3> QED BY <2>1, <2>2, <3>1, <3>2, <3>3 DEF HeldConfigInv, Since
  <2>7. CallStarted'
        BY <2>1, <2>2 DEF PlannerInv, TypeOK, CallType, CallStarted
  <2>8. CallConfigured'
        BY <2>1, <2>2, <2>4
        DEF PlannerInv, TypeOK, CallType, CallConfigured, HasConfig, Since, Recent, AfterConfig
  <2>9. CallInfused'
        BY <2>2 DEF PlannerInv, TypeOK, CallType, CallInfused, Priced, AfterConfig
  <2> QED BY <2>5, <2>6, <2>7, <2>8, <2>9 DEF PlannerInv
<1>6. CASE Invalidate
  <2>1. UNCHANGED <<now, fwd, back, version, supersededAt, held, m_config, m_fetchedAt, call>>
        /\ m_haveConfig' = FALSE /\ forgotten' = version
        BY <1>6 DEF Invalidate, clock, chain
  <2>2. m_haveConfig' \in BOOLEAN
        BY <2>1
  <2>3. TypeOK' /\ forgotten' <= version'
        BY <2>1, <2>2 DEF PlannerInv, TypeOK, Versions
  <2>4. HeldConfigInv'
        BY <2>1 DEF HeldConfigInv
  <2>5. CallStarted' /\ CallConfigured' /\ CallInfused'
        BY <1>6, <2>1
        DEF Invalidate, PlannerInv, CallStarted, CallConfigured, CallInfused, Since, Recent
  <2> QED BY <2>3, <2>4, <2>5 DEF PlannerInv
<1>7. ASSUME UNCHANGED <<clock, chain, planner, forgotten>>,
             call.pc \in {"infusions", "price"},
             NEW pc \in {"price", "answered"}, NEW i \in Int,
             call' = [call EXCEPT !.pc = pc, !.infusions = i],
             CallInfused'
      PROVE  PlannerInv'
  <2>1. UNCHANGED <<now, fwd, back, version, supersededAt, held,
                    m_haveConfig, m_config, m_fetchedAt, forgotten>>
        BY <1>7 DEF clock, chain, planner
  <2>2. call' \in CallType
        BY <1>7 DEF PlannerInv, TypeOK, CallType
  <2>3. TypeOK' /\ HeldConfigInv' /\ forgotten' <= version'
        BY <2>1, <2>2 DEF PlannerInv, TypeOK, HeldConfigInv, Since
  <2>4. CallStarted' /\ CallConfigured'
        BY <1>7, <2>1
        DEF PlannerInv, TypeOK, CallType, CallStarted, CallConfigured, HasConfig, Since, Recent
  <2> QED BY <1>7, <2>3, <2>4 DEF PlannerInv
<1>8. CASE PlanSkipsInfusions \/ PlanReadsInfusions \/ PlanPrices
  <2>1. CASE PlanSkipsInfusions
    <3>1. call' = [call EXCEPT !.pc = "price", !.infusions = call.infusions]
          BY <2>1 DEF PlanSkipsInfusions, PlannerInv, TypeOK, CallType
    <3>2. CallInfused'
          BY <2>1 DEF PlanSkipsInfusions, NothingToRead, CallInfused, PlannerInv, TypeOK, CallType
    <3> QED BY <1>7, <2>1, <3>1, <3>2 DEF PlanSkipsInfusions, PlannerInv, TypeOK, CallType
  <2>2. CASE PlanReadsInfusions
    <3>1. CallInfused'
          BY <2>2
          DEF PlanReadsInfusions, CallInfused, CallStarted, PlannerInv, TypeOK, CallType
    <3>2. held \in Int
          BY DEF PlannerInv, TypeOK, Infusions
    <3> QED BY <1>7, <2>2, <3>1, <3>2 DEF PlanReadsInfusions
  <2>3. CASE PlanPrices
    <3>1. call' = [call EXCEPT !.pc = "answered", !.infusions = call.infusions]
          BY <2>3 DEF PlanPrices, Succeed, PlannerInv, TypeOK, CallType
    <3>2. CallInfused'
          BY <2>3 DEF PlanPrices, Succeed, CallInfused, Priced, PlannerInv, TypeOK, CallType
    <3> QED BY <1>7, <2>3, <3>1, <3>2 DEF PlanPrices, Succeed, PlannerInv, TypeOK, CallType
  <2> QED BY <1>8, <2>1, <2>2, <2>3
<1> QED BY <1>1, <1>2, <1>3, <1>4, <1>5, <1>6, <1>8 DEF Planner

\* The inductive invariant holds in every reachable state.
THEOREM PlannerInvariant == Spec => []PlannerInv
<1>1. PlannerInv /\ [Next]_vars => PlannerInv'
  <2> SUFFICES ASSUME PlannerInv, [Next]_vars PROVE PlannerInv'
      OBVIOUS
  <2>1. CASE Next
        BY <2>1, TimePreservesInv, GovernancePreservesInv, PlannerPreservesInv
           DEF Next, Environment
  <2>2. CASE UNCHANGED vars
        BY <2>2 DEF vars, clock, chain, planner, PlannerInv, TypeOK, HeldConfigInv,
                    CallStarted, CallConfigured, CallInfused, Since, Recent
  <2> QED BY <2>1, <2>2
<1> QED BY <1>1, InitEstablishesInv, PTL DEF Spec

\* The planner's fields and the locals of a call have their declared types.
THEOREM PlannerTypeOK == Spec => []TypeOK
<1>1. PlannerInv => TypeOK
      BY DEF PlannerInv
<1> QED BY <1>1, PlannerInvariant, PTL

\* Config and Plan never use a gas config the chain had dropped longer ago than
\* configTtlMs plus the backward steps of the wall clock.
THEOREM CachedConfigIsRecent == Spec => []ConfigIsRecent
BY PlannerInvariant, InvImpliesProperties, PTL

\* Invalidate and refresh take effect for good.
THEOREM InvalidateIsFinal == Spec => []ForgottenStaysForgotten
BY PlannerInvariant, InvImpliesProperties, PTL

\* A plan for a burn rests on infusions read during that call.
THEOREM PlanReadsInfusionsAnew == Spec => []InfusionsReadInCall
BY PlannerInvariant, InvImpliesProperties, PTL

=============================================================================
