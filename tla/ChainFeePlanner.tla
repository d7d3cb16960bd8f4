-------------------------- MODULE ChainFeePlanner --------------------------
(***************************************************************************)
(* ChainFeePlanner (include/Carbon/ChainFeePlan.h): the object that prices *)
(* messages against the chain's gas config and holds the config it last    *)
(* read for configTtlMs milliseconds of the WALL clock (NowMs reads        *)
(* std::chrono::system_clock, which an operator or NTP may step).          *)
(*                                                                         *)
(* The gas config the chain holds is abstracted to its version: governance *)
(* replaces version v by version v + 1.  What an NFT about to be burned    *)
(* holds at its own address is abstracted the same way.  `now' is true     *)
(* time; the wall clock reads now + fwd - back, where fwd and back are the *)
(* sums of the forward and backward steps it has been given.               *)
(***************************************************************************)
EXTENDS Integers

CONSTANTS
    TTL,          \* configTtlMs
    MaxTime,      \* bound: true time stops here
    MaxVersion,   \* bound: changes of the gas config
    MaxInfusion,  \* bound: changes of what the burned instance holds
    MaxFwd,       \* bound: total forward step of the wall clock
    MaxBack       \* bound: total backward step of the wall clock

ASSUME TTLAssumption    == TTL \in Nat
ASSUME BoundsAssumption == /\ MaxTime \in Nat /\ MaxVersion \in Nat
                           /\ MaxInfusion \in Nat
                           /\ MaxFwd \in Nat /\ MaxBack \in Nat

VARIABLES
    now, fwd, back,        \* true time and the wall clock's accumulated steps
    version,               \* the gas config the chain holds now
    supersededAt,          \* history: when version v stopped being the chain's
    held,                  \* what the burned instance holds now
    m_haveConfig,          \* the planner's fields
    m_config,
    m_fetchedAt,
    forgotten,             \* history: the config at the last Invalidate
    call                   \* the last call: its locals and where it stands

clock   == <<now, fwd, back>>
chain   == <<version, supersededAt, held>>
planner == <<m_haveConfig, m_config, m_fetchedAt>>
vars    == <<clock, chain, planner, forgotten, call>>

Versions  == 0 .. MaxVersion
Infusions == 0 .. MaxInfusion
None      == -1      \* nothing read, nothing answered yet

\* The messages Plan tells apart: BurnedInstances finds nothing, finds an
\* instance, or meets a burn whose arguments are too short to read.
Messages == {"plain", "burn", "short"}

\* static int64_t NowMs(): system_clock.
NowMs == now + fwd - back

Idle == [pc |-> "idle", op |-> "config", msg |-> "plain", stated |-> FALSE,
         localNow |-> 0, start |-> 0, startHeld |-> 0, floor |-> 0,
         config |-> None, infusions |-> None]

Init ==
    /\ now = 0 /\ fwd = 0 /\ back = 0
    /\ version = 0
    /\ supersededAt = [v \in Versions |-> 0]
    /\ held = 0
    /\ m_haveConfig = FALSE /\ m_config = 0 /\ m_fetchedAt = 0
    /\ call = Idle
    /\ forgotten = 0

----------------------------------------------------------------------------
(* The environment: time, the wall clock, governance, other accounts.      *)

Tick ==
    /\ now < MaxTime
    /\ now' = now + 1
    /\ UNCHANGED <<fwd, back, chain, planner, forgotten, call>>

StepForward ==
    /\ fwd < MaxFwd
    /\ fwd' = fwd + 1
    /\ UNCHANGED <<now, back, chain, planner, forgotten, call>>

StepBack ==
    /\ back < MaxBack
    /\ back' = back + 1
    /\ UNCHANGED <<now, fwd, chain, planner, forgotten, call>>

\* A governance resolution replaces the gas config.
Governance ==
    /\ version < MaxVersion
    /\ version' = version + 1
    /\ supersededAt' = [supersededAt EXCEPT ![version] = now]
    /\ UNCHANGED <<clock, held, planner, forgotten, call>>

\* Somebody infuses the instance this planner may be asked to burn.
Infuse ==
    /\ held < MaxInfusion
    /\ held' = held + 1
    /\ UNCHANGED <<clock, version, supersededAt, planner, forgotten, call>>

----------------------------------------------------------------------------
(* Config, Plan and Invalidate.                                            *)

\* !refresh && m_haveConfig && now - m_fetchedAt < m_ttlMs
CacheHitAtTTL(refresh) == ~refresh /\ m_haveConfig /\ NowMs - m_fetchedAt <= TTL
CacheHitOnRefresh(refresh) == m_haveConfig /\ NowMs - m_fetchedAt < TTL
CacheHit(refresh) ==
    /\ ~refresh
    /\ m_haveConfig
    /\ NowMs - m_fetchedAt < TTL

\* Where a call goes once it has its config: Config answers it, Plan goes on.
AfterConfig(op) == IF op = "config" THEN "answered" ELSE "infusions"

\* Entry of Config(out, outError, refresh), called directly or by Plan.
Enter(op, msg, stated, refresh) ==
    /\ call.pc \in {"idle", "answered"}
    /\ call' = [pc        |-> IF CacheHit(refresh) THEN AfterConfig(op) ELSE "request",
                op        |-> op,
                msg       |-> msg,
                stated    |-> stated,
                localNow  |-> NowMs,
                start     |-> now,
                startHeld |-> held,
                floor     |-> IF refresh THEN version ELSE forgotten,
                config    |-> IF CacheHit(refresh) THEN m_config ELSE None,
                infusions |-> None]
    /\ UNCHANGED <<clock, chain, planner, forgotten>>

CallConfig(refresh)    == Enter("config", "plain", FALSE, refresh)
CallPlan(msg, stated)  == Enter("plan", msg, stated, FALSE)

\* The node serves GetGasConfig: the answer is the config of that instant.
NodeServesConfig ==
    /\ call.pc = "request"
    /\ call' = [call EXCEPT !.pc = "reply", !.config = version]
    /\ UNCHANGED <<clock, chain, planner, forgotten>>

\* The answer arrives: the three fields are stored, m_fetchedAt with the time
\* read BEFORE the request went out.
StoresArrivalTime ==
    /\ call.pc = "reply"
    /\ m_config' = call.config /\ m_haveConfig' = TRUE /\ m_fetchedAt' = NowMs
    /\ call' = [call EXCEPT !.pc = AfterConfig(call.op)]
    /\ UNCHANGED <<clock, chain, forgotten>>
ConfigArrives ==
    /\ call.pc = "reply"
    /\ m_config' = call.config
    /\ m_haveConfig' = TRUE
    /\ m_fetchedAt' = call.localNow
    /\ call' = [call EXCEPT !.pc = AfterConfig(call.op)]
    /\ UNCHANGED <<clock, chain, forgotten>>

Fail ==
    /\ call' = Idle
    /\ UNCHANGED <<clock, chain, planner, forgotten>>

Succeed ==
    /\ call' = [call EXCEPT !.pc = "answered"]
    /\ UNCHANGED <<clock, chain, planner, forgotten>>

\* error.code != 0: Config answers false and leaves the held config alone.
ConfigFails == call.pc \in {"request", "reply"} /\ Fail

\* void Invalidate()
Invalidate ==
    /\ call.pc \in {"idle", "answered"}
    /\ m_haveConfig' = FALSE
    /\ forgotten' = version
    /\ UNCHANGED <<clock, chain, m_config, m_fetchedAt, call>>

\* Plan: BurnedInstances fails on a burn too short to read.
PlanShortBurn ==
    /\ call.pc = "infusions" /\ ~call.stated /\ call.msg = "short"
    /\ Fail

\* Plan: the caller stated the infusions, or nothing is burned.
NothingToReadUnlessShort == call.stated \/ call.msg # "short"
NothingToRead == call.stated \/ call.msg = "plain"

PlanSkipsInfusions ==
    /\ call.pc = "infusions" /\ NothingToRead
    /\ call' = [call EXCEPT !.pc = "price"]
    /\ UNCHANGED <<clock, chain, planner, forgotten>>

\* Plan: ReadInfusedAssets asks the node, which answers or fails.
PlanReadsInfusions ==
    /\ call.pc = "infusions" /\ ~NothingToRead /\ call.msg = "burn"
    /\ call' = [call EXCEPT !.pc = "price", !.infusions = held]
    /\ UNCHANGED <<clock, chain, planner, forgotten>>

PlanInfusionsFail ==
    /\ call.pc = "infusions" /\ ~NothingToRead /\ call.msg = "burn"
    /\ Fail

\* PlanFees prices the message, or refuses it.
PlanPrices   == call.pc = "price" /\ Succeed
PlanUnpriced == call.pc = "price" /\ Fail

----------------------------------------------------------------------------
Environment == Tick \/ StepForward \/ StepBack \/ Governance \/ Infuse

Planner ==
    \/ \E refresh \in BOOLEAN : CallConfig(refresh)
    \/ \E msg \in Messages, stated \in BOOLEAN : CallPlan(msg, stated)
    \/ NodeServesConfig \/ ConfigArrives \/ ConfigFails
    \/ Invalidate
    \/ PlanShortBurn \/ PlanSkipsInfusions \/ PlanReadsInfusions
    \/ PlanInfusionsFail
    \/ PlanPrices \/ PlanUnpriced

Next == Environment \/ Planner

Spec == Init /\ [][Next]_vars

----------------------------------------------------------------------------
(* Properties.                                                             *)

CallType ==
    [pc : {"idle", "request", "reply", "infusions", "price", "answered"},
     op : {"config", "plan"}, msg : Messages, stated : BOOLEAN,
     localNow : Int, start : Nat, startHeld : Nat, floor : Nat,
     config : Int, infusions : Int]

\* The planner's fields and the locals of a call have their declared types.
TypeOK ==
    /\ now \in Nat /\ fwd \in Nat /\ back \in Nat
    /\ version \in Versions /\ held \in Infusions
    /\ supersededAt \in [Versions -> Nat]
    /\ m_haveConfig \in BOOLEAN /\ m_config \in Versions /\ m_fetchedAt \in Int
    /\ forgotten \in Versions
    /\ call \in CallType

\* Version v was the chain's gas config at time t or later.
Since(v, t) == v = version \/ supersededAt[v] >= t

\* A call that started at `start' may use v: the chain held v at `start' or
\* later, or had held it less than `age' before `start'.
Recent(v, start, age) == Since(v, start) \/ Since(v, start - age + 1)

\* A config that Config or Plan used was the chain's at most configTtlMs, plus
\* whatever the wall clock was stepped back, before the call: neither the
\* round trip of the read that filled the cache nor a forward step of the clock
\* lets a config be used longer (ChainFeePlan.h, Config).
ConfigIsRecent == call.pc = "answered" => Recent(call.config, call.start, TTL + back)

\* A call after Invalidate, and a call with refresh, answers with a config the
\* chain held after that point: a failed read in between does not bring the
\* forgotten config back (ChainFeePlan.h, Invalidate and Config).
ForgottenStaysForgotten == call.pc = "answered" => call.config >= call.floor

\* A plan for a burn whose infusions the caller did not state is priced on a
\* list the node answered during that very call, never on an earlier one and
\* never on none (ChainFeePlan.h, Plan).
InfusionsReadInCall ==
    (call.pc = "answered" /\ call.op = "plan" /\ call.msg # "plain" /\ ~call.stated)
        => call.infusions >= call.startHeld

----------------------------------------------------------------------------
(* The inductive invariant behind the properties (proved in                *)
(* ChainFeePlanner_proofs, checked here on the small instance first).      *)

\* The held config was the chain's when it was asked for: m_fetchedAt, read off
\* the wall clock, is never later than true time plus the forward steps.
HeldConfigInv ==
    m_haveConfig => /\ m_fetchedAt <= now + fwd
                    /\ Since(m_config, m_fetchedAt - fwd)
                    /\ m_config >= forgotten

HasConfig == {"reply", "infusions", "price", "answered"}
Priced    == {"price", "answered"}

\* What the locals of a call say about the chain at the call's start: when it
\* started, which config it has read or been handed, and which infusions.
CallStarted ==
    /\ call.start <= now
    /\ call.localNow <= call.start + fwd
    /\ call.floor <= version
    /\ call.startHeld <= held
    /\ call.pc \in {"request", "reply"} => forgotten <= call.floor

CallConfigured ==
    call.pc \in HasConfig => /\ call.config \in Versions
                             /\ call.config >= call.floor
                             /\ call.pc = "reply" => Since(call.config, call.start)
                             /\ Recent(call.config, call.start, TTL + back)

CallInfused ==
    (call.pc \in Priced /\ call.op = "plan" /\ call.msg # "plain" /\ ~call.stated)
        => call.infusions >= call.startHeld

PlannerInv ==
    /\ TypeOK
    /\ forgotten <= version
    /\ HeldConfigInv
    /\ CallStarted
    /\ CallConfigured
    /\ CallInfused

============================================================================
