---------------------------- MODULE Confirmation ----------------------------
(***************************************************************************)
(* Sending one transaction and waiting for its fate                        *)
(* (include/Utils/RpcUtils.h, include/Carbon/Tx.h,                         *)
(* samples/carbon-token-deployment-tool/main.cpp).                         *)
(*                                                                         *)
(* Two flows: SendTransactionWaitConfirm sends a script transaction and    *)
(* polls until the transaction's own expiration is near, and the tool      *)
(* sends a Carbon message and polls for a time of its own (WaitForTx).     *)
(* The chain executes a transaction it admitted at any time before its     *)
(* expiry, or drops it, and the polled node learns of it later; the node   *)
(* may be down for a while, and the answer to a send may be lost.  Every   *)
(* poll goes to api[0]: the loop's index never moves (RpcUtils.h:55).      *)
(*                                                                         *)
(* now is the chain's clock in ticks; the client's differs by skew.  A     *)
(* server's error has a code other than 0 and a text of its own.           *)
(***************************************************************************)
EXTENDS Integers

CONSTANTS
    Second,         \* ticks of a second
    DefaultExpiryMs, \* lifetime a builder stamps, in ticks
    ExpiryWindow,   \* the chain's window, in ticks
    Margin,         \* marginMs of ExpiryWithin, in ticks
    MaxSkew,        \* bound: the ticks between the client's clock and the chain's
    MaxTime,        \* bound: the last tick
    MaxTravel,      \* bound: the most ticks between building and sending
    UnknownMargin, PendingMargin, \* seconds before expiry WaitForConfirmation gives up
    HoldSeconds,    \* seconds SendTransactionWaitConfirm holds before it polls
    ToolTimeout     \* seconds WaitForTx polls

ASSUME TimesAssumption ==
    /\ {Second, DefaultExpiryMs, ExpiryWindow, UnknownMargin, PendingMargin} \subseteq Nat \ {0}
    /\ {Margin, MaxSkew, MaxTime, MaxTravel, HoldSeconds, ToolTimeout} \subseteq Nat
    /\ UnknownMargin <= PendingMargin
ASSUME WindowAssumption == DefaultExpiryMs < ExpiryWindow /\ Margin < ExpiryWindow

\* How far the client's clock may be ahead of the chain's.
Skews == -MaxSkew .. MaxSkew

VARIABLES
    now, skew,    \* the chain's clock, and how far ahead the client's is
    down,         \* the polled node answers nobody
    tx,           \* what the chain has made of the transaction
    executedAt,   \* history: when the chain executed it
    view,         \* what the polled node knows of it
    flow,         \* who sends: "script", with a deadline or "endless" without, or "tool"
    stamp,        \* history: which expiry the builder stamped
    builtAt,      \* history: when it did
    expiry,       \* the expiry of the transaction
    pc, sentAt,   \* where the client is, and when it sent
    answer,       \* the state the last poll answered
    returnedAt    \* history: when the client returned

time   == <<now, skew>>
chain  == <<tx, executedAt, view>>
built  == <<flow, stamp, builtAt, expiry>>
client == <<pc, sentAt, answer, returnedAt>>
vars   == <<time, down, chain, built, client>>

None == -1

\* Timestamp::Now, in whole seconds of the client's clock.
Seconds(t) == t \div Second
Now == Seconds(now + skew)

----------------------------------------------------------------------------
(* The builders.                                                           *)

\* DefaultExpiry of a Carbon message and ExpiryWithin the chain's window.
WithinNoMargin(clock) == clock + ExpiryWindow
ExpiryWithin(clock) == clock + ExpiryWindow - Margin
DefaultExpiry(clock) == clock + DefaultExpiryMs

\* A script transaction carries whole seconds.
DefaultScriptExpiration(clock) == Seconds(DefaultExpiry(clock)) * Second

Stamped(what, clock) ==
    CASE what = "script"  -> DefaultScriptExpiration(clock)
      [] what = "default" -> DefaultExpiry(clock)
      [] what = "within"  -> ExpiryWithin(clock)

Init ==
    /\ builtAt \in 0 .. Second - 1 /\ now = builtAt
    /\ skew \in Skews
    /\ flow \in {"script", "endless", "tool"}
    /\ stamp \in IF flow = "tool" THEN {"default", "within"} ELSE {"script"}
    /\ expiry = Stamped(stamp, now + skew)
    /\ down = FALSE
    /\ tx = "unsent" /\ executedAt = None /\ view = "unsent"
    /\ pc = "built" /\ sentAt = None /\ answer = "none" /\ returnedAt = None

----------------------------------------------------------------------------
(* The chain and the node.                                                 *)

Tick == /\ now < MaxTime /\ (pc = "built" => now < builtAt + MaxTravel)
        /\ now' = now + 1
        /\ UNCHANGED <<skew, down, chain, built, client>>

\* The chain refuses what has expired, and an expiry at or beyond its window.
Admission ==
    IF expiry <= now THEN "expired"
    ELSE IF expiry >= now + ExpiryWindow THEN "beyond"
    ELSE "pool"

Execute(result) ==
    /\ tx = "pool" /\ now < expiry
    /\ tx' = result /\ executedAt' = now
    /\ UNCHANGED <<time, down, view, built, client>>

Drop == /\ tx = "pool" /\ tx' = "dropped"
        /\ UNCHANGED <<time, down, executedAt, view, built, client>>

Known == {"pool", "halt", "fault"}

\* The polled node catches up with the chain.
See == /\ tx \in Known /\ view # tx /\ view' = tx
       /\ UNCHANGED <<time, down, tx, executedAt, built, client>>

GoDown == down' = ~down /\ UNCHANGED <<time, chain, built, client>>

----------------------------------------------------------------------------
(* Sending.                                                                *)

Return(what) == pc' = "done" /\ answer' = what /\ returnedAt' = now

\* SendTransaction or SignAndSendCarbonTransaction.  The script flow goes on to wait
\* whatever the send answered; the tool stops at an error.
Send(delivered, answered) ==
    /\ pc = "built" /\ (delivered => ~down)
    /\ sentAt' = now
    /\ tx' = IF delivered THEN Admission ELSE "lost"
    /\ IF flow # "tool" THEN pc' = "hold" /\ UNCHANGED <<answer, returnedAt>>
       ELSE IF delivered /\ answered /\ tx' = "pool"
       THEN pc' = "poll" /\ UNCHANGED <<answer, returnedAt>>
       ELSE Return("NotSent")
    /\ UNCHANGED <<time, down, executedAt, view, built>>

\* With one node, SendTransactionWaitConfirm holds for some seconds; with several it
\* does not.
Hold(single) ==
    /\ pc = "hold" /\ (single => Now > Seconds(sentAt + skew) + HoldSeconds)
    /\ pc' = "poll"
    /\ UNCHANGED <<time, down, chain, built, sentAt, answer, returnedAt>>

----------------------------------------------------------------------------
(* Polling.                                                                *)

\* GetTransaction: a state other than these three is "pending".
StateUnlessFault(v) ==
    IF v = "fault" THEN "Rejected" ELSE IF v = "unsent" THEN "Unknown" ELSE "Confirmed"
GetTransaction(v) ==
    CASE v = "halt"   -> "Confirmed"
      [] v = "fault"  -> "Rejected"
      [] v = "pool"   -> "Pending"
      [] v = "unsent" -> "Unknown"

\* The error object every poll begins with: one of its own.
ErrorKept == answer
Error == "none"

\* CheckConfirmation: an error the caller left in the object stays there.
CheckConfirmation(error) ==
    IF error \notin {"none", "Confirmed"} THEN error
    ELSE IF down THEN "Unknown"
    ELSE GetTransaction(view)

StartPoll ==
    /\ pc = "poll"
    /\ flow = "tool" => now - sentAt < ToolTimeout * Second
    /\ pc' = "asked" /\ answer' = CheckConfirmation(Error)
    /\ UNCHANGED <<time, down, chain, built, sentAt, returnedAt>>

GiveUpMargin(state) == IF state = "Unknown" THEN UnknownMargin ELSE PendingMargin

\* WaitForConfirmation asks the clock after it asked the node.
NearIfUnknown(state) == state = "Unknown" /\ Now + UnknownMargin > Seconds(expiry)
NearEarly(state) == Now + GiveUpMargin(state) >= Seconds(expiry)
Near(state) == Now + GiveUpMargin(state) > Seconds(expiry)

Final == {"Confirmed", "Rejected"}

Settled == /\ pc = "asked" /\ answer \in Final /\ Return(answer)
           /\ UNCHANGED <<time, down, chain, built, sentAt>>

GiveUp == /\ pc = "asked" /\ answer \notin Final
          /\ flow = "script" /\ Near(answer)
          /\ Return(answer)
          /\ UNCHANGED <<time, down, chain, built, sentAt>>

\* fnSleep, or the tool's sleep of two seconds, takes as long as it takes.
Sleep == /\ pc = "asked" /\ answer \notin Final
         /\ ~(flow = "script" /\ Near(answer))
         /\ pc' = "poll"
         /\ UNCHANGED <<time, down, chain, built, sentAt, answer, returnedAt>>

\* WaitForTx answers false when its own time has passed.
TimesOut == /\ pc = "poll" /\ flow = "tool" /\ now - sentAt >= ToolTimeout * Second
            /\ Return("TimedOut")
            /\ UNCHANGED <<time, down, chain, built, sentAt>>

----------------------------------------------------------------------------
Client ==
    \/ \E delivered, answered \in BOOLEAN : Send(delivered, answered)
    \/ \E single \in BOOLEAN : Hold(single)
    \/ StartPoll \/ Settled \/ GiveUp \/ Sleep \/ TimesOut

Next ==
    \/ Client \/ Tick \/ See \/ Drop \/ GoDown
    \/ \E result \in {"halt", "fault"} : Execute(result)

\* The client runs, time passes, and the node catches up with its chain.
Spec == Init /\ [][Next]_vars /\ WF_vars(Client) /\ WF_vars(Tick) /\ WF_vars(See)

----------------------------------------------------------------------------
(* Properties.                                                             *)

\* Both clocks, the chain's record, the transaction and the client's locals have
\* their types.
TypeOK ==
    /\ now \in Nat /\ skew \in Skews /\ down \in BOOLEAN
    /\ tx \in Known \union {"unsent", "lost", "expired", "beyond", "dropped"}
    /\ view \in Known \union {"unsent"}
    /\ executedAt \in Nat \union {None}
    /\ flow \in {"script", "endless", "tool"} /\ stamp \in {"script", "default", "within"}
    /\ flow = "tool" <=> stamp # "script"
    /\ builtAt \in Nat /\ builtAt <= now /\ expiry \in Int
    /\ expiry = Stamped(stamp, builtAt + skew)
    /\ pc \in {"built", "hold", "poll", "asked", "done"}
    /\ sentAt \in Nat \union {None} /\ returnedAt \in Nat \union {None}
    /\ answer \in Final \union {"none", "Pending", "Unknown", "NotSent", "TimedOut"}

\* A final answer is the chain's, whatever the node missed or lost: Confirmed only of
\* a transaction that halted, Rejected only of one that faulted (RpcUtils.h,
\* CheckConfirmation; PhantasmaAPI.h, GetTransaction).
FinalIsTheChains ==
    pc = "done" =>
        /\ answer = "Confirmed" => tx = "halt"
        /\ answer = "Rejected"  => tx = "fault"

\* How long after an undecided answer the transaction may still execute.
Surprise ==
    CASE answer = "Unknown"  -> (UnknownMargin - 1) * Second + skew
      [] answer = "Pending"  -> (PendingMargin - 1) * Second + skew
      [] answer = "TimedOut" ->
           (IF stamp = "default" THEN DefaultExpiryMs ELSE ExpiryWindow - Margin)
             - ToolTimeout * Second + skew

\* What executes after the client gave up does so within the seconds it gave up early
\* (WaitForConfirmation), or within what the message's lifetime has beyond the tool's
\* timeout (WaitForTx), corrected by the skew of the clocks.
LateIsSoon ==
    (pc = "done" /\ answer \in {"Unknown", "Pending", "TimedOut"} /\ executedAt > returnedAt)
        => executedAt - returnedAt < Surprise

\* A chain that refuses the stamped expiry is behind the client's clock by no less
\* than the headroom, or has waited longer than the lifetime, but for the second a
\* script transaction rounds off (Tx.h, DefaultExpiryMs and ExpiryWithin).
RefusedHasACause ==
    /\ tx = "beyond" => skew >= (IF stamp = "within" THEN Margin
                                 ELSE ExpiryWindow - DefaultExpiryMs)
    /\ tx = "expired" =>
         now - builtAt > skew - Second
           + (IF stamp = "within" THEN ExpiryWindow - Margin ELSE DefaultExpiryMs)

----------------------------------------------------------------------------
(* The inductive invariant.                                                *)

\* What the node knows of an execution is so, and so is what the last poll answered.
ViewIsPast == view \in {"halt", "fault"} => tx = view
AnswerIsPast ==
    /\ pc = "asked" => answer \in Final \union {"Pending", "Unknown"}
    /\ answer = "Confirmed" => tx = "halt"
    /\ answer = "Rejected" => tx = "fault"

\* Who has not sent has no answer and the chain has no transaction; an execution is in
\* time, and the chain records when.
TimesAgree ==
    /\ pc = "built" <=> sentAt = None
    /\ pc = "built" <=> tx = "unsent"
    /\ pc = "done" <=> returnedAt # None
    /\ sentAt # None => builtAt <= sentAt /\ sentAt <= now
    /\ returnedAt # None => returnedAt <= now
    /\ tx \in {"halt", "fault"} <=> executedAt # None
    /\ executedAt # None => executedAt < expiry /\ executedAt <= now

\* Who gave up did so when its own rule said so.
GaveUpInTime ==
    pc = "done" =>
        /\ answer \in {"Unknown", "Pending"} =>
             /\ flow = "script"
             /\ Seconds(returnedAt + skew) + GiveUpMargin(answer) > Seconds(expiry)
        /\ answer = "TimedOut" => flow = "tool" /\ returnedAt - sentAt >= ToolTimeout * Second

\* The state keeps its types, the node and the answers never run ahead of the chain,
\* and the recorded times are in order.
ConfirmationInv ==
    TypeOK /\ ViewIsPast /\ AnswerIsPast /\ TimesAgree /\ GaveUpInTime

----------------------------------------------------------------------------
\* A wait that has a deadline returns (WaitForConfirmation with an expiry, WaitForTx).
WaitEnds == flow # "endless" => <>(pc = "done")

\* A wait with no deadline returns the fate of a transaction that executed, once its
\* node stays up (WaitForConfirmation).
EndlessDecides ==
    <>[]~down => (flow = "endless" /\ tx \in {"halt", "fault"} ~> pc = "done")

============================================================================
