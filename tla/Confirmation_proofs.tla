------------------------ MODULE Confirmation_proofs ------------------------
(***************************************************************************)
(* What the client concludes about its transaction, for every lifetime,    *)
(* window, margin, timeout and skew of the clocks.                         *)
(***************************************************************************)
EXTENDS Confirmation, TLAPS

----------------------------------------------------------------------------
(* Whole seconds.                                                          *)

LEMMA SecondsBound ==
    ASSUME NEW t \in Int
    PROVE  /\ Seconds(t) \in Int
           /\ Seconds(t) * Second <= t
           /\ t < Seconds(t) * Second + Second
<1>0. Second \in Nat \ {0}
  BY TimesAssumption
<1>1. (t \div Second) \in Int
  BY <1>0
<1>2. (t \div Second) * Second <= t
  BY <1>0
<1>3. t < (t \div Second) * Second + Second
  BY <1>0
<1> QED
  BY <1>1, <1>2, <1>3 DEF Seconds

LEMMA StampBound ==
    ASSUME NEW what \in {"script", "default", "within"}, NEW clock \in Int
    PROVE  /\ Stamped(what, clock) \in Int
           /\ what = "within"  => Stamped(what, clock) = clock + ExpiryWindow - Margin
           /\ what = "default" => Stamped(what, clock) = clock + DefaultExpiryMs
           /\ what = "script"  => /\ Stamped(what, clock) <= clock + DefaultExpiryMs
                                  /\ Stamped(what, clock) > clock + DefaultExpiryMs - Second
                                  /\ \E q \in Int : Stamped(what, clock) = q * Second
<1>1. DefaultExpiryMs \in Nat /\ ExpiryWindow \in Nat /\ Margin \in Nat /\ Second \in Nat
  BY TimesAssumption
<1>2. CASE what = "within"
  BY <1>1, <1>2 DEF Stamped, ExpiryWithin
<1>3. CASE what = "default"
  BY <1>1, <1>3 DEF Stamped, DefaultExpiry
<1>4. CASE what = "script"
  <2> DEFINE c == clock + DefaultExpiryMs
             q == Seconds(c)
  <2>1. c \in Int
    BY <1>1
  <2>2. q \in Int /\ q * Second <= c /\ c < q * Second + Second
    BY <2>1, SecondsBound
  <2>3. Stamped(what, clock) = q * Second
    BY <1>4 DEF Stamped, DefaultScriptExpiration, DefaultExpiry
  <2> HIDE DEF q
  <2>4. q * Second \in Int
    BY <1>1, <2>2
  <2>5. q * Second > c - Second
    BY <1>1, <2>1, <2>2, <2>4
  <2>6. \E r \in Int : Stamped(what, clock) = r * Second
    BY <2>2, <2>3
  <2>7. /\ Stamped(what, clock) \in Int /\ Stamped(what, clock) <= clock + DefaultExpiryMs
        /\ Stamped(what, clock) > clock + DefaultExpiryMs - Second
    BY <1>1, <2>1, <2>2, <2>3, <2>4, <2>5
  <2>8. what # "within" /\ what # "default"
    BY <1>4
  <2> HIDE DEF c
  <2> QED
    BY <2>6, <2>7, <2>8
<1> QED
  BY <1>2, <1>3, <1>4

\* A script transaction's expiry is a whole number of seconds.
LEMMA ScriptSeconds ==
    ASSUME NEW clock \in Int
    PROVE  Seconds(Stamped("script", clock)) * Second = Stamped("script", clock)
<1>1. PICK q \in Int : Stamped("script", clock) = q * Second
  BY StampBound
<1> DEFINE r == Seconds(q * Second)
<1>0. Second \in Nat \ {0}
  BY TimesAssumption
<1>2. q * Second \in Int
  BY <1>0
<1>3. r \in Int /\ r * Second <= q * Second /\ q * Second < r * Second + Second
  BY <1>2, SecondsBound
<1> HIDE DEF r
<1>4. r <= q
  BY <1>0, <1>3
<1>5. q < r + 1
  BY <1>0, <1>3
<1>6. r = q
  BY <1>3, <1>4, <1>5
<1> QED
  BY <1>1, <1>6 DEF r

----------------------------------------------------------------------------
(* The inductive invariant.                                                *)

LEMMA Numbers ==
    /\ Second \in Nat \ {0} /\ DefaultExpiryMs \in Nat /\ ExpiryWindow \in Nat /\ Margin \in Nat
    /\ UnknownMargin \in Nat /\ PendingMargin \in Nat /\ ToolTimeout \in Nat
    /\ Skews \subseteq Int
  BY TimesAssumption DEF Skews

LEMMA ConfirmationInit == Init => ConfirmationInv
<1> SUFFICES ASSUME Init PROVE ConfirmationInv
  OBVIOUS
<1>1. builtAt \in Nat /\ now = builtAt /\ skew \in Skews
  BY Numbers DEF Init
<1>2. stamp \in {"script", "default", "within"} /\ (flow = "tool" <=> stamp # "script")
  BY DEF Init
<1>3. expiry = Stamped(stamp, builtAt + skew)
  BY <1>1 DEF Init
<1>4. expiry \in Int
  <2>1. builtAt + skew \in Int
    BY <1>1, Numbers
  <2> QED
    BY <1>2, <1>3, <2>1, StampBound
<1>5. TypeOK
  <2>1. flow \in {"script", "endless", "tool"} /\ tx = "unsent"
        /\ view = "unsent" /\ executedAt = None /\ pc = "built" /\ sentAt = None
        /\ answer = "none" /\ returnedAt = None
    BY DEF Init
  <2>2. down \in BOOLEAN
    BY DEF Init
  <2>3. builtAt <= now /\ now \in Nat
    BY <1>1
  <2> QED
    BY <1>1, <1>2, <1>3, <1>4, <2>1, <2>2, <2>3 DEF TypeOK
<1>6. ViewIsPast /\ AnswerIsPast /\ GaveUpInTime
  BY DEF Init, ViewIsPast, AnswerIsPast, GaveUpInTime
<1>7. TimesAgree
  BY DEF Init, TimesAgree, None
<1> QED
  BY <1>5, <1>6, <1>7 DEF ConfirmationInv

LEMMA TickKeeps == ConfirmationInv /\ Tick => ConfirmationInv'
<1> SUFFICES ASSUME ConfirmationInv, Tick PROVE ConfirmationInv'
  OBVIOUS
<1> USE DEF Tick, chain, built, client
<1> TypeOK /\ ViewIsPast /\ AnswerIsPast /\ TimesAgree /\ GaveUpInTime
  BY DEF ConfirmationInv
<1>1. now' \in Nat /\ builtAt <= now' /\ now <= now'
  BY DEF TypeOK
<1>2. TypeOK'
  BY <1>1 DEF TypeOK, Stamped, Known, Final, DefaultScriptExpiration, DefaultExpiry,
             ExpiryWithin, Seconds
<1>3. TimesAgree'
  BY <1>1 DEF TimesAgree, TypeOK, None
<1>4. (ViewIsPast /\ AnswerIsPast)'
  BY DEF ViewIsPast, AnswerIsPast
<1>5. GaveUpInTime'
  BY DEF GaveUpInTime, GiveUpMargin, Seconds
<1> QED
  BY <1>2, <1>3, <1>4, <1>5 DEF ConfirmationInv

LEMMA ChainKeeps ==
    ASSUME ConfirmationInv,
           \/ See \/ Drop \/ GoDown
           \/ \E result \in {"halt", "fault"} : Execute(result)
    PROVE  ConfirmationInv'
<1> TypeOK /\ ViewIsPast /\ AnswerIsPast /\ TimesAgree /\ GaveUpInTime
  BY DEF ConfirmationInv
<1>1. UNCHANGED <<now, skew, flow, stamp, builtAt, expiry, pc, sentAt, answer, returnedAt>>
  BY DEF See, Drop, GoDown, Execute, time, built, client
<1>2. GaveUpInTime'
  BY <1>1 DEF GaveUpInTime, GiveUpMargin, Seconds
<1>3. (expiry \in Int /\ expiry = Stamped(stamp, builtAt + skew))'
  BY <1>1 DEF TypeOK, Stamped, DefaultScriptExpiration, DefaultExpiry, ExpiryWithin, Seconds
<1>4. ASSUME NEW result \in {"halt", "fault"}, Execute(result) PROVE ConfirmationInv'
  <2> USE <1>4 DEF Execute
  <2>1. TypeOK'
    BY <1>1, <1>3 DEF TypeOK, Known
  <2>2. (ViewIsPast /\ AnswerIsPast)'
    BY <1>1 DEF ViewIsPast, AnswerIsPast
  <2>3. TimesAgree'
    BY <1>1 DEF TimesAgree, TypeOK, None
  <2> QED
    BY <1>2, <2>1, <2>2, <2>3 DEF ConfirmationInv
<1>5. CASE Drop
  <2> USE <1>5 DEF Drop
  <2>1. TypeOK'
    BY <1>1, <1>3 DEF TypeOK, Known
  <2>2. (ViewIsPast /\ AnswerIsPast)'
    BY <1>1 DEF ViewIsPast, AnswerIsPast
  <2>3. TimesAgree'
    BY <1>1 DEF TimesAgree, TypeOK, None
  <2> QED
    BY <1>2, <2>1, <2>2, <2>3 DEF ConfirmationInv
<1>6. CASE See
  <2> USE <1>6 DEF See
  <2>1. TypeOK'
    BY <1>1, <1>3 DEF TypeOK, Known
  <2>2. (ViewIsPast /\ AnswerIsPast)'
    BY <1>1 DEF ViewIsPast, AnswerIsPast
  <2>3. TimesAgree'
    BY <1>1 DEF TimesAgree
  <2> QED
    BY <1>2, <2>1, <2>2, <2>3 DEF ConfirmationInv
<1>7. CASE GoDown
  <2> USE <1>7 DEF GoDown, chain
  <2>1. TypeOK'
    BY <1>1, <1>3 DEF TypeOK
  <2>2. (ViewIsPast /\ AnswerIsPast /\ TimesAgree)'
    BY <1>1 DEF ViewIsPast, AnswerIsPast, TimesAgree
  <2> QED
    BY <1>2, <2>1, <2>2 DEF ConfirmationInv
<1> QED
  BY <1>4, <1>5, <1>6, <1>7

\* What the poll answers is what the node knows, and that is past.
LEMMA PollIsPast ==
    ASSUME ConfirmationInv
    PROVE  /\ CheckConfirmation(Error) \in Final \union {"Pending", "Unknown"}
           /\ CheckConfirmation(Error) = "Confirmed" => tx = "halt"
           /\ CheckConfirmation(Error) = "Rejected" => tx = "fault"
  BY DEF ConfirmationInv, TypeOK, ViewIsPast, CheckConfirmation, Error, GetTransaction, Known, Final

LEMMA ClientKeeps == ConfirmationInv /\ Client => ConfirmationInv'
<1> SUFFICES ASSUME ConfirmationInv, Client PROVE ConfirmationInv'
  OBVIOUS
<1> TypeOK /\ ViewIsPast /\ AnswerIsPast /\ TimesAgree /\ GaveUpInTime
  BY DEF ConfirmationInv
<1>1. UNCHANGED <<now, skew, down, executedAt, view, flow, stamp, builtAt, expiry>>
  BY DEF Client, Send, Hold, StartPoll, Settled, GiveUp, Sleep, TimesOut, time, chain, built
<1>2. (expiry \in Int /\ expiry = Stamped(stamp, builtAt + skew))'
  BY <1>1 DEF TypeOK, Stamped, DefaultScriptExpiration, DefaultExpiry, ExpiryWithin, Seconds
<1>3. ASSUME NEW delivered \in BOOLEAN, NEW answered \in BOOLEAN, Send(delivered, answered)
      PROVE  ConfirmationInv'
  <2>1. /\ pc = "built" /\ tx = "unsent" /\ sentAt = None /\ returnedAt = None
        /\ executedAt = None /\ view \notin {"halt", "fault"}
    BY <1>3 DEF Send, TimesAgree, ViewIsPast
  <2>2. sentAt' = now /\ tx' \in {"lost", "expired", "beyond", "pool"}
    BY <1>3 DEF Send, Admission
  <2>3. \/ pc' \in {"hold", "poll"} /\ answer' = answer /\ returnedAt' = returnedAt
        \/ pc' = "done" /\ answer' = "NotSent" /\ returnedAt' = now
    BY <1>3 DEF Send, Return
  <2>4. answer \notin {"Confirmed", "Rejected"}
    BY <2>1 DEF AnswerIsPast
  <2>5. TypeOK'
    BY <1>1, <1>2, <2>2, <2>3 DEF TypeOK, Known, Final
  <2>6. (ViewIsPast /\ AnswerIsPast)'
    BY <1>1, <2>1, <2>3, <2>4 DEF ViewIsPast, AnswerIsPast
  <2>7. TimesAgree'
    BY <1>1, <2>1, <2>2, <2>3 DEF TimesAgree, TypeOK, None
  <2>8. GaveUpInTime'
    BY <2>1, <2>3 DEF GaveUpInTime
  <2> QED
    BY <2>5, <2>6, <2>7, <2>8 DEF ConfirmationInv
<1>4. CASE (\E single \in BOOLEAN : Hold(single)) \/ Sleep
  <2>1. /\ pc \in {"hold", "asked"} /\ pc' = "poll"
        /\ UNCHANGED <<tx, sentAt, answer, returnedAt>>
    BY <1>4 DEF Hold, Sleep, chain
  <2>2. TypeOK'
    BY <1>1, <1>2, <2>1 DEF TypeOK
  <2>3. (ViewIsPast /\ AnswerIsPast /\ TimesAgree /\ GaveUpInTime)'
    BY <1>1, <2>1 DEF ViewIsPast, AnswerIsPast, TimesAgree, GaveUpInTime
  <2> QED
    BY <2>2, <2>3 DEF ConfirmationInv
<1>5. CASE StartPoll
  <2>1. /\ pc = "poll" /\ pc' = "asked" /\ answer' = CheckConfirmation(Error)
        /\ UNCHANGED <<tx, sentAt, returnedAt>>
    BY <1>5 DEF StartPoll, chain
  <2>2. TypeOK'
    BY <1>1, <1>2, <2>1, PollIsPast DEF TypeOK
  <2>3. AnswerIsPast'
    BY <2>1, PollIsPast DEF AnswerIsPast
  <2>4. (ViewIsPast /\ TimesAgree /\ GaveUpInTime)'
    BY <1>1, <2>1 DEF ViewIsPast, TimesAgree, GaveUpInTime
  <2> QED
    BY <2>2, <2>3, <2>4 DEF ConfirmationInv
<1>6. ASSUME NEW what \in Final \union {"Pending", "Unknown", "TimedOut"},
             pc # "done", pc # "built", Return(what), UNCHANGED <<tx, sentAt>>,
             what = "Confirmed" => tx = "halt",
             what = "Rejected" => tx = "fault",
             what \in {"Unknown", "Pending"} =>
               flow = "script" /\ Seconds(now + skew) + GiveUpMargin(what) > Seconds(expiry),
             what = "TimedOut" => flow = "tool" /\ now - sentAt >= ToolTimeout * Second
      PROVE  ConfirmationInv'
  <2>1. pc' = "done" /\ answer' = what /\ returnedAt' = now
    BY <1>6 DEF Return
  <2>2. TypeOK'
    BY <1>1, <1>2, <1>6, <2>1 DEF TypeOK
  <2>3. (ViewIsPast /\ AnswerIsPast)'
    BY <1>1, <1>6, <2>1 DEF ViewIsPast, AnswerIsPast
  <2>4. TimesAgree'
    BY <1>1, <1>6, <2>1 DEF TimesAgree, TypeOK, None
  <2>5. GaveUpInTime'
    BY <1>1, <1>6, <2>1 DEF GaveUpInTime, GiveUpMargin, Seconds
  <2> QED
    BY <2>2, <2>3, <2>4, <2>5 DEF ConfirmationInv
<1>7. CASE Settled
  <2>1. answer \in Final /\ pc = "asked" /\ Return(answer) /\ UNCHANGED <<tx, sentAt>>
    BY <1>7 DEF Settled, chain
  <2>2. answer \notin {"Pending", "Unknown", "TimedOut"}
    BY <2>1 DEF Final
  <2> QED
    BY <1>6, <2>1, <2>2 DEF AnswerIsPast
<1>8. CASE GiveUp
  <2>1. /\ pc = "asked" /\ answer \notin Final /\ Return(answer) /\ UNCHANGED <<tx, sentAt>>
        /\ flow = "script" /\ Seconds(now + skew) + GiveUpMargin(answer) > Seconds(expiry)
    BY <1>8 DEF GiveUp, Near, Now, chain
  <2>2. answer \in {"Pending", "Unknown"}
    BY <2>1 DEF AnswerIsPast
  <2> QED
    BY <1>6, <2>1, <2>2
<1>9. CASE TimesOut
  <2>1. /\ pc = "poll" /\ flow = "tool" /\ now - sentAt >= ToolTimeout * Second
        /\ Return("TimedOut") /\ UNCHANGED <<tx, sentAt>>
    BY <1>9 DEF TimesOut, chain
  <2> QED
    BY <1>6, <2>1
<1> QED
  BY <1>3, <1>4, <1>5, <1>7, <1>8, <1>9 DEF Client

LEMMA ConfirmationStep == ConfirmationInv /\ [Next]_vars => ConfirmationInv'
<1> SUFFICES ASSUME ConfirmationInv, [Next]_vars PROVE ConfirmationInv'
  OBVIOUS
<1>1. CASE UNCHANGED vars
  BY <1>1 DEF vars, time, chain, built, client, ConfirmationInv, TypeOK, ViewIsPast,
             AnswerIsPast, TimesAgree, GaveUpInTime, GiveUpMargin, Seconds, Stamped,
             DefaultScriptExpiration, DefaultExpiry, ExpiryWithin
<1> QED
  BY <1>1, TickKeeps, ChainKeeps, ClientKeeps DEF Next

\* The inductive invariant: types, what the node and the polls know, and the order
\* of the recorded times (RpcUtils.h).
THEOREM ConfirmationInvariant == Spec => []ConfirmationInv
  BY ConfirmationInit, ConfirmationStep, PTL DEF Spec

\* A final answer is the chain's, for every node, clock and timeout
\* (RpcUtils.h, CheckConfirmation).
THEOREM FinalAnswers == Spec => []FinalIsTheChains
<1>1. ConfirmationInv => FinalIsTheChains
  BY DEF ConfirmationInv, AnswerIsPast, FinalIsTheChains
<1> QED
  BY <1>1, ConfirmationInvariant, PTL

----------------------------------------------------------------------------
(* How long after an undecided answer the transaction may still execute.   *)

\* If q whole seconds and m more pass the second of clock, then clock is within m - 1
\* seconds of q.
LEMMA WholeSeconds ==
    ASSUME NEW clock \in Int, NEW q \in Int, NEW m \in Nat, Seconds(clock) + m > q
    PROVE  q * Second - clock <= (m - 1) * Second
<1> DEFINE r == Seconds(clock)
           d == r + m - q - 1
<1>0. Second \in Nat \ {0}
  BY Numbers
<1>1. r \in Int /\ r * Second <= clock
  BY SecondsBound
<1> HIDE DEF r
<1>2. d \in Nat
  BY <1>1 DEF r
<1>3. d * Second \in Nat
  BY <1>0, <1>2
<1>4. d * Second = r * Second + (m - 1) * Second - q * Second
  BY <1>0, <1>1
<1>5. r * Second \in Int /\ q * Second \in Int /\ (m - 1) * Second \in Int
  BY <1>0, <1>1
<1> QED
  BY <1>1, <1>3, <1>4, <1>5

LEMMA LateIsSoonStep == ConfirmationInv => LateIsSoon
<1> SUFFICES ASSUME ConfirmationInv, pc = "done", answer \in {"Unknown", "Pending", "TimedOut"},
                    executedAt > returnedAt
             PROVE  executedAt - returnedAt < Surprise
  BY DEF LateIsSoon
<1> TypeOK /\ TimesAgree /\ GaveUpInTime
  BY DEF ConfirmationInv
<1>1. returnedAt \in Nat /\ skew \in Int /\ builtAt \in Nat /\ expiry \in Int
  BY Numbers DEF TypeOK, TimesAgree
<1>2. executedAt \in Nat /\ executedAt < expiry
  <2>1. executedAt # None
    BY <1>1 DEF TypeOK, None
  <2> QED
    BY <2>1 DEF TypeOK, TimesAgree
<1>3. expiry = Stamped(stamp, builtAt + skew) /\ stamp \in {"script", "default", "within"}
  BY DEF TypeOK
<1>4. CASE answer \in {"Unknown", "Pending"}
  <2> DEFINE m == GiveUpMargin(answer)
  <2>1. m \in Nat
    BY Numbers DEF GiveUpMargin
  <2>2. Seconds(returnedAt + skew) + m > Seconds(expiry) /\ flow = "script"
    BY <1>4 DEF GaveUpInTime
  <2>3. stamp = "script"
    BY <2>2 DEF TypeOK
  <2>4. Seconds(expiry) * Second = expiry
    BY <1>1, <1>3, <2>3, ScriptSeconds
  <2>5. Seconds(expiry) \in Int
    BY <1>1, SecondsBound
  <2>6. expiry - (returnedAt + skew) <= (m - 1) * Second
    BY <1>1, <2>1, <2>2, <2>4, <2>5, WholeSeconds
  <2>7. Surprise = (m - 1) * Second + skew
    BY <1>4 DEF Surprise, GiveUpMargin
  <2>8. (m - 1) * Second \in Int
    BY <2>1, Numbers
  <2> HIDE DEF m
  <2> QED
    BY <1>1, <1>2, <2>6, <2>7, <2>8
<1>5. CASE answer = "TimedOut"
  <2>1. flow = "tool" /\ returnedAt - sentAt >= ToolTimeout * Second
    BY <1>5 DEF GaveUpInTime
  <2>2. sentAt \in Nat /\ builtAt <= sentAt
    BY DEF TypeOK, TimesAgree, None
  <2>3. stamp \in {"default", "within"}
    BY <2>1 DEF TypeOK
  <2> DEFINE l == IF stamp = "default" THEN DefaultExpiryMs ELSE ExpiryWindow - Margin
  <2>4. l \in Int /\ expiry = builtAt + skew + l
    <3>1. builtAt + skew \in Int
      BY <1>1
    <3>2. /\ stamp = "within"  => expiry = builtAt + skew + ExpiryWindow - Margin
          /\ stamp = "default" => expiry = builtAt + skew + DefaultExpiryMs
      BY <1>3, <3>1, StampBound
    <3> QED
      BY <1>1, <2>3, <3>2, Numbers
  <2>5. Surprise = l - ToolTimeout * Second + skew
    BY <1>5 DEF Surprise
  <2>6. ToolTimeout * Second \in Int
    BY Numbers
  <2> HIDE DEF l
  <2> QED
    BY <1>1, <1>2, <2>1, <2>2, <2>4, <2>5, <2>6
<1> QED
  BY <1>4, <1>5

\* What executes after an undecided answer does so within the margin of the wait, for
\* every lifetime, margin, timeout and skew (RpcUtils.h, WaitForConfirmation; main.cpp,
\* WaitForTx).
THEOREM LateExecutions == Spec => []LateIsSoon
  BY LateIsSoonStep, ConfirmationInvariant, PTL

----------------------------------------------------------------------------
(* Why the chain refuses an expiry.                                        *)

LEMMA RefusedInit == Init => RefusedHasACause
  BY DEF Init, RefusedHasACause

LEMMA LaterIsLonger ==
    ASSUME NEW m \in Nat, NEW n \in Nat, NEW b \in Nat, NEW w \in Int, m <= n, m - b > w
    PROVE  n - b > w
  OBVIOUS

LEMMA RefusedStep ==
    ConfirmationInv /\ RefusedHasACause /\ [Next]_vars => RefusedHasACause'
<1> SUFFICES ASSUME ConfirmationInv, RefusedHasACause, [Next]_vars PROVE RefusedHasACause'
  OBVIOUS
<1> TypeOK
  BY DEF ConfirmationInv
<1>1. now \in Nat /\ builtAt \in Nat /\ builtAt <= now /\ skew \in Int
  BY Numbers DEF TypeOK
<1>2. UNCHANGED <<skew, stamp, builtAt>> /\ now' \in Nat /\ now <= now'
  BY <1>1 DEF Next, Tick, See, Drop, GoDown, Execute, Client, Send, Hold, StartPoll, Settled,
             GiveUp, Sleep, TimesOut, vars, time, chain, built, client
<1>3. CASE \E delivered, answered \in BOOLEAN : Send(delivered, answered)
  <2>1. now' = now /\ (tx' = "beyond" => expiry >= now + ExpiryWindow)
        /\ (tx' = "expired" => expiry <= now)
    BY <1>3 DEF Send, Admission, time
  <2>2. /\ expiry \in Int
        /\ stamp = "within"  => expiry = builtAt + skew + ExpiryWindow - Margin
        /\ stamp = "default" => expiry = builtAt + skew + DefaultExpiryMs
        /\ stamp = "script"  => /\ expiry <= builtAt + skew + DefaultExpiryMs
                                /\ expiry > builtAt + skew + DefaultExpiryMs - Second
    BY <1>1, StampBound DEF TypeOK
  <2>3. stamp \in {"script", "default", "within"}
    BY DEF TypeOK
  <2> QED
    BY <1>1, <1>2, <2>1, <2>2, <2>3, Numbers DEF RefusedHasACause
<1>4. CASE ~(\E delivered, answered \in BOOLEAN : Send(delivered, answered))
  <2>1. (tx' = "beyond" => tx = "beyond") /\ (tx' = "expired" => tx = "expired")
    BY <1>4 DEF Next, Tick, See, Drop, GoDown, Execute, Client, Hold, StartPoll, Settled,
               GiveUp, Sleep, TimesOut, vars, chain, Known
  <2>2. tx' = "beyond" => RefusedHasACause'
    BY <1>2, <2>1 DEF RefusedHasACause
  <2>3. PICK wait \in Int : wait = skew - Second
                + (IF stamp = "within" THEN ExpiryWindow - Margin ELSE DefaultExpiryMs)
    BY <1>1, Numbers
  <2>4. tx = "expired" => now - builtAt > wait
    BY <2>3 DEF RefusedHasACause
  <2>5. now' \in Nat /\ now <= now'
    BY <1>2
  <2>6. now - builtAt > wait => now' - builtAt > wait
    BY <1>1, <2>5, LaterIsLonger
  <2> QED
    BY <1>2, <2>1, <2>2, <2>3, <2>4, <2>6 DEF RefusedHasACause
<1> QED
  BY <1>3, <1>4

\* A refused expiry has one of two causes, for every window, margin and lifetime
\* (Tx.h, DefaultExpiryMs and ExpiryWithin).
THEOREM RefusalsHaveACause == Spec => []RefusedHasACause
  BY RefusedInit, RefusedStep, ConfirmationInvariant, PTL DEF Spec

----------------------------------------------------------------------------
(* Why a wait with a deadline ends: once the deadline is past the client   *)
(* has few steps left.  What is left for TLC (property WaitEnds) is that   *)
(* time passes and the client runs.                                        *)

\* The transaction has expired on the client's clock, or the tool's time is over.
Overdue ==
    \/ flow = "script" /\ now + skew >= expiry
    \/ flow = "tool" /\ sentAt # None /\ now - sentAt >= ToolTimeout * Second

\* The most steps of an overdue client: send, hold, poll, return; the tool reads its
\* clock before the poll and may have to sleep once more.
StepsLeft ==
    CASE pc = "built" -> 4
      [] pc = "hold"  -> 3
      [] pc = "poll"  -> IF flow = "tool" THEN 1 ELSE 2
      [] pc = "asked" -> IF flow = "tool" THEN 2 ELSE 1
      [] pc = "done"  -> 0

HurriesOn ==
    Overdue => Overdue' /\ StepsLeft' <= StepsLeft /\ (Client => StepsLeft' < StepsLeft)

LEMMA StepsAreFew == ASSUME TypeOK PROVE StepsLeft \in 0 .. 4
  BY DEF TypeOK, StepsLeft

\* An expired transaction is near its expiry, whatever the last poll answered.
LEMMA ExpiredIsNear ==
    ASSUME ConfirmationInv, now + skew >= expiry, NEW state
    PROVE  Near(state)
<1>1. now + skew \in Int /\ expiry \in Int
  BY Numbers DEF ConfirmationInv, TypeOK
<1>2. Seconds(now + skew) \in Int /\ Seconds(expiry) \in Int /\ Seconds(expiry) <= Seconds(now + skew)
  <2> DEFINE s == Seconds(now + skew)  e == Seconds(expiry)
  <2>1. s \in Int /\ now + skew < s * Second + Second
    BY <1>1, SecondsBound
  <2>2. e \in Int /\ e * Second <= expiry
    BY <1>1, SecondsBound
  <2> HIDE DEF s, e
  <2>3. SUFFICES ASSUME s + 1 <= e PROVE FALSE
    BY <2>1, <2>2 DEF s, e
  <2>4. Second \in Nat \ {0} /\ s * Second \in Int /\ e * Second \in Int
    BY <2>1, <2>2, Numbers
  <2>5. s * Second + Second <= e * Second
    <3>1. PICK d \in Nat : e = s + 1 + d
      BY <2>1, <2>2, <2>3
    <3>2. e * Second = s * Second + Second + d * Second /\ d * Second \in Nat
      BY <2>1, <2>4, <3>1
    <3> QED
      BY <2>4, <3>2
  <2> QED
    BY <1>1, <2>1, <2>2, <2>4, <2>5
<1>3. GiveUpMargin(state) \in Nat /\ GiveUpMargin(state) > 0
  BY TimesAssumption DEF GiveUpMargin
<1> QED
  BY <1>2, <1>3 DEF Near, Now

\* Time, the chain and the client leave an overdue client overdue.
LEMMA OverdueStays == ASSUME ConfirmationInv, [Next]_vars, Overdue PROVE Overdue'
<1>1. now \in Nat /\ skew \in Int /\ expiry \in Int /\ sentAt \in Nat \cup {None}
      /\ ToolTimeout * Second \in Nat
  BY Numbers DEF ConfirmationInv, TypeOK
<1>2. UNCHANGED <<skew, flow, expiry>> /\ (now' = now \/ now' = now + 1)
  BY DEF Next, Client, Tick, See, Drop, GoDown, Execute, Send, Hold, StartPoll, Settled,
         GiveUp, Sleep, TimesOut, vars, time, chain, built, client
<1>3. sentAt # None => sentAt' = sentAt
  <2>1. pc = "built" => sentAt = None
    BY DEF ConfirmationInv, TimesAgree
  <2> QED
    BY <2>1 DEF Next, Client, Tick, See, Drop, GoDown, Execute, Send, Hold, StartPoll, Settled,
         GiveUp, Sleep, TimesOut, vars, time, chain, built, client
<1>4. CASE flow = "script" /\ now + skew >= expiry
  BY <1>1, <1>2, <1>4 DEF Overdue
<1>5. CASE flow = "tool" /\ sentAt # None /\ now - sentAt >= ToolTimeout * Second
  <2>1. PICK limit \in Nat : limit = ToolTimeout * Second
    BY <1>1
  <2>2. sentAt \in Nat /\ sentAt' = sentAt
    BY <1>1, <1>3, <1>5
  <2>3. now' - sentAt' >= limit
    BY <1>1, <1>2, <1>5, <2>1, <2>2
  <2> QED
    BY <1>2, <1>5, <2>1, <2>2, <2>3 DEF Overdue
<1> QED
  BY <1>4, <1>5 DEF Overdue

LEMMA OverdueClientsStep ==
    ASSUME ConfirmationInv, Client, Overdue
    PROVE  StepsLeft' < StepsLeft
<1>1. flow' = flow /\ flow \in {"script", "tool"}
  BY DEF Client, Send, Hold, StartPoll, Settled, GiveUp, Sleep, TimesOut, built, Overdue
<1>2. ASSUME NEW delivered \in BOOLEAN, NEW answered \in BOOLEAN, Send(delivered, answered)
      PROVE  StepsLeft' < StepsLeft
  <2>1. pc = "built" /\ pc' \in {"hold", "poll", "done"}
    BY <1>2 DEF Send, Return
  <2> QED
    BY <2>1 DEF StepsLeft
<1>3. ASSUME NEW single \in BOOLEAN, Hold(single) PROVE StepsLeft' < StepsLeft
  BY <1>3 DEF Hold, StepsLeft
<1>4. CASE StartPoll
  <2>1. flow # "tool"
    <3>1. ToolTimeout * Second \in Nat /\ now \in Nat /\ sentAt \in Nat \cup {None}
      BY Numbers DEF ConfirmationInv, TypeOK
    <3>2. ASSUME flow = "tool" PROVE FALSE
      <4>1. PICK limit \in Nat : limit = ToolTimeout * Second
        BY <3>1
      <4>2. sentAt \in Nat /\ now - sentAt < limit /\ now - sentAt >= limit
        BY <1>4, <3>1, <3>2, <4>1 DEF StartPoll, Overdue
      <4> QED
        BY <3>1, <4>2
    <3> QED
      BY <3>2
  <2> QED
    BY <1>1, <1>4, <2>1 DEF StartPoll, StepsLeft
<1>5. CASE Settled \/ GiveUp \/ TimesOut
  <2>1. pc \in {"asked", "poll"} /\ pc' = "done"
    BY <1>5 DEF Settled, GiveUp, TimesOut, Return
  <2> QED
    BY <2>1 DEF StepsLeft
<1>6. CASE Sleep
  <2>1. flow = "tool"
    <3>1. flow = "script" => now + skew >= expiry
      BY DEF Overdue
    <3>2. flow = "script" => Near(answer)
      BY <3>1, ExpiredIsNear
    <3> QED
      BY <1>1, <1>6, <3>2 DEF Sleep
  <2> QED
    BY <1>1, <1>6, <2>1 DEF Sleep, StepsLeft
<1> QED
  BY <1>2, <1>3, <1>4, <1>5, <1>6 DEF Client

LEMMA HurryStep == ASSUME ConfirmationInv, ConfirmationInv', [Next]_vars PROVE [HurriesOn]_vars
<1>1. SUFFICES ASSUME Overdue PROVE StepsLeft' <= StepsLeft /\ (Client => StepsLeft' < StepsLeft)
  BY OverdueStays DEF HurriesOn
<1>2. StepsLeft \in Int /\ StepsLeft' \in Int
  BY StepsAreFew DEF ConfirmationInv, TypeOK, StepsLeft
<1>3. CASE Client
  BY <1>1, <1>2, <1>3, OverdueClientsStep
<1>4. CASE ~Client
  <2>1. pc' = pc /\ flow' = flow
    BY <1>4 DEF Next, Tick, See, Drop, GoDown, Execute, vars, time, chain, built, client
  <2>2. StepsLeft' = StepsLeft
    BY <2>1 DEF StepsLeft
  <2> QED
    BY <1>2, <1>4, <2>2
<1> QED
  BY <1>3, <1>4

\* A wait with a deadline ends soon after it: once the transaction has expired on the
\* client's clock, or the tool's time is over, the client takes at most four steps
\* more, whatever the chain and the node do (RpcUtils.h, WaitForConfirmation;
\* main.cpp, WaitForTx).
THEOREM OverdueClientsReturn == Spec => [](StepsLeft \in 0 .. 4) /\ [][HurriesOn]_vars
<1>1. ConfirmationInv => StepsLeft \in 0 .. 4
  BY StepsAreFew DEF ConfirmationInv
<1>2. ConfirmationInv /\ ConfirmationInv' /\ [Next]_vars => [HurriesOn]_vars
  BY HurryStep
<1> QED
  BY <1>1, <1>2, ConfirmationInvariant, PTL DEF Spec

============================================================================
