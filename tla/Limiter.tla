------------------------------ MODULE Limiter -------------------------------
(***************************************************************************)
(* The limiters of telemetry/src/ratelimit.rs between the tasks of a       *)
(* client (jupiter/src/client.rs, exchange) and the gateway that counts    *)
(* their requests.                                                         *)
(*                                                                         *)
(* A task asks for a slot, sleeps when there is none, sends, and hands the *)
(* gateway's report or refusal back; answers come in any order, or never.  *)
(* Other clients of the same organisation use the same gateway.            *)
(*                                                                         *)
(* Time is ages and remaining times in ticks: an Instant t in the past is  *)
(* now - t, one in the future t - now, and Tick moves them all.  A tick is *)
(* the shortest wait (100 ms of a block, 1 ms of a sleep).                 *)
(***************************************************************************)
EXTENDS Integers, SequencesExt

CONSTANTS
    Tasks,
    Limit,        \* external: what the gateway admits in any GatewayWindow
    GatewayWindow,
    Margin,       \* a request arrives at most this long after its slot was taken
    Timeout,      \* of the HTTP client, from the send
    Configured,   \* WindowInner.configured
    Safeties,     \* WindowInner.safety
    Reserves,     \* reserves callers keep free
    Burst, Share, \* LimiterConfig: burst; a token comes back every Share ticks
    BaseBackoff, MaxBackoff,
    None

ASSUME LimiterAssumption ==
    /\ {Limit, GatewayWindow, Timeout, Configured, Burst, Share, BaseBackoff} \subseteq Nat \ {0}
    /\ Margin \in Nat /\ MaxBackoff \in Nat
    /\ Safeties \subseteq Nat /\ Reserves \subseteq Nat

Window == GatewayWindow + Margin

VARIABLES
    kind,     \* Limiter::Bucket or Limiter::Window
    safety,
    w,        \* WindowInner
    b,        \* Inner
    task,     \* the tasks in exchange
    counted,  \* external: ages of the requests the gateway counts
    shared,   \* another client has used the gateway
    grants    \* history: ages of the tokens given out, newest first

vars == <<kind, safety, w, b, task, counted, shared, grants>>

Idle == [pc |-> "idle"]

----------------------------------------------------------------------------
(* WindowLimiter *)

MaxOf(m, n) == IF m > n THEN m ELSE n
MinOf(m, n) == IF m < n THEN m ELSE n

\* Safety and reserve are given for the configured capacity and scale with the
\* learned one; a safety stays at least one.
Scale(n) == (n * w.capacity) \div Configured
Headroom(reserve) == (IF safety > 0 THEN MaxOf(Scale(safety), 1) ELSE 0) + Scale(reserve)

\* Mutant of InWindow: a send leaves the window one tick early.
InWindowShort(age) == age < Window - 1

InWindow(age) == age < Window

\* The sends still in the window after some time (prune).
Recent(later) == SelectSeq(w.sent, LAMBDA age : InWindow(age + later))

\* What the gateway's last report leaves, while it is fresh.
Reported(later, reserve) ==
    LET since == Len(SelectSeq(w.sent, LAMBDA age : age < w.server.age))
        freed == IF w.reset # None /\ w.reset <= later THEN 1 ELSE 0
    IN  MaxOf(w.server.remaining + freed - since - Headroom(reserve), 0)

\* Mutant of Fresh: a report is believed until the next one.
FreshForever(later) == TRUE

Fresh(later) == w.server.age + later < Window

Allowed(reserve) == MaxOf(w.capacity - Headroom(reserve), 0)

\* available_locked, some time from now if nothing happens until then.
Available(later, reserve) ==
    LET local == MaxOf(Allowed(reserve) - Len(Recent(later)), 0)
    IN  IF later < w.blocked THEN 0
        ELSE IF w.server # None /\ Fresh(later)
        THEN MinOf(local, Reported(later, reserve))
        ELSE local

\* Mutant of AgesOut: the newest send has to age out.
AgesOutLate(need, free) == Window - Last(Recent(0))

\* The (need - free)-th oldest send has to age out.
AgesOut(need, free) == Window - Recent(0)[need - free]

\* next_slot_locked: how long until `need` slots may be free.
NextSlot(reserve, need) ==
    LET limit == Allowed(reserve)
        free == MaxOf(limit - Len(Recent(0)), 0)
        at == IF need > limit THEN Window
              ELSE IF free < need THEN AgesOut(need, free)
              ELSE IF w.reset # None /\ w.reset > 0 THEN w.reset
              ELSE Window - w.server.age
    IN  IF w.blocked > 0 THEN w.blocked
        ELSE IF Available(0, reserve) >= need THEN 0
        ELSE MaxOf(at, 1)

\* on_server_report: the capacity is learned from every report, the count only
\* from one not older than the last.
OnServerReport(g, age, report) ==
    LET newest == g.server = None \/ age <= g.server.age
    IN  [g EXCEPT !.capacity = IF report.current + report.remaining > 0
                               THEN report.current + report.remaining ELSE @,
                  !.server = IF newest THEN [age |-> age, remaining |-> report.remaining] ELSE @,
                  !.reset = IF newest THEN report.reset ELSE @,
                  !.blocked = IF report.remaining <= 0 THEN MaxOf(@, MaxOf(report.reset, 1)) ELSE @]

----------------------------------------------------------------------------
(* RateLimiter *)

\* backoff_delay at its two ends of jitter, never less than the hint.
Doubled[n \in 0..16] == IF n = 0 THEN BaseBackoff ELSE MinOf(2 * Doubled[n - 1], MaxBackoff)
Delays(attempt, hint) ==
    LET exp == MinOf(Doubled[MinOf(attempt, 16)], MaxBackoff)
        floor == IF hint = None THEN 0 ELSE MinOf(hint, MaxBackoff)
    IN  {MaxOf(d, floor) : d \in (exp \div 2)..exp}

\* Tokens are counted in shares: Share of them make one.
\* Mutant of Refilled: tokens pile up.
RefilledBeyondBurst == b.tokens + b.idle

Refilled == MinOf(b.tokens + b.idle, Burst * Share)

\* RateLimiter::try_acquire: how long to wait, 0 when a token is taken.
BucketWait ==
    IF b.backoff > 0 THEN b.backoff
    ELSE IF Refilled >= Share THEN 0 ELSE Share - Refilled

\* on_rate_limited of either: the window's limiter takes the hint as it is.
WindowDelays(hint) == IF hint # None THEN {hint} ELSE Delays(w.attempt, None)

AttemptCap == 2   \* bound: beyond it the delay no longer grows

----------------------------------------------------------------------------
(* The client *)

Init ==
    /\ kind \in {"bucket", "window"} /\ safety \in Safeties
    /\ w = [capacity |-> Configured, sent |-> <<>>, server |-> None, reset |-> None,
            blocked |-> 0, attempt |-> 0]
    /\ b = [tokens |-> Burst * Share, idle |-> 0, backoff |-> 0, attempt |-> 0]
    /\ task = [t \in Tasks |-> Idle]
    /\ counted = <<>> /\ shared = FALSE /\ grants = <<>>

Wants(t) == task[t].pc = "idle" \/ (task[t].pc = "asleep" /\ task[t].left = 0)

\* Limiter::acquire of a bucket: one round of its loop.
AcquireToken(t) ==
    /\ kind = "bucket" /\ Wants(t)
    /\ IF BucketWait = 0
       THEN /\ task' = [task EXCEPT ![t] = [pc |-> "slot", age |-> 0, informed |-> TRUE]]
            /\ b' = [b EXCEPT !.tokens = Refilled - Share, !.idle = 0, !.backoff = 0]
            /\ grants' = <<0>> \o grants
       ELSE /\ task' = [task EXCEPT ![t] = [pc |-> "asleep", left |-> BucketWait]]
            /\ b' = IF b.backoff > 0 THEN b ELSE [b EXCEPT !.tokens = Refilled, !.idle = 0]
            /\ UNCHANGED grants
    /\ UNCHANGED <<kind, safety, w, counted, shared>>

\* acquire of the window: take a slot, or sleep until one may be free.
AcquireSlot(t, reserve) ==
    /\ kind = "window" /\ Wants(t)
    /\ IF Available(0, reserve) > 0
       THEN /\ task' = [task EXCEPT ![t] = [pc |-> "slot", age |-> 0, informed |-> w.server # None]]
            /\ w' = [w EXCEPT !.sent = Append(@, 0)]
       ELSE /\ task' = [task EXCEPT ![t] = [pc |-> "asleep", left |-> NextSlot(reserve, 1)]]
            /\ UNCHANGED w
    /\ UNCHANGED <<kind, safety, b, counted, shared, grants>>

\* exchange: the request leaves, some time after its slot was taken.
Send(t) ==
    /\ task[t].pc = "slot"
    /\ task' = [task EXCEPT ![t] = [pc |-> "out", age |-> 0, slot |-> task[t].age,
                                    informed |-> task[t].informed]]
    /\ UNCHANGED <<kind, safety, w, b, counted, shared, grants>>

\* The gateway admits a request while its window is not full, and reports.
Oldest(s) == IF s = <<>> THEN 0 ELSE s[1]
Report(s) == [current |-> Len(s), remaining |-> Limit - Len(s),
              reset |-> GatewayWindow - Oldest(s)]

\* A refused request is not counted.
Arrive(t) ==
    /\ task[t].pc = "out"
    /\ LET admitted == Len(counted) < Limit
           now == IF admitted THEN Append(counted, 0) ELSE counted
       IN  /\ counted' = now
           /\ task' = [task EXCEPT ![t] = [pc |-> "answer", age |-> task[t].age, ok |-> admitted,
                                           report |-> Report(now), informed |-> task[t].informed]]
    /\ UNCHANGED <<kind, safety, w, b, shared, grants>>

OtherClient ==
    /\ Len(counted) < Limit
    /\ counted' = Append(counted, 0) /\ shared' = TRUE
    /\ UNCHANGED <<kind, safety, w, b, task, grants>>

\* exchange, an answer: its report, when it carries one, then success or 429.
Answered(t, headers) ==
    /\ task[t].pc = "answer" /\ kind = "window"
    /\ LET a == task[t]
           g == IF headers THEN OnServerReport(w, a.age, a.report) ELSE w
           hint == IF headers THEN a.report.reset ELSE None
       IN  IF a.ok THEN w' = [g EXCEPT !.attempt = 0]
           ELSE \E d \in WindowDelays(hint) :
                   w' = [g EXCEPT !.attempt = MinOf(@ + 1, AttemptCap), !.blocked = MaxOf(@, MaxOf(d, 1))]
    /\ task' = [task EXCEPT ![t] = Idle]
    /\ UNCHANGED <<kind, safety, b, counted, shared, grants>>

\* The same for a bucket, which does not read reports.
BucketAnswered(t, headers) ==
    /\ task[t].pc = "answer" /\ kind = "bucket"
    /\ IF task[t].ok THEN b' = [b EXCEPT !.attempt = 0]
       ELSE \E d \in Delays(b.attempt, IF headers THEN task[t].report.reset ELSE None) :
               b' = [b EXCEPT !.attempt = MinOf(@ + 1, AttemptCap), !.tokens = 0, !.idle = 0,
                              !.backoff = MaxOf(@, d)]
    /\ task' = [task EXCEPT ![t] = Idle]
    /\ UNCHANGED <<kind, safety, w, counted, shared, grants>>

\* A transport error or the timeout, before or after the gateway counted it.
Lost(t) ==
    /\ task[t].pc \in {"out", "answer"}
    /\ task' = [task EXCEPT ![t] = Idle]
    /\ UNCHANGED <<kind, safety, w, b, counted, shared, grants>>

\* Time passes, unless a request must arrive or time out first.
InTime(t) ==
    CASE task[t].pc = "slot" -> task[t].age < Margin
      [] task[t].pc = "out" -> task[t].age + task[t].slot < Margin
      [] task[t].pc = "answer" -> task[t].age < Timeout
      [] OTHER -> TRUE

Down(n) == MaxOf(n - 1, 0)
Up(s) == [i \in DOMAIN s |-> s[i] + 1]

Later(t) ==
    CASE task[t].pc \in {"slot", "out", "answer"} ->
           IF task[t].pc = "answer"
           THEN [task[t] EXCEPT !.age = @ + 1, !.report.reset = Down(@)]
           ELSE [task[t] EXCEPT !.age = @ + 1]
      [] task[t].pc = "asleep" -> [task[t] EXCEPT !.left = Down(@)]
      [] OTHER -> task[t]

\* A report too old to count is only compared with answers on their way.
ReportAge(age) == MinOf(age + 1, MaxOf(Window, Timeout + 1))

WindowAges ==
    w' = [w EXCEPT !.sent = Up(Recent(1)),
                   !.server = IF @ = None THEN None ELSE [@ EXCEPT !.age = ReportAge(@)],
                   !.reset = IF @ = None THEN None ELSE Down(@),
                   !.blocked = Down(@)]

BucketAges == b' = [b EXCEPT !.idle = MinOf(@ + 1, Burst * Share), !.backoff = Down(@)]

Tick ==
    /\ \A t \in Tasks : InTime(t)
    /\ task' = [t \in Tasks |-> Later(t)]
    /\ IF kind = "window" THEN WindowAges /\ UNCHANGED b ELSE BucketAges /\ UNCHANGED w
    /\ counted' = Up(SelectSeq(counted, LAMBDA age : age + 1 < GatewayWindow))
    /\ grants' = Up(SelectSeq(grants, LAMBDA age : age < Window))
    /\ UNCHANGED <<kind, safety, shared>>

Exchange(t) ==
    \/ AcquireToken(t) \/ (\E reserve \in Reserves : AcquireSlot(t, reserve))
    \/ Send(t) \/ Lost(t)
    \/ \E headers \in BOOLEAN : Answered(t, headers) \/ BucketAnswered(t, headers)

Next == Tick \/ OtherClient \/ \E t \in Tasks : Exchange(t) \/ Arrive(t)

Spec == Init /\ [][Next]_vars

\* A woken task asks again, and time passes.
FairSpec ==
    /\ Spec /\ WF_vars(Tick)
    /\ \A t \in Tasks : /\ WF_vars(AcquireToken(t)) /\ WF_vars(AcquireSlot(t, 0))
                        /\ WF_vars(Send(t)) /\ WF_vars(Arrive(t)) /\ WF_vars(Lost(t))

----------------------------------------------------------------------------
(* Properties *)

\* "at most `capacity` requests in any `window`": as long as nobody else uses
\* the gateway, a slot taken after its first report was heard is never refused,
\* although requests arrive later than their slots, reports come out of order
\* and the configured capacity was too large.
SoleClientIsNotRefused ==
    kind = "window" /\ ~shared =>
        \A t \in Tasks : task[t].pc = "answer" /\ task[t].informed => task[t].ok

\* next_slot never oversleeps: if nothing is sent or heard until then, there
\* are not `need` slots at any moment before the time it answers, and when it
\* answers now there are.
NextSlotIsNotLate ==
    kind = "window" => \A reserve \in Reserves, need \in 1..Limit :
        LET at == NextSlot(reserve, need)
        IN  IF at = 0 THEN Available(0, reserve) >= need
            ELSE \A u \in 0..(at - 1) : Available(u, reserve) < need

\* A bucket lets no more through in any stretch of time than its burst and
\* what came back meanwhile, whoever asks and however long they sleep; after a
\* refusal it starts from nothing.
BucketIsBounded ==
    kind = "bucket" => \A n \in 0..Window :
        Len(SelectSeq(grants, LAMBDA age : age <= n)) * Share <= Burst * Share + n

\* Neither limiter lets through more than the gateway takes, nor sleeps past
\* the moment it would take more (WindowLimiter and RateLimiter).
PaceIsRight == SoleClientIsNotRefused /\ NextSlotIsNotLate /\ BucketIsBounded

\* The limiter never refuses everyone for good, whatever the gateway reports
\* and other clients use: while somebody sleeps, somebody gets a slot.
SomebodyGetsASlot ==
    (\E t \in Tasks : task[t].pc = "asleep") ~> (\E t \in Tasks : task[t].pc = "slot")
=============================================================================
