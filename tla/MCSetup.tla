------------------------------ MODULE MCSetup ------------------------------
(***************************************************************************)
(* Setup, Session and Checks on small instances.  A behaviour is of one    *)
(* world: a setup, processes that start, a running engine's view, a        *)
(* canary's trades, or a question put to the checks.                       *)
(***************************************************************************)
EXTENDS Setup, Session, Checks

CONSTANT Worlds \* the worlds explored

VARIABLES world, question

MCRepos == {NoFile, File([pub |-> "seen"], <<>>)}
MCUsers == {NoFile, File([slip |-> "10", loss |-> 2], <<>>),
            File([loss |-> 2], [pub |-> "g1", key |-> "n1"]),
            File([mode |-> "confirm", live |-> TRUE, pub |-> "own", key |-> "k0"], <<>>)}
MCLosses == {-1, 3}
MCEnvs == {<<>>, <<"old", "older">>}

MCPlans == {[kind |-> "session", mode |-> "paper", live |-> FALSE, key |-> "none", strategies |-> s, event |-> e] :
               s \in BOOLEAN, e \in BOOLEAN}
      \cup {[kind |-> k, mode |-> m, live |-> TRUE, key |-> key, strategies |-> TRUE, event |-> FALSE] :
               k \in {"session", "canary"}, m \in {"confirm", "paper"}, key \in {"good", "bad", "none"}}
      \cup {[kind |-> "research", mode |-> "paper", live |-> FALSE, key |-> "none", strategies |-> TRUE,
             event |-> FALSE]}

----------------------------------------------------------------------------
(* The questions *)

Nets == {"rpc", "accounts", "ws", "jupiter", "labels", "floor", "stream", "hermes", "venue", "inventory"}
DoctorQuestions ==
    [kind : {"doctor"}, net : {Nets \ out : out \in {{}} \cup {{a} : a \in Nets} \cup {{a, b} : a, b \in Nets}},
     c : [mode : {"paper", "confirm"}, feeds : BOOLEAN, stream : {TRUE}, hermes : BOOLEAN,
          venue : {"none", "right", "wrong chain"}, creds : {FALSE}, key : {"good", "bad", "other"},
          balance : {0, 1}, reserve : {1}]]
SecretQuestions ==
    [kind : {"secret"}, env : SUBSET {"a", "b"}, files : [1..2 -> SUBSET {"a", "b"}], name : {"a"}]
FundingQuestions ==
    [kind : {"funding"}, sol : 1..40, usdc : {0, 1}, price : {{}, {1}}, net : -2..2,
     c : [amount : 1..5, reserve : {0, 3}, pct : {1, 3, 10}, tolerance : {1}, maxLoss : {1}]]

\* A landed round trip: what the legs delivered, a deposit, and what else may
\* have moved the taker's lamports or USDC.
TradeQuestions ==
    [kind : {"trade"}, ok : BOOLEAN, in : {4}, mid : {2}, min : {<<1, 3>>}, got : 0..3, out : 2..5, fee : {1}, tip : {1},
     rent : {0, 1}, made : {0, 1}, took : {-1, 0, 1}, usdc : {0, 1}, legs : {1, 2}]
Questions == DoctorQuestions \cup SecretQuestions \cup FundingQuestions \cup TradeQuestions

----------------------------------------------------------------------------
SetupFirst ==
    /\ repo = NoFile /\ p = Idle /\ running = {} /\ saves = 0
    /\ hist = [unlocked |-> {"paper"}, versions |-> {NoFile}, broken |-> FALSE, want |-> "keep"]
    /\ disk = [user |-> NoFile, baks |-> {}, env |-> <<>>, dotenv |-> <<>>, marker |-> FALSE, keys |-> <<>>]

MCInit ==
    /\ world \in Worlds
    /\ IF world = "setup" THEN Init ELSE SetupFirst
    /\ StartInit /\ ViewInit /\ CanaryInit
    /\ question \in (IF world = "questions" THEN Questions ELSE {[kind |-> "none"]})
MCNext ==
    /\ UNCHANGED <<world, question>>
    /\ \/ world = "setup" /\ Next /\ UNCHANGED sessionVars
       \/ world = "start" /\ StartStep /\ UNCHANGED <<vars, viewVars, canaryVars>>
       \/ world = "view" /\ ViewStep /\ UNCHANGED <<vars, startVars, canaryVars>>
       \/ world = "canary" /\ CanaryStep /\ UNCHANGED <<vars, startVars, viewVars>>
MCSpec == MCInit /\ [][MCNext]_<<vars, sessionVars, world, question>>

Asked(kind) == question.kind = kind

----------------------------------------------------------------------------
(* Properties of the answers *)

\* When --doctor says that the mode can run, what the mode cannot do without
\* answers, and start_with has no reason to fail but the want of a strategy;
\* and it never refuses over what has a fallback (the RPC's accounts, the tip
\* stream, Hermes, a venue that does not answer).
Needs == {"rpc", "ws", "jupiter", "labels", "floor"}
DoctorIsRight ==
    Asked("doctor") =>
        LET c == question.c IN
        DoctorOk(c, question.net) <=>
            /\ Needs \cup (IF c.feeds THEN {"accounts"} ELSE {}) \subseteq question.net
            /\ c.venue # "wrong chain"
            /\ c.mode = "confirm" => c.key = "good" /\ c.balance >= c.reserve

\* The place --doctor names for a secret is the one whose value the start uses
\* (secrets, envfile::load: the environment, then the user's file, then ./.env).
SourceIsUsed ==
    Asked("secret") =>
        LET in == {i \in 1..2 : question.name \in question.files[i]}
        IN  SecretSource(question.name, question.env, question.files)
              = IF question.name \in question.env THEN 0 ELSE IF in = {} THEN -1 ELSE IF 1 \in in THEN 1 ELSE 2

\* A wallet that may start a canary breaks none of the risk engine's rules
\* about the wallet, and has the trade's amount besides the reserve
\* (required_lamports, RiskEngine::evaluate).
FundedPasses ==
    Asked("funding") /\ CheckFunding(question.c, question.sol, question.usdc, question.price)
        => /\ WalletRules(question.c, question.sol)
           /\ question.sol >= question.c.amount + question.c.reserve + Headroom

\* "before a canary can pass the risk engine": a funded canary whose result is
\* within its loss bound can pass it (canary::prepare, RiskEngine::evaluate).
RK == INSTANCE Risk WITH MaxFailures <- 1, MaxOpenExecutions <- 1, MaxQuoteAge <- 1, MaxSimAge <- 1
\* Does not hold: the risk engine refuses every result that is not positive
\* (risk/lib.rs:210), so the loss bound of a canary is never used.
CanaryCanSend ==
    LET q == question IN
    Asked("funding") /\ CheckFunding(q.c, q.sol, q.usdc, q.price) /\ q.net >= CanaryMinProfit(q.c)
        => RK!Approved(RK!RiskDefault,
                       [age |-> 0, simAge |-> 0, sends |-> TRUE, exact |-> TRUE, net |-> q.net,
                        others |-> WalletRules(q.c, q.sol)], 1, FALSE)

\* The reconciliation of a trade is in order exactly when the transaction
\* succeeded, every leg kept its minimum, the deposits were the ones foreseen,
\* nothing but legs, fee, tip and deposits moved the taker's money, and the
\* loss is within its bound (reconcile).
Transaction(q) ==
    [ok |-> q.ok, outs |-> IF q.legs = 2 THEN <<q.got, q.out>> ELSE <<q.got>>, keys |-> {"taker", "new"}, fee |-> q.fee,
     pre |-> [k \in {"taker", "new"} |-> IF k = "taker" THEN 10 ELSE 0],
     post |-> [k \in {"taker", "new"} |-> IF k = "new" THEN q.made
                                          ELSE 10 - q.in + q.out - q.fee - q.tip - q.made + q.took],
     wsol |-> 0, usdc |-> q.got - q.mid + q.usdc]
Recorded(q) == [legs |-> <<[in |-> q.in, min |-> q.min[1]], [in |-> q.mid, min |-> q.min[2]]>>, rent |-> q.rent]
ReconciliationIsRight ==
    Asked("trade") =>
        LET q == question
            left == q.out - q.in - q.fee - q.tip + Towards0((q.got - q.mid) * q.out, q.mid)
        IN  Reconcile(Recorded(q), Transaction(q), "taker", q.tip, 3).ok
              <=> /\ q.ok /\ q.legs = 2 /\ q.got >= q.min[1] /\ q.out >= q.min[2] /\ q.made = q.rent
                  /\ q.took = 0 /\ q.usdc = 0 /\ left >= -3

\* What --doctor and the canary tell the operator is so, about the services,
\* the secrets, the funding and the trade that landed (doctor.rs, canary.rs).
ChecksAreRight ==
    DoctorIsRight /\ SourceIsUsed /\ FundedPasses /\ ReconciliationIsRight /\ CanaryReportIsTrue
============================================================================
