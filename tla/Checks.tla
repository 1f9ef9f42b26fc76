------------------------------- MODULE Checks -------------------------------
(***************************************************************************)
(* What the program says before and after it is trusted with money:        *)
(* doctor.rs (--doctor) and canary.rs (--canary: its settings, the money   *)
(* it needs, and the reconciliation of the trade that landed).  Pure.      *)
(***************************************************************************)
EXTENDS Integers, Sequences, FiniteSets, SequencesExt

CONSTANTS BpsOne, PpmOne,  \* the scales of basis points and parts per million
          Headroom         \* lamports for fee and tip

ASSUME ChecksAssumption == {BpsOne, PpmOne, Headroom} \subseteq Nat /\ PpmOne % BpsOne = 0

----------------------------------------------------------------------------
(* --doctor.  c: the settings; net: the endpoints that answer *)

Check(ok, name) == [ok |-> ok, optional |-> FALSE, name |-> name]
OptionalCheck(ok, name) == [ok |-> ok, optional |-> TRUE, name |-> name]

\* The accounts are asked for only if there are some, over the same endpoint.
CheckRpc(c, net) ==
    <<Check("rpc" \in net, "rpc")>>
        \o (IF c.feeds THEN <<Check({"rpc", "accounts"} \subseteq net, "accounts")>> ELSE <<>>)

\* Mutant of CheckWs: a warning.
CheckWsWarns(net) == <<OptionalCheck("ws" \in net, "ws")>>
CheckWs(net) == <<Check("ws" \in net, "ws")>>
CheckJupiter(net) == <<Check({"jupiter", "labels"} \subseteq net, "jupiter")>>
CheckJito(c, net) ==
    <<Check("floor" \in net, "floor")>>
        \o (IF c.feeds /\ c.stream THEN <<OptionalCheck("stream" \in net, "stream")>> ELSE <<>>)
CheckHermes(c, net) == IF c.hermes THEN <<OptionalCheck("hermes" \in net, "hermes")>> ELSE <<>>

\* A venue that does not answer is a warning, one of another chain is not; an
\* account is asked about only with credentials.
CheckVenue(c, net) ==
    (IF c.venue = "wrong chain" THEN <<Check(FALSE, "venue")>> ELSE <<OptionalCheck("venue" \in net, "venue")>>)
        \o (IF c.creds THEN <<IF "account" \in net THEN Check(TRUE, "account") ELSE OptionalCheck(FALSE, "account")>>
            ELSE <<>>)
EndpointChecks(c, net) ==
    CheckRpc(c, net) \o CheckWs(net) \o CheckJupiter(net) \o CheckJito(c, net) \o CheckHermes(c, net)
        \o (IF c.venue = "none" THEN <<>> ELSE CheckVenue(c, net))

\* The signer loads and is the configured one, and can pay the reserve.
WalletChecks(c, net) ==
    IF c.key # "good" THEN <<Check(FALSE, "keypair")>>
    ELSE <<Check(TRUE, "keypair"), Check("rpc" \in net /\ c.balance >= c.reserve, "balance"),
           OptionalCheck("inventory" \in net, "inventory")>>
SendsMode(c) == c.mode # "paper"
DoctorChecks(c, net) == EndpointChecks(c, net) \o (IF SendsMode(c) THEN WalletChecks(c, net) ELSE <<>>)
DoctorOk(c, net) == \A i \in DOMAIN DoctorChecks(c, net) : DoctorChecks(c, net)[i].optional \/ DoctorChecks(c, net)[i].ok

\* Mutant of LoadedFrom: a file's line replaces what is set.
LoadedFromOver(env, files) == files

\* secrets: process environment, the user's file, ./.env; a file is named when
\* the start took the variable from it (envfile::load).
LoadedFrom(env, files) ==
    [i \in DOMAIN files |-> files[i] \ (env \cup UNION {files[j] : j \in 1..(i - 1)})]
SecretSource(name, env, files) ==
    LET in == {i \in DOMAIN files : name \in LoadedFrom(env, files)[i]}
    IN  CASE in # {} -> CHOOSE i \in in : \A j \in in : i <= j
          [] name \in env -> 0
          [] OTHER -> -1

----------------------------------------------------------------------------
(* --canary.  c: [amount, reserve, pct, tolerance, maxLoss] *)

\* prepare: the loss bound is the least profit; its other guards are open.
CanaryMinProfit(c) == -c.maxLoss
CanaryPrepares(c) == c.live /\ c.key # "none"

CeilOf(a, b) == (a + b - 1) \div b
Larger(a, b) == IF a > b THEN a ELSE b
Smaller(a, b) == IF a < b THEN a ELSE b

\* Mutant of RequiredLamports: the smaller of the two.
RequiredLamportsEither(c) == Smaller(c.amount + c.reserve, CeilOf(c.amount * BpsOne, Larger(c.pct, 1))) + Headroom

RequiredLamports(c) == Larger(c.amount + c.reserve, CeilOf(c.amount * BpsOne, Larger(c.pct, 1))) + Headroom
MinUsdc(c, px) == CeilOf(c.amount * px * c.tolerance, BpsOne)

\* check_funding; a price that could not be read leaves the USDC unchecked.
CheckFunding(c, sol, usdc, price) == sol >= RequiredLamports(c) /\ \A px \in price : usdc >= MinUsdc(c, px)

\* risk.evaluate on what the funding is about, with the wallet as the equity:
\* the share of equity and the reserve.
WalletRules(c, sol) == (c.amount * PpmOne) \div sol <= c.pct * (PpmOne \div BpsOne) /\ sol >= c.reserve

\* reconcile: what the transaction did against what was quoted.  o: [legs,
\* rent]; tx: [ok, outs, keys, pre, post, wsol, usdc, fee], wsol and usdc
\* being the taker's changes.
SumOf(S, F(_)) == FoldLeft(LAMBDA acc, k : acc + F(k), 0, SetToSeq(S))
Opened(tx) == SumOf({k \in tx.keys : tx.pre[k] = 0 /\ tx.post[k] > 0}, LAMBDA k : tx.post[k])

\* Mutant of ExpectedNative: the tip is left out.
ExpectedNativeNoTip(o, tx, tip) == -o.legs[1].in + Last(tx.outs) - tx.fee - Opened(tx)

ExpectedNative(o, tx, tip) == -o.legs[1].in + Last(tx.outs) - tx.fee - tip - Opened(tx)

\* i128 division: towards zero.
Towards0(a, b) == IF a >= 0 THEN a \div b ELSE -((-a) \div b)
Reconcile(o, tx, taker, tip, maxLoss) ==
    LET all == Len(tx.outs) = Len(o.legs)
        sol == tx.post[taker] - tx.pre[taker] + tx.wsol
        drift == IF Len(tx.outs) >= 2 /\ o.legs[2].in > 0 THEN Towards0(tx.usdc * tx.outs[2], o.legs[2].in) ELSE 0
        result == sol + Opened(tx) + drift
        lines == <<tx.ok>>
            \o [i \in DOMAIN o.legs |-> i \in DOMAIN tx.outs /\ tx.outs[i] >= o.legs[i].min]
            \o <<Opened(tx) = o.rent,
                 all /\ tx.outs # <<>> /\ ExpectedNative(o, tx, tip) = sol,
                 tx.outs # <<>> /\ Len(o.legs) >= 2 /\ tx.outs[1] - o.legs[2].in = tx.usdc,
                 result >= -maxLoss>>
    IN  [ok |-> \A i \in DOMAIN lines : lines[i], result |-> result]
=============================================================================
