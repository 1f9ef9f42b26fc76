------------------------------- MODULE Answers ------------------------------
(***************************************************************************)
(* What the clients make of an HTTP exchange: the Jito client              *)
(* (crates/jito/src/client.rs), the parsers of the Solana RPC client       *)
(* (crates/market/src/rpc.rs), and the EVM, OKX and Binance clients        *)
(* (crates/venues).  Each answer becomes a result or one of a few errors,  *)
(* and tells the rate limiter and the health board what happened.          *)
(*                                                                         *)
(* A response is [sent, read, status, body]: it was sent and answered, its *)
(* body was read, and the body is json with an error, a result or neither, *)
(* or no json at all.  What Jupiter's client does is Limiter's, what the   *)
(* RPC client's calls do is Feeds'.                                        *)
(***************************************************************************)
EXTENDS Integers, Sequences, FiniteSets, SequencesExt

\* What a client returns, and whether it told the limiter of a 429 ("slow"), of
\* a success ("go") or nothing, and the health board.
Told(result, limiter, health) == [result |-> result, limiter |-> limiter, health |-> health]

Good(status) == 200 <= status /\ status < 300

\* Mutant of JitoRpc: the error a 200 carries is not looked for.
JitoRpcTrusting(r) ==
    IF ~r.sent THEN Told("transport", "none", "err")
    ELSE IF ~r.read THEN Told("transport", "none", "none")
    ELSE IF r.status = 429 THEN Told("rate_limited", "slow", "limited")
    ELSE IF r.body = "text" THEN Told("http", "go", "err")
    ELSE IF ~Good(r.status) THEN Told("http", "go", "err")
    ELSE Told("ok", "go", "ok")

\* JitoClient::rpc
JitoRpc(r) ==
    IF ~r.sent THEN Told("transport", "none", "err")
    ELSE IF ~r.read THEN Told("transport", "none", "none")
    ELSE IF r.status = 429 THEN Told("rate_limited", "slow", "limited")
    ELSE IF r.body = "text" THEN Told("http", "go", "err")
    ELSE IF r.body = "error" THEN Told("rpc", "go", "err")
    ELSE IF ~Good(r.status) THEN Told("http", "go", "err")
    ELSE Told("ok", "go", "ok")

\* JitoClient::tip_floor looks at the body and not at the status.
TipFloorAnswer(r) ==
    IF ~r.sent THEN Told("transport", "none", "err")
    ELSE IF ~r.read THEN Told("transport", "none", "none")
    ELSE IF r.status = 429 THEN Told("rate_limited", "slow", "limited")
    ELSE IF r.body # "result" THEN Told("decode", "none", "none")
    ELSE Told("ok", "none", "ok")

\* EvmRpc::request reads json whatever the status, and no limiter is told.
EvmRequest(r) ==
    IF ~r.sent \/ ~r.read \/ r.body = "text" THEN Told("transport", "none", "none")
    ELSE IF r.body = "error" THEN Told("rpc", "none", "none")
    ELSE IF r.body = "empty" THEN Told("decode", "none", "none")
    ELSE Told("ok", "none", "none")

\* OkxClient::send; the envelope of a 200 is opened by the parser of its call.
OkxSend(r) ==
    IF ~r.sent \/ ~r.read THEN Told("transport", "none", "none")
    ELSE IF r.status # 200 /\ r.body \in {"error", "empty"} THEN Told("api", "none", "none")
    ELSE IF r.status # 200 THEN Told("http", "none", "none")
    ELSE Told("ok", "none", "none")

\* api_error: a body with a code, unless the code is 0 and nothing is said of it.
ApiError(r) == r.body = "error"
BinanceSend(r) ==
    IF ~r.sent \/ ~r.read THEN Told("transport", "none", "none")
    ELSE IF r.status = 200 THEN Told("ok", "none", "none")
    ELSE IF r.status = 451 THEN Told("restricted", "none", "none")
    ELSE IF ApiError(r) THEN Told("api", "none", "none")
    ELSE Told("http", "none", "none")

----------------------------------------------------------------------------
(* What the bodies hold *)

\* An account that does not parse is left out, and none left is an error.
ParseTipAccounts(list) ==
    LET good == SelectSeq(list, LAMBDA a : a.parses) IN IF good = <<>> THEN {} ELSE {[i \in DOMAIN good |-> good[i].key]}

\* An amount of SOL that is missing, negative or no number is 0 lamports.
SolToLamports(v) == IF v = {} \/ \E x \in v : x < 0 THEN 0 ELSE CHOOSE n \in {x * 10 : x \in v} : TRUE
ParseTipFloor(list) ==
    IF list = <<>> THEN {} ELSE {[p50 |-> SolToLamports(list[1].p50), p99 |-> SolToLamports(list[1].p99)]}

\* A word that is none of the three is "invalid"; an entry without one is left out.
ParseInflight(list) ==
    LET named == SelectSeq(list, LAMBDA s : s.status # {})
        State(s) == CASE s.status = {"Landed"} -> "landed" [] s.status = {"Pending"} -> "pending"
                      [] s.status = {"Failed"} -> "failed" [] OTHER -> "invalid"
    IN  [i \in DOMAIN named |-> [id |-> named[i].id, state |-> State(named[i])]]

\* {"Ok": null}, null and nothing at all are no error.
ParseBundleStatuses(list) ==
    LET known == SelectSeq(list, LAMBDA s : s.kind # "null")
    IN  [i \in DOMAIN known |-> [id |-> known[i].id, failed |-> known[i].err \notin {"ok", "null", "absent"}]]

\* A bundle has one to five transactions.
SendBundle(n, r) == IF n \notin 1..5 THEN Told("bundle_size", "none", "none") ELSE JitoRpc(r)

\* simulateTransaction: what is missing is empty, and no error is none.
ParseSimulate(v) ==
    [err |-> IF v.err \in {"absent", "null"} THEN {} ELSE {v.err},
     logs |-> IF v.logs = "absent" THEN <<>> ELSE v.logs, units |-> v.units,
     pre |-> v.pre, post |-> v.post]

\* getTransaction: static keys, then those loaded to be written, then to be read.
ParseTransaction(v) ==
    IF v.meta = {} THEN {}
    ELSE {LET m == CHOOSE x \in v.meta : TRUE
          IN  [keys |-> v.keys \o m.writable \o m.readonly, pre |-> m.pre, post |-> m.post, fee |-> m.fee,
               failed |-> m.err \notin {"absent", "null"}]}
=============================================================================
