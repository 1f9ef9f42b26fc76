------------------------------ MODULE Assemble ------------------------------
(***************************************************************************)
(* A transaction made of the legs Jupiter answered with, and what its      *)
(* simulation says (crates/jupiter/src/adapter.rs,                         *)
(* crates/execution/src/assemble.rs, simulate.rs): which CreateIdempotent  *)
(* instructions are dropped, where the tip goes, which accounts are loaded *)
(* through lookup tables, and how the wallet's SOL changed.                *)
(*                                                                         *)
(* An instruction is a record whose kind tells its effect: a create or a   *)
(* close of a token account, a swap that needs accounts, or a transfer.    *)
(* An account is a model value; a table is the sequence of accounts it     *)
(* holds on the chain.                                                     *)
(***************************************************************************)
EXTENDS Integers, Sequences, FiniteSets, SequencesExt, Functions

CONSTANTS
    Payer, Nobody,    \* the taker, and the key [0xff; 32]
    TokenProgram, AtaProgram, SystemProgram, ComputeProgram,
    MaxTxAccounts, MaxTxBytes, BytesPerKey, BytesPerIndex, BytesPerIx

----------------------------------------------------------------------------
(* The answer to a leg *)

\* to_leg: an answer about other tokens, without output, or with something that
\* does not parse is no leg.
ToLeg(r, asked) ==
    CASE r.in # asked.in \/ r.out # asked.out -> {}
      [] r.outAmount = 0 \/ ~r.parses -> {}
      [] OTHER -> {[in |-> r.in, out |-> r.out, outAmount |-> r.outAmount, minOut |-> r.threshold,
                    setup |-> r.setup, swap |-> r.swap, cleanup |-> r.cleanup, tables |-> r.tables]}

----------------------------------------------------------------------------
(* Instructions *)

AtaCreateTarget(ix) == IF ix.kind = "create" THEN {ix.account} ELSE {}
TokenCloseTarget(ix) == IF ix.kind = "close" THEN {ix.account} ELSE {}

\* wSOL accounts are volatile: what is known of them is never relied on.
IsWsolCreate(ix) == ix.kind = "create" /\ ix.wsol

\* A leg's instructions, with what exists and what was created on the way.
LegInstructions(s, leg) ==
    LET Setup(t, ix) ==
            IF AtaCreateTarget(ix) = {} THEN [t EXCEPT !.ixs = Append(@, ix)]
            ELSE IF AtaCreateTarget(ix) \subseteq t.existing /\ ~IsWsolCreate(ix) THEN t
            ELSE [ixs |-> Append(t.ixs, ix), existing |-> t.existing \cup AtaCreateTarget(ix),
                  creates |-> t.creates \cup AtaCreateTarget(ix)]
        Cleanup(t, ix) == [ixs |-> Append(t.ixs, ix), existing |-> t.existing \ TokenCloseTarget(ix),
                           creates |-> t.creates \ TokenCloseTarget(ix)]
        ready == FoldLeft(Setup, s, leg.setup)
    IN  FoldLeft(Cleanup, [ready EXCEPT !.ixs = Append(@, leg.swap)], leg.cleanup)

TipIx(p) == IF p.tip = {} THEN <<>> ELSE <<[kind |-> "transfer", to |-> CHOOSE a \in p.tip : TRUE]>>

----------------------------------------------------------------------------
(* Accounts and tables *)

ProgramOf(ix) ==
    CASE ix.kind = "create" -> AtaProgram [] ix.kind = "close" -> TokenProgram
      [] ix.kind = "swap" -> ix.program [] OTHER -> SystemProgram
KeysOf(ix) ==
    CASE ix.kind \in {"create", "close"} -> {ix.account, Payer} [] ix.kind = "swap" -> ix.needs \cup {Payer}
      [] OTHER -> {Payer, ix.to}

\* Mutant of LookupTables: the tip account is taken out of its table.
LookupTablesShifted(legs, exclude) ==
    [k \in UNION {DOMAIN legs[i].tables : i \in DOMAIN legs} |->
        SelectSeq(legs[SelectInSeq(legs, LAMBDA l : k \in DOMAIN l.tables)].tables[k], LAMBDA a : a \notin exclude)]

\* LegInstructions::lookup_tables of every leg; the first that names a table
\* says what it holds.  The tip account keeps its place but cannot match.
LookupTables(legs, exclude) ==
    LET named == UNION {DOMAIN legs[i].tables : i \in DOMAIN legs}
        Holder(k) == legs[SelectInSeq(legs, LAMBDA l : k \in DOMAIN l.tables)].tables[k]
    IN  [k \in named |-> [i \in DOMAIN Holder(k) |-> IF Holder(k)[i] \in exclude THEN Nobody ELSE Holder(k)[i]]]

\* External: solana's try_compile loads what it can from the tables; programs
\* and the payer stay static.  A lookup is a table and an index.
TryCompile(ixs, tables) ==
    LET programs == {ProgramOf(ixs[i]) : i \in DOMAIN ixs} \cup {ComputeProgram}
        others == UNION {KeysOf(ixs[i]) : i \in DOMAIN ixs} \ (programs \cup {Payer})
        Held(a) == {k \in DOMAIN tables : \E i \in DOMAIN tables[k] : tables[k][i] = a}
        loaded == {a \in others : Held(a) # {}}
    IN  [static |-> programs \cup {Payer} \cup (others \ loaded),
         lookups |-> {LET k == CHOOSE t \in Held(a) : TRUE
                      IN  [table |-> k, index |-> CHOOSE i \in DOMAIN tables[k] : tables[k][i] = a] : a \in loaded}]

Compile(ixs, legs, p, creates) ==
    LET m == TryCompile(ixs, LookupTables(legs, p.tip))
        accounts == Cardinality(m.static) + Cardinality(m.lookups)
        size == BytesPerKey * Cardinality(m.static) + BytesPerIndex * Cardinality(m.lookups) + BytesPerIx * Len(ixs)
    IN  [err |-> IF accounts > MaxTxAccounts THEN {"too many accounts"}
                 ELSE IF size > MaxTxBytes THEN {"too large"} ELSE {},
         ixs |-> ixs, msg |-> m, creates |-> creates]

\* All legs in one transaction.
ComposeSingle(legs, p) ==
    LET s == FoldLeft(LegInstructions, [ixs |-> <<>>, existing |-> p.existing, creates |-> {}], legs)
    IN  <<Compile(s.ixs \o TipIx(p), legs, p, s.creates)>>

\* A transaction for each, the tip in the last; what exists carries over.
ComposeBundle(legs, p) ==
    LET Next(b, i) ==
            LET s == LegInstructions([ixs |-> <<>>, existing |-> b.existing, creates |-> {}], legs[i])
                ixs == IF i = Len(legs) THEN s.ixs \o TipIx(p) ELSE s.ixs
            IN  [existing |-> s.existing, txs |-> Append(b.txs, Compile(ixs, <<legs[i]>>, p, s.creates))]
    IN  FoldLeft(Next, [existing |-> p.existing, txs |-> <<>>], [i \in DOMAIN legs |-> i]).txs

\* The accounts of a message, found again through the legs' own tables; the
\* last leg that names a table says what it holds.
MessageAccountKeys(msg, legs) ==
    LET Named(k) == {i \in DOMAIN legs : k \in DOMAIN legs[i].tables}
        Table(k) == legs[CHOOSE i \in Named(k) : \A j \in Named(k) : j <= i].tables[k]
        Known(l) == Named(l.table) # {} /\ l.index \in DOMAIN Table(l.table)
    IN  IF \A l \in msg.lookups : Known(l)
        THEN {msg.static \cup {Table(l.table)[l.index] : l \in msg.lookups}} ELSE {}

----------------------------------------------------------------------------
(* What a simulation shows; pre and post give every key's lamports *)

WsolAccounts(legs) ==
    UNION {UNION {(IF IsWsolCreate(ix) THEN AtaCreateTarget(ix) ELSE {}) \cup TokenCloseTarget(ix) :
                    ix \in Range(legs[i].setup \o legs[i].cleanup)} : i \in DOMAIN legs}

\* Native lamports and those of the wSOL accounts; nothing without the taker.
SolEquivalentDelta(keys, wsol, pre, post) ==
    IF Payer \notin keys \/ DOMAIN pre # keys THEN {}
    ELSE {LET own == keys \cap (wsol \cup {Payer})
          IN  FoldFunctionOnSet(+, 0, [k \in keys |-> post[k] - pre[k]], own)}

CreatedAccounts(keys, pre, post) == {k \in keys : pre[k] = 0 /\ post[k] > 0}

\* The first of these causes that the error or its log names.
Causes == <<"slippage", "funds", "blockhash", "account", "compute", "locks", "program">>
Classify(named) ==
    LET first == SelectInSeq(Causes, LAMBDA c : c \in named) IN IF first = 0 THEN "unknown" ELSE Causes[first]

\* The outputs the router returned, in order: its lines of the log only.
JupiterOutputs(logs) == LET own == SelectSeq(logs, LAMBDA l : l.router /\ l.decodes) IN [i \in DOMAIN own |-> own[i].amount]

TxSim(tx, sim, keys) ==
    [ok |-> sim.err = {}, class |-> IF sim.err = {} THEN {} ELSE {Classify(sim.err)},
     outputs |-> JupiterOutputs(sim.logs),
     created |-> IF sim.err = {} /\ keys # {} THEN UNION {CreatedAccounts(k, sim.pre, sim.post) : k \in keys} ELSE {}]
=============================================================================
