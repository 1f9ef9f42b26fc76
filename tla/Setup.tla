------------------------------- MODULE Setup --------------------------------
(***************************************************************************)
(* How the settings get onto the disk: setup.rs (the wizard, --setup       *)
(* --yes), migrate.rs (--migrate-config), thresholds_file.rs (a threshold  *)
(* saved by a running program), envfile.rs (the secrets a start reads) and *)
(* execution/src/wallet.rs (key files).                                    *)
(*                                                                         *)
(* One setup runs at a time; a program may run beside it and save          *)
(* thresholds.  A prompt is answered in any way or left with Esc; what it  *)
(* looks like, the connection test's result and the texts are left out.    *)
(***************************************************************************)
EXTENDS Settings

CONSTANTS
    Repos,      \* shared files the checkout may have
    Users,      \* user files there may be at first
    Envs,       \* .env files there may be at first: values of a secret, line by line
    MaxSetups,  \* bound of the setups run
    MaxSaves,   \* bound of the thresholds saved
    MaxEdits    \* bound of the parts changed in one setup

VARIABLES
    repo,     \* the shared file
    disk,     \* [user, baks, env, dotenv, keys, marker]
    p,        \* the setup that runs
    running,  \* configurations of the programs running (none or one)
    saves,    \* how many thresholds were saved
    hist      \* history: [unlocked, versions, broken, want]

vars == <<repo, disk, p, running, saves, hist>>

NewPaths == <<"n1", "n2", "n3">>
NewPubs == <<"g1", "g2", "g3">>

Idle == [at |-> "idle", path |-> None, cfg |-> Default, start |-> Default, current |-> <<None, None>>,
         pending |-> {}, secret |-> "keep", created |-> None, file |-> NoFile, before |-> {},
         edits |-> 0, made |-> 0, n |-> 0]

Init ==
    /\ repo \in Repos /\ p = Idle /\ running = {} /\ saves = 0
    /\ \E u \in Users, e \in Envs, d \in {<<>>, <<"d">>} :
          LET made == "key" \in DOMAIN Lift(u) /\ Lift(u)["key"] = "n1" \* a wallet of an earlier setup
          IN  /\ Loads(repo, u)
              /\ disk = [user |-> u, baks |-> {}, env |-> e, dotenv |-> d, marker |-> FALSE,
                         keys |-> IF made THEN "k0" :> "own" @@ "n1" :> "g1" ELSE "k0" :> "own"]
    /\ hist = [unlocked |-> {Effective(repo, disk.user).mode}, versions |-> {disk.user}, broken |-> FALSE,
               want |-> "keep"]

Go(to) == p' = [p EXCEPT !.at = to]
OnlyP == UNCHANGED <<repo, disk, running, saves, hist>>
With(c, to) == p' = [p EXCEPT !.at = to, !.cfg = c] /\ OnlyP

----------------------------------------------------------------------------
(* The beginning *)

Wallet(c) == <<c.pub, c.key>>
Begun(at, path) ==
    [Idle EXCEPT !.at = at, !.path = path, !.n = p.n + 1,
                 !.cfg = Effective(repo, disk.user), !.start = Effective(repo, disk.user),
                 !.current = Wallet(Effective(repo, disk.user)),
                 !.before = {[user |-> disk.user, env |-> disk.env, keys |-> disk.keys]}]

\* --setup, or the first start of all: neither marker nor configuration.
Launch ==
    /\ p.at = "idle" /\ p.n < MaxSetups /\ OnlyP
    /\ p' = IF ~Loads(repo, disk.user) THEN Begun("refused", "wizard")
            ELSE IF disk.user = NoFile THEN Begun("goal", "wizard") ELSE Begun("menu", "wizard")

Menu ==
    /\ p.at = "menu" /\ OnlyP
    /\ p' \in {[p EXCEPT !.at = "refused"], [p EXCEPT !.at = "hub", !.path = "hub"],
               [p EXCEPT !.at = "goal", !.cfg = Below(repo)]}

\* first_use
Goal ==
    /\ p.at = "goal" /\ OnlyP
    /\ \/ p' = [p EXCEPT !.at = "wallet", !.path = "research", !.cfg.mode = "paper", !.cfg.live = FALSE]
       \/ p' = [p EXCEPT !.at = "wallet", !.path = "assisted", !.cfg.mode = "confirm", !.cfg.live = FALSE]
       \/ p' = [p EXCEPT !.at = "profile", !.path = "advanced", !.cfg.scope = "std", !.cfg.size = "std", !.cfg.loss = 2]

\* configure_profile
LockToPaper(c) == [c EXCEPT !.mode = "paper", !.live = FALSE, !.key = None]
Profile ==
    /\ p.at = "profile"
    /\ \E m \in Modes : With(IF m = "paper" THEN LockToPaper(p.cfg)
                             ELSE [p.cfg EXCEPT !.mode = m, !.live = FALSE, !.taker = None], "wallet")

----------------------------------------------------------------------------
(* The wallet *)

\* next_wallet_path: the first name that is free now.
NextWalletPath == NewPaths[CHOOSE i \in 1..3 : NewPaths[i] \notin DOMAIN disk.keys
                                               /\ \A j \in 1..(i - 1) : NewPaths[j] \in DOMAIN disk.keys]

Using(w, pend) == [p EXCEPT !.cfg.pub = w[1], !.cfg.key = w[2], !.pending = pend]

\* Mutant of Generated: a wallet that waits to be written is not replaced.
GeneratedOnce(path, pub) == IF p.pending = {} THEN {<<path, pub>>} ELSE p.pending

Generated(path, pub) == {<<path, pub>>}

\* configure_wallet: keep, create, a key file, an address to watch, none.
WalletChoices(signer) ==
    LET pub == NewPubs[Cardinality({k \in DOMAIN disk.keys : k # "k0"}) + p.made + 1]
    IN  (IF p.current[1] # None /\ (signer => p.current[2] # None) THEN {Using(p.current, p.pending)} ELSE {})
        \cup (IF p.made > 1 \/ Cardinality(DOMAIN disk.keys) + p.made > 3 THEN {}
              ELSE {[Using(<<pub, NextWalletPath>>, Generated(NextWalletPath, pub)) EXCEPT !.made = @ + 1]})
        \cup {Using(<<disk.keys[k], k>>, {}) : k \in DOMAIN disk.keys}
        \cup (IF signer THEN {} ELSE {Using(<<"seen", None>>, {}), Using(<<None, None>>, {})})

AfterWallet == CASE p.path \in {"research", "assisted"} -> "network"
                 [] p.path = "advanced" -> IF Sends(p.cfg.mode) THEN "phrase" ELSE "network"
                 [] p.path = "hub" -> "hub"
                 [] p.path = "hubmode" -> "phrase"

ChooseWallet ==
    /\ p.at = "wallet" /\ OnlyP
    /\ \E q \in WalletChoices(Sends(p.cfg.mode)) : p' = [q EXCEPT !.at = AfterWallet]

----------------------------------------------------------------------------
(* The other answers *)

\* unlock_transaction_mode: the exact phrase for the mode, and a key.
Unlock ==
    /\ p.at = "phrase" /\ p.cfg.key # None
    /\ p' = [p EXCEPT !.cfg.live = TRUE, !.cfg.taker = IF p.path = "assisted" THEN @ ELSE None,
                      !.path = IF @ = "hubmode" THEN "hub" ELSE @,
                      !.at = CASE p.path \in {"hub", "hubmode"} -> "hub" [] p.path = "advanced" -> "network"
                               [] OTHER -> "review"]
    /\ hist' = [hist EXCEPT !.unlocked = @ \cup {p.cfg.mode}]
    /\ UNCHANGED <<repo, disk, running, saves>>

\* configure_credentials and network_check: a secret is kept, cleared or typed.
Network ==
    /\ p.at = "network" /\ OnlyP
    /\ \E s \in {p.secret, "clear", "typed"} :
          p' = [p EXCEPT !.secret = s, !.at = CASE p.path = "hub" -> "hub" [] p.path = "advanced" -> "tune"
                                                [] OTHER -> "scope"]

ApplyStrategyScope(c, s) == [c EXCEPT !.scope = s]
ApplySafetyPolicy(c, s) == [c EXCEPT !.size = s, !.loss = IF s = "std" THEN 2 ELSE 5]

Scope == /\ p.at = "scope"
         /\ \E s \in {"std", "all"} : With(ApplyStrategyScope(p.cfg, s), IF p.path = "hub" THEN "hub" ELSE "policy")
Policy == /\ p.at = "policy"
          /\ \E s \in {"std", "more"} :
                With(ApplySafetyPolicy(p.cfg, s),
                     CASE p.path = "hub" -> "hub" [] p.path = "assisted" -> "allow" [] OTHER -> "review")

\* Assisted trading: unlock, or stay in PAPER for now.
Allow == /\ p.at = "allow"
         /\ \/ With(p.cfg, "phrase")
            \/ With([p.cfg EXCEPT !.mode = "paper", !.live = FALSE], "review")

\* configure_profit, _risk, _jito: numbers are taken as typed.
Tuned(c) == {[c EXCEPT !.tune = t] : t \in {"own", "bad"}}
ConfigureFeeds(c) == {[c EXCEPT !.feeds = f, !.event = e /\ f] : f, e \in BOOLEAN}
Tune == /\ p.at = "tune"
        /\ \E c \in {p.cfg} \cup Tuned(p.cfg) \cup ConfigureFeeds(p.cfg) :
              With(c, IF p.path = "hub" THEN "hub" ELSE "review")

----------------------------------------------------------------------------
(* Changing some settings *)

Changed == p.cfg # p.start \/ p.pending # {} \/ p.secret # "keep"

\* edit_sections: pick a part.
Hub ==
    /\ p.at = "hub" /\ OnlyP
    /\ \/ p' = [p EXCEPT !.at = IF Changed THEN "review" ELSE "refused"]
       \/ /\ p.edits < MaxEdits
          /\ \E part \in {"wallet", "network", "scope", "policy", "mode", "tune"} :
                p' = [p EXCEPT !.at = part, !.edits = @ + 1, !.current = Wallet(p.cfg)]

\* Mutant of Asks: who may send already is not asked again.
AsksOnce(m) == ~p.cfg.live

\* A mode that sends is asked for by its phrase, whatever was unlocked before.
Asks(m) == TRUE

\* edit_mode
Mode ==
    /\ p.at = "mode" /\ OnlyP
    /\ \E m \in Modes :
          IF m = p.cfg.mode THEN p' = [p EXCEPT !.at = "hub"]
          ELSE IF m = "paper" THEN p' = [p EXCEPT !.at = "hub", !.cfg.mode = m, !.cfg.live = FALSE]
          ELSE IF p.cfg.key = None
               THEN p' = [p EXCEPT !.at = "wallet", !.path = "hubmode", !.cfg.mode = m, !.current = <<None, None>>]
          ELSE p' = [p EXCEPT !.at = IF Asks(m) THEN "phrase" ELSE "hub", !.cfg.mode = m]

Prompts == {"menu", "goal", "profile", "wallet", "phrase", "network", "scope", "policy", "allow", "tune",
            "hub", "mode", "review", "moved"}
Cancel == p.at \in Prompts /\ Go("refused") /\ OnlyP

\* validate, the review, the answer.
Review ==
    /\ p.at = "review" /\ OnlyP
    /\ p' \in IF Valid(p.cfg) THEN {[p EXCEPT !.at = "save"], [p EXCEPT !.at = "refused"]}
              ELSE {[p EXCEPT !.at = "refused"]}

\* run_unattended: the flags are the answers.
Yes ==
    /\ p.at = "idle" /\ p.n < MaxSetups /\ OnlyP
    /\ \E keep \in BOOLEAN, s \in {"std", "more"} :
        LET q == Begun("yes", "yes")
            first == disk.user = NoFile
            c == IF first THEN [q.cfg EXCEPT !.mode = "paper", !.live = FALSE] ELSE q.cfg
        IN  IF ~Loads(repo, disk.user) THEN p' = [q EXCEPT !.at = "refused"]
            ELSE p' = [q EXCEPT !.at = "flags", !.path = IF keep THEN "yeskeep" ELSE "yes",
                                !.cfg = IF keep /\ ~first THEN c ELSE ApplySafetyPolicy(c, s)]
Flags ==
    /\ p.at = "flags" /\ OnlyP
    /\ \E q \in {p} \cup WalletChoices(Sends(p.cfg.mode)) :
          p' = [q EXCEPT !.at = IF ~Valid(q.cfg) \/ (disk.user # NoFile /\ q.cfg = p.start /\ q.pending = {})
                                THEN "refused" ELSE "save"]

----------------------------------------------------------------------------
(* Saving *)

\* persist_pending_wallet, write_new: never over a file that is there.
SaveWallet ==
    /\ p.at = "save"
    /\ IF \E w \in p.pending : w[1] \in DOMAIN disk.keys
       THEN Go("refused") /\ UNCHANGED disk
       ELSE /\ p' = [p EXCEPT !.at = "write", !.created = IF p.pending = {} THEN None ELSE (CHOOSE w \in p.pending : TRUE)[1]]
            /\ disk' = [disk EXCEPT !.keys = [k \in {w[1] : w \in p.pending} |-> (CHOOSE w \in p.pending : TRUE)[2]] @@ @]
    /\ UNCHANGED <<repo, running, saves, hist>>

\* Mutant of Backup: one backup is enough.
BackupOnce(f) == IF disk.baks = {} /\ f # NoFile THEN {f} ELSE disk.baks

Backup(f) == disk.baks \cup (IF f = NoFile THEN {} ELSE {f})

\* Mutant of Removed: what was created stays when the rest fails.
RemovedNot == disk.keys

Removed == Restrict(disk.keys, DOMAIN disk.keys \ {p.created})

\* write_config up to the rename, or an error before it.
WriteConfig ==
    /\ p.at = "write"
    /\ disk' = [disk EXCEPT !.baks = Backup(disk.user), !.user = File(UserDelta(Below(repo), p.cfg), <<>>)]
    /\ p' = [p EXCEPT !.at = "reload", !.file = disk.user]
    /\ UNCHANGED <<repo, running, saves, hist>>
WriteFails ==
    /\ p.at = "write" /\ Go("refused") /\ disk' = [disk EXCEPT !.keys = Removed]
    /\ UNCHANGED <<repo, running, saves, hist>>

\* Mutant of Same: what was written is not read again.
SameAlways == TRUE

Same == Loads(repo, disk.user) /\ Effective(repo, disk.user) = p.cfg

Reload ==
    /\ p.at = "reload" /\ Go(IF Same THEN "env" ELSE "restore")
    /\ hist' = IF Same THEN [hist EXCEPT !.versions = @ \cup {disk.user}] ELSE hist
    /\ UNCHANGED <<repo, disk, running, saves>>

\* The previous file is put back, then the new key goes.
Restore ==
    /\ p.at = "restore" /\ Go("refused")
    /\ disk' = [disk EXCEPT !.user = p.file, !.keys = Removed]
    /\ UNCHANGED <<repo, running, saves, hist>>

\* Mutant of SetEnvLine: the line is added at the end.
AppendEnvLine(lines, v) == IF v = "clear" THEN <<>> ELSE Append(lines, v)

\* set_env_line: the first line of the key is replaced, others of it go.
SetEnvLine(lines, v) == IF v = "clear" THEN <<>> ELSE <<v>>

\* Secrets, marker; an error here is reported, and the settings stay saved.
WriteEnv ==
    /\ p.at = "env"
    /\ \/ /\ Go("marker")
          /\ disk' = IF p.secret = "keep" THEN disk ELSE [disk EXCEPT !.env = SetEnvLine(@, p.secret)]
          /\ hist' = IF p.secret = "keep" THEN hist ELSE [hist EXCEPT !.want = p.secret]
       \/ Go("saved") /\ p.secret # "keep" /\ UNCHANGED <<disk, hist>>
    /\ UNCHANGED <<repo, running, saves>>
WriteMarker ==
    /\ p.at = "marker" /\ Go("saved") /\ disk' \in {disk, [disk EXCEPT !.marker = TRUE]}
    /\ UNCHANGED <<repo, running, saves, hist>>

Leave == p.at \in {"refused", "saved"} /\ p' = [Idle EXCEPT !.n = p.n] /\ OnlyP

\* The process dies; fs::copy may have written half of the file.
Crash ==
    /\ p.at \in {"save", "write", "reload", "restore", "env", "marker"}
    /\ p' = [Idle EXCEPT !.n = p.n]
    /\ disk' \in IF p.at = "restore" THEN {disk, [disk EXCEPT !.user = Torn]} ELSE {disk}
    /\ hist' = [hist EXCEPT !.broken = @ \/ p.at \in {"reload", "restore"}]
    /\ UNCHANGED <<repo, running, saves>>

----------------------------------------------------------------------------
(* --migrate-config *)

\* The text is planned, checked and shown; it is written after the answer.
MigratePlan ==
    /\ p.at = "idle" /\ p.n < MaxSetups /\ OnlyP
    /\ LET f == disk.user new == Plan(f)
           fine == f.text = "toml" /\ ~PlanFails(f) /\ Moved(f) # {} /\ Loads(repo, f) /\ Loads(repo, new)
                   /\ Effective(repo, f) = Effective(repo, new)
       IN  p' = [Begun(IF fine THEN "moved" ELSE "refused", "migrate") EXCEPT !.file = new]
MigrateWrite ==
    /\ p.at = "moved" /\ Go("saved")
    /\ disk' = [disk EXCEPT !.baks = Backup(disk.user), !.user = p.file]
    /\ hist' = [hist EXCEPT !.versions = @ \cup {p.file}]
    /\ UNCHANGED <<repo, running, saves>>

----------------------------------------------------------------------------
(* The running program *)

\* Wallet::load with the configured address.
SignerLoads(c) == Sends(c.mode) => c.key \in DOMAIN disk.keys /\ (c.pub # None => disk.keys[c.key] = c.pub)

\* envfile::load of the user's .env, then ./.env: the first line found wins.
Secret == IF disk.env \o disk.dotenv = <<>> THEN None ELSE Head(disk.env \o disk.dotenv)

\* Start, with --mode or without.
Start ==
    /\ running = {} /\ Loads(repo, disk.user)
    /\ \E m \in Modes \cup {Effective(repo, disk.user).mode} :
          LET c == [Effective(repo, disk.user) EXCEPT !.mode = m]
          IN  Valid(c) /\ SignerLoads(c) /\ running' = {c}
    /\ UNCHANGED <<repo, disk, p, saves, hist>>

\* Mutant of Accepted: a threshold is not validated with the rest.
AcceptedAll(c, change) == TRUE

Accepted(c, change) == Applies(c, change)

\* set_thresholds: applied, then saved if the file can be read.
SaveThreshold ==
    \E c \in running, change \in Changes :
        /\ saves < MaxSaves /\ saves' = saves + 1
        /\ Accepted(c, change) /\ running' = {Apply(c, change)}
        /\ LET new == ThresholdsWritten(disk.user, change)
           IN  IF disk.user.text = "torn" THEN UNCHANGED <<disk, hist, p>>
               ELSE /\ disk' = [disk EXCEPT !.user = new, !.baks = Backup(disk.user)]
                    /\ hist' = IF p.at \in {"reload", "restore"} THEN hist
                               ELSE [hist EXCEPT !.versions = @ \cup {new}]
                    /\ p' = [p EXCEPT !.before = {[b EXCEPT !.user = new] : b \in @}]
        /\ UNCHANGED repo

Next ==
    \/ Launch \/ Menu \/ Goal \/ Profile \/ ChooseWallet \/ Unlock \/ Network \/ Scope \/ Policy \/ Allow \/ Tune
    \/ Hub \/ Mode \/ Cancel \/ Review \/ Yes \/ Flags
    \/ SaveWallet \/ WriteConfig \/ WriteFails \/ Reload \/ Restore \/ WriteEnv \/ WriteMarker \/ Leave \/ Crash
    \/ MigratePlan \/ MigrateWrite \/ Start \/ SaveThreshold

Spec == Init /\ [][Next]_vars

----------------------------------------------------------------------------
(* Properties *)

\* Settled: no save is under way, none died before it was checked.
Settled == p.at \notin {"reload", "restore"} /\ ~hist.broken

\* Settings that send transactions were unlocked for that very mode: by its
\* phrase, or by hand before (unlock_transaction_mode and the ways to it).
SendingWasUnlocked ==
    Loads(repo, disk.user) =>
        LET c == Effective(repo, disk.user) IN Sends(c.mode) => c.mode \in hist.unlocked

\* A key file that the settings name and setup made is there and is the key
\* of their address, through failures and crashes of the save
\* (persist_pending_wallet, write_config, the removal after an error).
KeyIsThere ==
    Settled /\ Loads(repo, disk.user) =>
        LET c == Effective(repo, disk.user)
        IN  c.key # None => c.key \in DOMAIN disk.keys /\ disk.keys[c.key] = c.pub

\* What is saved loads back as what was reviewed (write_config), as long as
\* nothing else was saved since.
SavedIsReviewed ==
    p.at \in {"env", "marker"} /\ p.path # "migrate" /\ disk.user.sol = <<>>
        /\ disk.user.top = UserDelta(Below(repo), p.cfg) =>
        Loads(repo, disk.user) /\ Effective(repo, disk.user) = p.cfg

\* A setup that was left, declined or refused leaves every file as it was
\* (run's "Nothing is written until you confirm", run_unattended's "Errors
\* leave every file as it was"), and takes nothing saved meanwhile with it.
RefusalLeavesNoTrace ==
    p.at = "refused" => \A b \in p.before : b.env = disk.env /\ b.keys = disk.keys
                                            /\ (b.user = disk.user \/ b.user \notin hist.versions)

\* Every file that was the user's settings is still that or a backup
\* (backup of setup.rs, migrate.rs and thresholds_file.rs).
VersionsAreKept == (hist.versions \ {NoFile}) \subseteq disk.baks \cup {disk.user}

\* The program starts again after whatever setup, migration and operator
\* wrote: thresholds_file.rs: "the result must load back to the same values".
StillLoads == Settled => Loads(repo, disk.user)

\* A secret that was typed is the one the next start reads (write_env,
\* envfile::load).
TypedSecretIsUsed == hist.want = "typed" => Secret = "typed"

\* The files on the disk are safe to start from, whatever setup, migration and
\* the running program wrote, refused or died in (setup.rs, migrate.rs,
\* thresholds_file.rs, envfile.rs).
SettingsAreSafe ==
    /\ SendingWasUnlocked /\ KeyIsThere /\ SavedIsReviewed /\ RefusalLeavesNoTrace
    /\ VersionsAreKept /\ StillLoads /\ TypedSecretIsUsed
=============================================================================
