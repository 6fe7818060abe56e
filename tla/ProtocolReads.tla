---------------------------- MODULE ProtocolReads ----------------------------
(***************************************************************************)
(* One read of a wallet by the indexer, request by request.                *)
(*                                                                         *)
(*   apps/indexer                    the height, then adapter by adapter   *)
(*   packages/adapter-native-stacks  STX and tokens of the wallet          *)
(*   packages/adapter-bitpay         payment streams                       *)
(*   packages/adapter-zest-v2        collateral and debt                   *)
(*   packages/stacks                 the requests themselves               *)
(*                                                                         *)
(* Every request is answered from the block that is the tip by then, so    *)
(* that the report may be put together from several blocks.  The contracts *)
(* that are read are external: a ledger is what they say of this wallet.   *)
(* RefreshPipeline takes a read to be one step; this module says what that *)
(* leaves out.                                                             *)
(***************************************************************************)
EXTENDS Integers, Sequences

CONSTANTS
    StreamTotal,        \* sBTC of the wallet's payment stream
    IndexPrecision,     \* INDEX_PRECISION
    MaxAmount,          \* bound: STX, collateral shares and scaled debt
    MaxRate,            \* bound: worth of a share, and growth of the index
    MaxHeight           \* bound: blocks

ASSUME ReadsAssumption ==
    /\ StreamTotal \in Nat \ {0} /\ IndexPrecision \in Nat \ {0}
    /\ MaxAmount \in Nat \ {0} /\ MaxRate \in Nat \ {0} /\ MaxHeight \in Nat \ {0}

VARIABLES
    chain,      \* chain[h]: the ledger after block h
    role,       \* what the wallet is to the stream: sender, recipient, both ("self") or none
    v3,         \* the node serves the v3 balances
    stage,      \* what the read is waiting for: a stage, "done" or "failed"
    pending,    \* requests of the stage that have no answer yet
    seen,       \* the answers so far
    at          \* history: the block of each of them

readsVars == << chain, role, v3, stage, pending, seen, at >>

Tip == Len(chain)
Now == chain[Tip]

Requests == {"height", "stx", "tokens", "balances", "sent", "received", "stream",
             "vested", "position", "group", "assets", "index"}

StreamRoles == {"sender", "recipient", "self", "none"}

Has(q) == q \in DOMAIN seen
-----------------------------------------------------------------------------
(* The ledger (external).  Only "time" passes without naming the wallet.   *)
(* Blocks after the end of the read are left out.                          *)

Ledgers ==
    [stx : 0..MaxAmount, sbtc : 0..(2 * StreamTotal), shares : 0..MaxAmount, rate : 1..MaxRate,
     scaled : 0..MaxAmount, index : IndexPrecision..(IndexPrecision + MaxRate),
     withdrawn : 0..StreamTotal, vested : 0..StreamTotal, cancelled : BOOLEAN,
     cause : {"wallet", "time"}]

Mine(cause, ledger) ==
    /\ Tip < MaxHeight /\ pending # {}
    /\ [ledger EXCEPT !.cause = cause] \in Ledgers
    /\ chain' = Append(chain, [ledger EXCEPT !.cause = cause])
    /\ UNCHANGED << role, v3, stage, pending, seen, at >>

Deposit == Mine("wallet", [Now EXCEPT !.stx = @ - Now.rate, !.shares = @ + 1])
Redeem  == Mine("wallet", [Now EXCEPT !.stx = @ + Now.rate, !.shares = @ - 1])
Borrow  == Mine("wallet", [Now EXCEPT !.scaled = @ + 1])
Repay   == Mine("wallet", [Now EXCEPT !.scaled = @ - 1])
Accrue  == Mine("time", [Now EXCEPT !.rate = IF @ < MaxRate THEN @ + 1 ELSE @, !.index = @ + 1])
Vest    == Mine("time", [Now EXCEPT !.vested = @ + 1])

Receives == role \in {"recipient", "self"}
Sends == role \in {"sender", "self"}

ToRecipient(amount) == IF Receives THEN amount ELSE 0
ToSender(amount) == IF Sends THEN amount ELSE 0

Claim ==
    /\ ~Now.cancelled /\ Now.vested > Now.withdrawn
    /\ Mine("wallet", [Now EXCEPT !.withdrawn = Now.vested,
                                  !.sbtc = @ + ToRecipient(Now.vested - Now.withdrawn)])

Cancel ==
    /\ ~Now.cancelled
    /\ Mine("wallet", [Now EXCEPT !.cancelled = TRUE,
                                  !.sbtc = @ + ToRecipient(Now.vested - Now.withdrawn)
                                             + ToSender(StreamTotal - Now.vested)])

ReadsInit ==
    /\ \E stx, scaled \in 0..MaxAmount, shares \in 0..1, withdrawn \in {0, StreamTotal} :
          chain = << [stx |-> stx, sbtc |-> 0, shares |-> shares, rate |-> 1, scaled |-> scaled,
                      index |-> IndexPrecision, withdrawn |-> withdrawn, vested |-> withdrawn,
                      cancelled |-> FALSE, cause |-> "wallet"] >>
    /\ role \in StreamRoles
    /\ v3 \in BOOLEAN
    /\ stage = "height" /\ pending = {"height"}
    /\ seen = << >> /\ at = << >>
-----------------------------------------------------------------------------
(* Requests.                                                               *)

\* What a request is answered; a rejected lookup of the risk group is no failure.
\* convert-to-assets multiplies the shares read before by the worth of a share now.
Answers(q) ==
    CASE q = "height"   -> {Tip}
      [] q = "stx"      -> {Now.stx}
      [] q = "tokens"   -> {Now.sbtc}
      [] q = "balances" -> {[stx |-> Now.stx, sbtc |-> Now.sbtc]}
      [] q = "sent"     -> {Sends}
      [] q = "received" -> {Receives}
      [] q = "stream"   -> {[withdrawn |-> Now.withdrawn, cancelled |-> Now.cancelled]}
      [] q = "vested"   -> {Now.vested}
      [] q = "position" -> {[shares |-> Now.shares, scaled |-> Now.scaled]}
      [] q = "group"    -> BOOLEAN
      [] q = "assets"   -> {seen["position"].shares * Now.rate}
      [] q = "index"    -> {Now.index}

\* Requests of a stage are made at once, by Promise.all.
RequestsOf(s) ==
    CASE s = "wallet"  -> {"stx", "tokens"}
      [] s = "legacy"  -> {"balances"}
      [] s = "streams" -> {"sent", "received"}
      [] s = "stream"  -> {"stream", "vested"}
      [] s \in {"height", "position", "group", "assets", "index"} -> {s}
      [] OTHER          -> {}

\* Adapters one after the other, and what each asks for in view of the answers.
After(s, answers) ==
    CASE s = "height"   -> "wallet"
      [] s \in {"wallet", "legacy"} -> "streams"
      [] s = "streams"  -> IF answers["sent"] \/ answers["received"] THEN "stream" ELSE "position"
      [] s = "stream"   -> "position"
      [] s = "position" -> "group"
      [] s = "group"    -> IF answers["position"].shares > 0 THEN "assets"
                           ELSE IF answers["position"].scaled > 0 THEN "index" ELSE "done"
      [] s = "assets"   -> IF answers["position"].scaled > 0 THEN "index" ELSE "done"
      [] OTHER          -> "done"

Enter(s) == stage' = s /\ pending' = RequestsOf(s)

With(f, q, x) == [r \in DOMAIN f \cup {q} |-> IF r = q THEN x ELSE f[r]]

Answered(q) ==
    /\ q \in pending
    /\ q \in {"stx", "tokens"} => v3
    /\ \E answer \in Answers(q) : seen' = With(seen, q, answer)
    /\ at' = With(at, q, Tip)
    /\ IF pending = {q} THEN Enter(After(stage, seen'))
       ELSE pending' = pending \ {q} /\ UNCHANGED stage
    /\ UNCHANGED << chain, role, v3 >>

\* A 404 of the v3 balances sends the read to the older endpoint.
FallBack ==
    /\ stage = "wallet" /\ ~v3
    /\ Enter("legacy")
    /\ UNCHANGED << chain, role, v3, seen, at >>

\* Any other failure is thrown, and fails the attempt of the index job.
RequestFails ==
    /\ pending # {}
    /\ Enter("failed")
    /\ UNCHANGED << chain, role, v3, seen, at >>
-----------------------------------------------------------------------------
(* The report.                                                             *)

Asset(asset, kind, amount) ==
    IF amount > 0 THEN {[asset |-> asset, role |-> kind, amount |-> amount]} ELSE {}

\* NativeStacksAdapter: balances of zero are left out.
WalletAssets(stx, sbtc) == Asset("STX", "asset", stx) \cup Asset("sBTC", "asset", sbtc)

\* Mutant: who sends to himself counts as a sender.
Relationship_SenderFirst == IF Sends THEN "sender" ELSE "recipient"

\* BitPayAdapter: a recipient owns what is outstanding; a sender's stream is a commitment.
Relationship == IF Receives THEN "recipient" ELSE "sender"

Outstanding == StreamTotal - seen["stream"].withdrawn

StreamCounts == Has("stream") /\ ~seen["stream"].cancelled /\ Outstanding > 0
                  /\ Relationship = "recipient"

StreamAssets == IF StreamCounts THEN Asset("sBTC", "locked", Outstanding) ELSE {}

Withdrawable ==
    IF seen["vested"] > seen["stream"].withdrawn THEN seen["vested"] - seen["stream"].withdrawn ELSE 0

\* The part of the stream its recipient can take out now.
LiquidBps == IF StreamCounts THEN (Withdrawable * 10000) \div Outstanding ELSE 0

\* Mutant: a fraction of debt is dropped.
ActualDebt_Down(scaled, index) == (scaled * index) \div IndexPrecision

\* getActualDebt rounds up.
ActualDebt(scaled, index) == (scaled * index + IndexPrecision - 1) \div IndexPrecision

\* ZestV2Adapter.
LendingAssets(amount, debt) == Asset("STX", "collateral", amount) \cup Asset("USDC", "debt", debt)

Balances == IF v3 THEN [stx |-> seen["stx"], sbtc |-> seen["tokens"]] ELSE seen["balances"]

Report ==
    UNION {WalletAssets(Balances.stx, Balances.sbtc), StreamAssets,
           LendingAssets(IF Has("assets") THEN seen["assets"] ELSE 0,
                         IF Has("index") THEN ActualDebt(seen["position"].scaled, seen["index"])
                         ELSE 0)}

Chain == Deposit \/ Redeem \/ Borrow \/ Repay \/ Accrue \/ Vest \/ Claim \/ Cancel

ReadsNext == Chain \/ (\E q \in Requests : Answered(q)) \/ FallBack \/ RequestFails

ReadsSpec == ReadsInit /\ [][ReadsNext]_readsVars
-----------------------------------------------------------------------------
(* Properties.                                                             *)

Amount(asset, kind) ==
    LET found == {a \in Report : a.asset = asset /\ a.role = kind}
    IN  IF found = {} THEN 0 ELSE (CHOOSE a \in found : TRUE).amount

\* A read waits for requests of its stage, knows the answers of those before, and what
\* it reports of a stream's liquidity is a share.
ReadsTypeOK ==
    /\ chain \in Seq(Ledgers) /\ role \in StreamRoles /\ v3 \in BOOLEAN
    /\ pending \subseteq RequestsOf(stage)
    /\ DOMAIN seen \subseteq Requests \ pending
    /\ at \in [DOMAIN seen -> 1..Tip]
    /\ stage = "done" => LiquidBps \in 0..10000

\* adapter-core's source.exact.  However late its requests are answered, the report of a
\* wallet that no block after its label has touched is what the wallet owns in the
\* labelled block, with shares and debt at the worth they had when they were asked for.
\* It is this that makes a report that mixes blocks harmless: one that is wrong was
\* overtaken by a block that names the wallet and has it read again.
UntouchedWalletIsExact ==
    LET label  == seen["height"]
        ledger == chain[label]
        debt   == Amount("USDC", "debt")
        owed   == ledger.scaled * chain[at["index"]].index
    IN  stage = "done" /\ (\A h \in (label + 1)..Tip : chain[h].cause = "time") =>
            /\ Amount("STX", "asset") = ledger.stx
            /\ Amount("sBTC", "asset") = ledger.sbtc
            /\ Amount("sBTC", "locked") =
                  IF Receives /\ ~ledger.cancelled THEN StreamTotal - ledger.withdrawn ELSE 0
            /\ Amount("STX", "collateral") =
                  IF ledger.shares = 0 THEN 0 ELSE ledger.shares * chain[at["assets"]].rate
            /\ IF ledger.scaled = 0 THEN debt = 0
               ELSE /\ debt * IndexPrecision >= owed
                    /\ (debt - 1) * IndexPrecision < owed

\* zest-v2's "scaled-debt-normalized-with-next-borrow-index".  The debt reported covers
\* what the position owed when it was read, though the index is asked for later.
DebtIsNeverUnderstated ==
    stage = "done" =>
        LET ledger == chain[at["position"]]
        IN  Amount("USDC", "debt") * IndexPrecision >= ledger.scaled * ledger.index
=============================================================================
