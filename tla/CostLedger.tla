----------------------------- MODULE CostLedger -----------------------------
(***************************************************************************)
(* What a review costs: the router and the provider (ar-llm) answer its    *)
(* calls, a collector of its own logs the tokens, review_pull_request adds *)
(* them up by tier and prices them, and the review history keeps the sum   *)
(* (ar-review/src/pipeline.rs, ar-orchestrator/src/*history.rs).           *)
(*                                                                         *)
(* Reviews of several pull requests run side by side through clones of one *)
(* router.  Prices are whole numbers per token here; f64 is not modelled.  *)
(***************************************************************************)
EXTENDS Naturals, Sequences, FiniteSets, SequencesExt

CONSTANTS
    Reviews,
    PrOf,           \* PrOf[r]: the pull request of review r
    Provided,       \* tiers with a provider
    ModelOf,        \* ModelOf[t]: [url, model] of the provider of tier t
    DefaultPrices,  \* the built-in table: [url, model] -> [input, output]
    Overrides,      \* the file of AR_PRICE_TABLE_PATH
    Amounts,        \* token counts <<input, output>> an answer may report
    U32Max,         \* the largest u32
    MaxCalls        \* bound: calls of one review

Tiers == {"reasoning", "cheap", "embedding"}

ASSUME CostAssumption ==
    /\ Provided \subseteq Tiers
    /\ Provided \subseteq DOMAIN ModelOf
    /\ \A prices \in {DefaultPrices, Overrides} : \A key \in DOMAIN prices :
          prices[key] \in [input : Nat, output : Nat]
    /\ U32Max \in Nat
    /\ Reviews \cap {"none", "migrated"} = {}
    /\ Amounts \subseteq (0..U32Max) \X (0..U32Max)

VARIABLES
    spend,      \* spend[r]: the review's place, call, log and total
    invoice,    \* external, invoice[r]: what the providers answered to r
    rows,       \* the review history: one row for a pull request, or none
    backend     \* which history was opened

costVars == <<spend, invoice, rows, backend>>

NoSpend == [pc |-> "idle", tier |-> "none", calls |-> 0, log |-> <<>>, total |-> 0,
            table |-> "none"]
NoRow == [by |-> "none", cost |-> 0]

Spend(r, s) == spend' = [spend EXCEPT ![r] = s]

(* What a failed call means is up to the caller: the verifier and the      *)
(* metadata check go on without it, the reasoning call fails the review.   *)
Survive(r) == \E pc \in {"running", "failed"} :
                  Spend(r, [spend[r] EXCEPT !.pc = pc, !.tier = "none"])

StartReview(r) ==
    /\ spend[r].pc = "idle"
    /\ Spend(r, [NoSpend EXCEPT !.pc = "running"])
    /\ UNCHANGED <<invoice, rows, backend>>

(* Router::complete and Router::embed: the provider of the tier, if any. *)
RouterComplete(r) ==
    /\ spend[r].pc = "running" /\ spend[r].calls < MaxCalls
    /\ \E t \in Tiers :
          IF t \in Provided
          THEN Spend(r, [spend[r] EXCEPT !.pc = "asking", !.tier = t, !.calls = @ + 1])
          ELSE Survive(r)
    /\ UNCHANGED <<invoice, rows, backend>>

Entry(r, amount, read) ==
    [tier |-> spend[r].tier, in |-> amount[1], out |-> amount[2], read |-> read]
Answered(r, entry) == invoice' = [invoice EXCEPT ![r] = Append(@, entry)]

(* Mutant: the collector is put on the shared router. *)
CollectEverywhere(r, entry) ==
    [q \in Reviews |->
        LET s == IF q = r THEN [spend[q] EXCEPT !.pc = "running", !.tier = "none"]
                 ELSE spend[q]
        IN  IF s.pc # "idle" THEN [s EXCEPT !.log = Append(@, entry)] ELSE s]

(* with_usage_collector on a clone of the router.  The embeddings for the  *)
(* context are asked for before that, through the router itself.           *)
Collect(r, entry) ==
    LET log == spend[r].log
    IN  [spend EXCEPT ![r] = [spend[r] EXCEPT !.pc = "running", !.tier = "none",
            !.log = IF entry.tier = "embedding" THEN log ELSE Append(log, entry)]]

(* OpenAiProvider: a success with its usage, zero when the answer has none. *)
ProviderAnswers(r) ==
    /\ spend[r].pc = "asking"
    /\ \E amount \in Amounts :
          /\ Answered(r, Entry(r, amount, TRUE))
          /\ spend' = Collect(r, Entry(r, amount, TRUE))
    /\ UNCHANGED <<rows, backend>>

(* A body that is no JSON of the expected shape: answered and not read. *)
ProviderUnreadable(r) ==
    /\ spend[r].pc = "asking"
    /\ \E amount \in Amounts : Answered(r, Entry(r, amount, FALSE))
    /\ Survive(r)
    /\ UNCHANGED <<rows, backend>>

(* The request fails, or the status is not a success. *)
ProviderFails(r) ==
    /\ spend[r].pc = "asking"
    /\ Survive(r)
    /\ UNCHANGED <<invoice, rows, backend>>

-----------------------------------------------------------------------------
SaturatingAdd(a, b) == IF a + b > U32Max THEN U32Max ELSE a + b

Nothing == [in |-> 0, out |-> 0]
Added(sum, e) == [in |-> SaturatingAdd(sum.in, e.in), out |-> SaturatingAdd(sum.out, e.out)]

(* One entry for each tier, since a tier has one provider and one model. *)
Aggregated(log, tier) ==
    LET sum[i \in 0..Len(log)] ==
            IF i = 0 THEN Nothing
            ELSE IF log[i].tier = tier THEN Added(sum[i - 1], log[i]) ELSE sum[i - 1]
    IN  sum[Len(log)]

(* load_openai_price_table: the file's entries over the built-in ones; a   *)
(* file that cannot be read or parsed leaves those.                        *)
PriceTable(file) ==
    IF file = "overrides"
    THEN [key \in DOMAIN Overrides \cup DOMAIN DefaultPrices |->
             IF key \in DOMAIN Overrides THEN Overrides[key] ELSE DefaultPrices[key]]
    ELSE DefaultPrices

(* price_key first, then the model by itself, under no URL; a model        *)
(* without a price is left out of the sum.                                 *)
EstimateUsageUsd(prices, tier, used) ==
    LET own == ModelOf[tier]
        bare == [own EXCEPT !.url = "none"]
        key == IF own \in DOMAIN prices THEN own ELSE bare
    IN  IF key \notin DOMAIN prices THEN 0
        ELSE used.in * prices[key].input + used.out * prices[key].output

(* append_llm_usage_cost_footer: the total is the same when the footer is  *)
(* suppressed.                                                             *)
TotalCost(log, file) ==
    LET cost(tier) == IF tier \in Provided
                      THEN EstimateUsageUsd(PriceTable(file), tier, Aggregated(log, tier))
                      ELSE 0
    IN  cost("reasoning") + cost("cheap") + cost("embedding")

(* The review is made up and posted, or the post fails.  The price table   *)
(* is read anew each time.                                                 *)
PostWithFooter(r) ==
    /\ spend[r].pc = "running"
    /\ \/ \E file \in {"unreadable", "overrides"} :
             Spend(r, [spend[r] EXCEPT !.pc = "record", !.table = file, !.log = <<>>,
                          !.total = TotalCost(spend[r].log, file)])
       \/ Spend(r, [spend[r] EXCEPT !.pc = "failed", !.log = <<>>])
    /\ UNCHANGED <<invoice, rows, backend>>

(* record_with_cost: the row of the pull request is replaced; the history  *)
(* in memory has no place for the cost.  An error of the store is logged.  *)
RecordWithCost(r) ==
    /\ spend[r].pc = "record"
    /\ Spend(r, [spend[r] EXCEPT !.pc = "done"])
    /\ \/ rows' = [rows EXCEPT ![PrOf[r]] =
             [by |-> r, cost |-> IF backend = "memory" THEN 0 ELSE spend[r].total]]
       \/ backend # "memory" /\ UNCHANGED rows
    /\ UNCHANGED <<invoice, backend>>

(* reset-pr and purge-history of the command line open the SQLite file. *)
ClearRow(p) ==
    /\ backend = "sqlite" /\ rows[p] # NoRow
    /\ rows' = [rows EXCEPT ![p] = NoRow]
    /\ UNCHANGED <<spend, invoice, backend>>

(* SqliteReviewHistory::open adds the cost column to an older table, where *)
(* the rows get a default cost.                                            *)
OldRow == [by |-> "migrated", cost |-> 1]

CostInit ==
    /\ spend = [r \in Reviews |-> NoSpend]
    /\ invoice = [r \in Reviews |-> <<>>]
    /\ backend \in {"memory", "sqlite", "dynamodb"}
    /\ rows \in [{PrOf[r] : r \in Reviews} ->
                   IF backend = "sqlite" THEN {NoRow, OldRow} ELSE {NoRow}]

CostStep ==
    \/ \E r \in Reviews :
          \/ StartReview(r) \/ RouterComplete(r)
          \/ ProviderAnswers(r) \/ ProviderUnreadable(r) \/ ProviderFails(r)
          \/ PostWithFooter(r) \/ RecordWithCost(r)
    \/ \E p \in DOMAIN rows : ClearRow(p)

-----------------------------------------------------------------------------
(* What the answers come to that a review has read, each priced on its     *)
(* own, and the tokens of each tier, with no limit.                        *)
Billed(bill, e, file) ==
    IF ~e.read \/ e.tier = "embedding" THEN bill
    ELSE LET own == bill.used[e.tier]
         IN  [price |-> bill.price + EstimateUsageUsd(PriceTable(file), e.tier, e),
              used |-> [bill.used EXCEPT ![e.tier] =
                           [in |-> own.in + e.in, out |-> own.out + e.out]]]
NoBill == [price |-> 0, used |-> [t \in Tiers |-> Nothing]]
Bill(entries, file) ==
    LET bill[i \in 0..Len(entries)] ==
            IF i = 0 THEN NoBill ELSE Billed(bill[i - 1], entries[i], file)
    IN  bill[Len(entries)]
Full(bill) == \E t \in Tiers : bill.used[t].in > U32Max \/ bill.used[t].out > U32Max

(* "Each successful review records the estimated LLM cost for that review" *)
(* (docs/OPERATIONS.md:565-567): the cost that a review reports, and that  *)
(* its row keeps, is the price of the completions it read itself, however  *)
(* the calls of other reviews come between, and whatever failed; less only *)
(* when a u32 is full.                                                     *)
CostIsOwn ==
    \A r \in Reviews : spend[r].pc \in {"record", "done"} =>
        LET bill == Bill(invoice[r], spend[r].table)
        IN  /\ spend[r].total <= bill.price
            /\ Full(bill) \/ spend[r].total = bill.price
            /\ (rows[PrOf[r]].by = r /\ backend # "memory") =>
                  rows[PrOf[r]].cost = spend[r].total
=============================================================================
