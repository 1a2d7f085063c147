------------------------------- MODULE Pricing -------------------------------
(***************************************************************************)
(* The rates of models/rates_store.py, the tier overrides of               *)
(* models/tiers_store.py, and the receipts that are priced with them.      *)
(* Every request is a sequence of transactions: administrators load the    *)
(* whole table of rates, change one tier and save the table; they load all *)
(* overrides and save one; a billing run loads the overrides, then the     *)
(* rates, computes the costs, and later asks for the rate of the tier once *)
(* more, to keep it on the receipt.                                        *)
(*                                                                         *)
(* Missing rates are filled in by every load; here that is part of the     *)
(* load.  (Two first loads at once violate the primary key of the table,   *)
(* and one of the requests fails.)                                         *)
(***************************************************************************)
EXTENDS ReceiptMath

CONSTANTS Workers,
          Tiers,         \* mu, gov, private
          Rates,         \* what administrators ask for: cpu, gpu, mem
          DefaultRates,  \* DEFAULT_RATES: a rate for each tier
          Users,
          Names,         \* ways to write the names of users
          UserOf,        \* strip and lower: the user a name is of
          Natural,       \* classify_user_type: the tier of each user
          Jobs,          \* what sacct reports of the jobs to bill
          Taxes,         \* BILLING_TAX_*: rate (0: not enabled), inclusive
          MaxRequests,   \* bound on the requests of a behaviour
          None

Rate == [cpu : Nat, gpu : Nat, mem : Nat]

ASSUME RateAssumption == Rates \subseteq Rate /\ DefaultRates \in [Tiers -> Rate]
ASSUME TierAssumption == /\ UserOf \in [Names -> Users] /\ Natural \in [Users -> Tiers]
                         /\ Tiers \cap Names = {}
ASSUME TaxAssumption == \A t \in Taxes : t.rate \in Nat /\ t.inclusive \in BOOLEAN
StepUsage == [totalCpu : Nat, cpuTimeRaw : Nat, rss : Nat, elapsed : Nat]

ASSUME JobAssumption ==
    \A j \in Jobs :
        /\ j.steps \in Seq(StepUsage)
        /\ {j.totalCpu, j.cpuTimeRaw, j.cpus, j.gpus, j.mem, j.elapsed} \subseteq Nat
ASSUME NoneAssumption == None \notin Tiers \cup Rate /\ MaxRequests \in Nat

VARIABLES rates,      \* table rates: the rate of each tier, or None
          overrides,  \* table user_tier_overrides: the tier of each name, or None
          tax,        \* the settings the application runs with
          receipts,   \* the receipts, with what was in force while they were made
          req,        \* the request each worker serves
          served,     \* the requests taken on so far
          asked,      \* history: the rate last saved for each tier and the
                      \* tier last saved under each name, or None
          raced       \* history: the tables of which savings overlapped

vars == <<rates, overrides, tax, receipts, req, served, asked, raced>>

-----------------------------------------------------------------------------
Idle == [at |-> "idle"]

\* Mutant of Seeded: a load brings every default back.
SeededAnew == DefaultRates

\* _seed_missing
Seeded == [t \in Tiers |-> IF rates[t] = None THEN DefaultRates[t] ELSE rates[t]]

\* load_overrides_dict: the tiers kept for a user, under whatever name; with
\* more than one row the order of the rows decides.
Overrides(u) == {overrides[n] : n \in {m \in Names : UserOf[m] = u}} \ {None}

Effective(u) == IF Overrides(u) = {} THEN {Natural[u]} ELSE Overrides(u)

Begin(w, r) == /\ req[w] = Idle /\ served < MaxRequests
               /\ req' = [req EXCEPT ![w] = r]
               /\ served' = served + 1

Step(w, from, r) == /\ req[w].at = from
                    /\ req' = [req EXCEPT ![w] = r]
                    /\ UNCHANGED served

End(w) == /\ req' = [req EXCEPT ![w] = Idle]
          /\ UNCHANGED served

\* The receipts in the making see the rates that come into force.
Seeing(r) == IF r.at \in {"bill: tier", "bill: costs", "bill: snapshot"}
             THEN [r EXCEPT !.seen = @ \cup {rates'[r.tier]}]
             ELSE r

Saving(at) == \E v \in Workers : req[v].at \in at

-----------------------------------------------------------------------------
(* admin_update and update_formula                                          *)

\* The table is loaded and changed in one tier.
LoadRates(w, t, rate) ==
    /\ Begin(w, [at |-> "rates: loaded", tier |-> t,
                 table |-> [Seeded EXCEPT ![t] = rate]])
    /\ rates' = Seeded
    /\ raced' = IF Saving({"rates: loaded", "rates: saving"}) THEN raced \cup {"rates"} ELSE raced
    /\ UNCHANGED <<overrides, tax, receipts, asked>>

\* save_rates compares the table with the rows it gets; only columns that
\* differ are in its UPDATEs.
SaveRates(w) ==
    LET table == req[w].table IN
    /\ Step(w, "rates: loaded",
            [at |-> "rates: saving", tier |-> req[w].tier, table |-> table,
             cols |-> {c \in Tiers \X {"cpu", "gpu", "mem"} : table[c[1]][c[2]] # rates[c[1]][c[2]]}])
    /\ UNCHANGED <<rates, overrides, tax, receipts, asked, raced>>

CommitRates(w) ==
    /\ req[w].at = "rates: saving"
    /\ rates' = [t \in Tiers |-> [c \in {"cpu", "gpu", "mem"} |->
                    IF <<t, c>> \in req[w].cols THEN req[w].table[t][c] ELSE rates[t][c]]]
    /\ asked' = [asked EXCEPT ![req[w].tier] = req[w].table[req[w].tier]]
    /\ req' = [v \in Workers |-> IF v = w THEN Idle ELSE Seeing(req[v])]
    /\ UNCHANGED <<served, overrides, tax, receipts, raced>>

-----------------------------------------------------------------------------
(* save_tiers, for one of the names on the form.  The form shows the name   *)
(* of a user as the table of users, the jobs or the overrides write it.     *)

LoadOverrides(w, n, tier) ==
    /\ Begin(w, [at |-> "tiers: loaded", name |-> n, tier |-> tier,
                 overridden |-> Overrides(UserOf[n]) # {}])
    /\ raced' = IF Saving({"tiers: loaded", "tiers: saving"}) THEN raced \cup {"tiers"} ELSE raced
    /\ UNCHANGED <<rates, overrides, tax, receipts, asked>>

\* The natural tier needs no override: clear_override deletes the row of this
\* very name.  Nothing is done when the load had found none.
SaveNatural(w) ==
    LET n == req[w].name IN
    /\ req[w].at = "tiers: loaded" /\ req[w].tier = Natural[UserOf[n]]
    /\ overrides' = IF req[w].overridden THEN [overrides EXCEPT ![n] = None] ELSE overrides
    /\ asked' = [asked EXCEPT ![n] = req[w].tier]
    /\ End(w)
    /\ UNCHANGED <<rates, tax, receipts, raced>>

\* upsert_override looks for the row of this name ...
FindOverride(w) ==
    LET n == req[w].name IN
    /\ req[w].at = "tiers: loaded" /\ req[w].tier # Natural[UserOf[n]]
    /\ Step(w, "tiers: loaded", [at |-> "tiers: saving", name |-> n, tier |-> req[w].tier,
                                 found |-> overrides[n] # None])
    /\ UNCHANGED <<rates, overrides, tax, receipts, asked, raced>>

\* ... and updates it, or inserts one; a row that has come or gone meanwhile
\* makes it fail.
CommitOverride(w) ==
    LET n == req[w].name IN
    /\ req[w].at = "tiers: saving" /\ req[w].found = (overrides[n] # None)
    /\ overrides' = [overrides EXCEPT ![n] = req[w].tier]
    /\ asked' = [asked EXCEPT ![n] = req[w].tier]
    /\ End(w)
    /\ UNCHANGED <<rates, tax, receipts, raced>>

-----------------------------------------------------------------------------
(* A billing run (create_month_invoices, create_self_receipt) for one user  *)
(* and one job; module Receipts has the jobs and the keys.                  *)

\* compute_costs asks for the overrides,
BillTier(w, u, job) ==
    /\ \E t \in Effective(u) :
          Begin(w, [at |-> "bill: tier", user |-> u, job |-> job, tier |-> t,
                    seen |-> {Seeded[t]}])
    /\ UNCHANGED <<rates, overrides, tax, receipts, asked, raced>>

\* and then for the rates.
BillCosts(w) ==
    LET r == req[w] IN
    /\ r.at = "bill: tier"
    /\ Step(w, "bill: tier", [at |-> "bill: costs", user |-> r.user, tier |-> r.tier,
                              seen |-> r.seen, item |-> Seeded[r.tier],
                              cost |-> Cost(r.job, Seeded[r.tier])])
    /\ rates' = Seeded
    /\ UNCHANGED <<overrides, tax, receipts, asked, raced>>

\* Mutant of BillSnapshot: the rate is taken from the defaults.
BillSnapshotOfDefault(w) ==
    LET r == req[w] IN
    /\ r.at = "bill: costs"
    /\ Step(w, "bill: costs", [at |-> "bill: snapshot", user |-> r.user, tier |-> r.tier,
                               seen |-> r.seen, item |-> r.item,
                               cost |-> r.cost, snapshot |-> DefaultRates[r.tier]])
    /\ UNCHANGED <<rates, overrides, tax, receipts, asked, raced>>

\* create_receipt_from_rows: get_rate_for_tier, of the tier of the first row,
BillSnapshot(w) ==
    LET r == req[w] IN
    /\ r.at = "bill: costs"
    /\ Step(w, "bill: costs", [at |-> "bill: snapshot", user |-> r.user, tier |-> r.tier,
                               seen |-> r.seen, item |-> r.item,
                               cost |-> r.cost, snapshot |-> rates[r.tier]])
    /\ UNCHANGED <<rates, overrides, tax, receipts, asked, raced>>

\* and the receipt with its amounts.
BillCommit(w) ==
    LET r == req[w] IN
    /\ r.at = "bill: snapshot"
    /\ receipts' = receipts \cup
          {[user |-> r.user, tier |-> r.tier, item |-> r.item, cost |-> r.cost,
            snapshot |-> r.snapshot, seen |-> r.seen,
            taxRate |-> tax.rate, amounts |-> Amounts(r.cost, tax)]}
    /\ End(w)
    /\ UNCHANGED <<rates, overrides, tax, asked, raced>>

-----------------------------------------------------------------------------
\* A request fails, or is refused, before its next commit.
Fail(w) == /\ req[w] # Idle
           /\ req' = [req EXCEPT ![w] = Idle]
           /\ UNCHANGED <<rates, overrides, tax, receipts, served, asked, raced>>

\* The application is started again, perhaps with another tax.
Restart(t) == /\ t # tax /\ tax' = t
              /\ req' = [w \in Workers |-> Idle]
              /\ UNCHANGED <<rates, overrides, receipts, served, asked, raced>>

Init == /\ rates = [t \in Tiers |-> None]
        /\ overrides = [n \in Names |-> None]
        /\ tax \in Taxes
        /\ receipts = {}
        /\ req = [w \in Workers |-> Idle]
        /\ served = 0
        /\ asked = [x \in Tiers \cup Names |-> None]
        /\ raced = {}

Next == \/ \E w \in Workers :
              \/ \E t \in Tiers, rate \in Rates : LoadRates(w, t, rate)
              \/ SaveRates(w) \/ CommitRates(w)
              \/ \E n \in Names, t \in Tiers : LoadOverrides(w, n, t)
              \/ SaveNatural(w) \/ FindOverride(w) \/ CommitOverride(w)
              \/ \E u \in Users, job \in Jobs : BillTier(w, u, job)
              \/ BillCosts(w) \/ BillSnapshot(w) \/ BillCommit(w)
              \/ Fail(w)
        \/ \E t \in Taxes : Restart(t)

Spec == Init /\ [][Next]_vars

-----------------------------------------------------------------------------
\* What a request holds between its transactions.
RequestStates ==
    [at : {"rates: loaded"}, tier : Tiers, table : [Tiers -> Rate]]
    \cup [at : {"rates: saving"}, tier : Tiers, table : [Tiers -> Rate],
          cols : SUBSET (Tiers \X {"cpu", "gpu", "mem"})]
    \cup [at : {"tiers: loaded"}, name : Names, tier : Tiers, overridden : BOOLEAN]
    \cup [at : {"tiers: saving"}, name : Names, tier : Tiers, found : BOOLEAN]
    \cup [at : {"bill: tier"}, user : Users, job : Jobs, tier : Tiers, seen : SUBSET Rate]
    \cup [at : {"bill: costs"}, user : Users, tier : Tiers, seen : SUBSET Rate,
          item : Rate, cost : Nat]
    \cup [at : {"bill: snapshot"}, user : Users, tier : Tiers, seen : SUBSET Rate,
          item : Rate, cost : Nat, snapshot : Rate]

\* The tables, the requests, and receipts whose amounts add up and are not
\* negative.
TypeOK ==
    /\ rates \in [Tiers -> Rate \cup {None}]
    /\ overrides \in [Names -> Tiers \cup {None}]
    /\ tax \in Taxes /\ served \in 0 .. MaxRequests
    /\ req \in [Workers -> {Idle} \cup RequestStates]
    /\ \A r \in receipts : /\ r.user \in Users /\ r.tier \in Tiers
                           /\ r.item \in Rate /\ r.snapshot \in Rate
                           /\ r.amounts \in [subtotal : Nat, tax : Nat, total : Nat]
                           /\ r.amounts.subtotal + r.amounts.tax = r.amounts.total
    /\ asked \in [Tiers \cup Names -> Rate \cup Tiers \cup {None}]
    /\ raced \subseteq {"rates", "tiers"}

\* Unless savings overlap, the rate of a tier is the one last saved for it,
\* whatever is saved for other tiers, and the tier of a user is the one last
\* saved for him, as long as the form has written his name in one way only.
SettingsAreAsSaved ==
    /\ "rates" \notin raced =>
          \A t \in Tiers : asked[t] # None => rates[t] = asked[t]
    /\ "tiers" \notin raced =>
          \A n \in Names :
              /\ asked[n] # None
              /\ \A m \in Names : UserOf[m] = UserOf[n] /\ asked[m] # None => m = n
              => Effective(UserOf[n]) = {asked[n]}

\* The rate a job was charged and the one its receipt shows as locked were
\* both in force while the receipt was made: they can differ only if the rate
\* of the tier was changed in between.
PricedAtRatesInForce ==
    \A r \in receipts : r.item \in r.seen /\ r.snapshot \in r.seen

\* What the ledger and the exports make of a total, with the rate of today,
\* are the subtotal and the tax of the receipt as long as the rate is the same,
\* whether tax is added or included, and was so when the receipt was made.
BooksMatchReceipt ==
    \A r \in receipts :
        r.taxRate = tax.rate /\ tax.rate % 2 = 1 =>
            /\ NetOf(r.amounts.total, tax.rate) = r.amounts.subtotal
            /\ VatOf(r.amounts.total, tax.rate) = r.amounts.tax
=============================================================================
