------------------------------ MODULE Journal ------------------------------
(***************************************************************************)
(* The lines of the batches services/gl_posting.py posts.  A batch holds   *)
(* at most one amount per account, so its lines are a function from        *)
(* accounts to signed amounts in the smallest currency unit: debits are    *)
(* positive, credits negative.                                             *)
(***************************************************************************)
EXTENDS Integers

\* The accounts of chart_of_accounts() that some posting uses.
Accounts == {"cash", "ar", "ca", "alwCa", "alwAr", "vat", "re", "rev", "ecl"}
Nominal == {"rev", "ecl"}       \* INCOME and EXPENSE, closed every month

Lines == [Accounts -> Int]
NoLines == [a \in Accounts |-> 0]

Total(l) == l["cash"] + l["ar"] + l["ca"] + l["alwCa"] + l["alwAr"]
              + l["vat"] + l["re"] + l["rev"] + l["ecl"]

Abs(n) == IF n < 0 THEN -n ELSE n

\* Dr 1150 Contract Asset / Cr 4000 Service Revenue.
AccrualLines(net) == [NoLines EXCEPT !["ca"] = net, !["rev"] = -net]

\* Mutant of IssueLines: the revenue line takes the gross amount.
IssueLinesGross(gross, net, throughContractAsset) ==
    [NoLines EXCEPT !["ar"] = gross, !["vat"] = net - gross,
                    ![IF throughContractAsset THEN "ca" ELSE "rev"] = -gross]

\* Dr 1100 A/R / Cr 2100 VAT Output / Cr 1150 Contract Asset or 4000 Revenue.
IssueLines(gross, net, throughContractAsset) ==
    [NoLines EXCEPT !["ar"] = gross, !["vat"] = net - gross,
                    ![IF throughContractAsset THEN "ca" ELSE "rev"] = -net]

\* Dr 1000 Cash / Cr 1100 A/R.
PaymentLines(gross) == [NoLines EXCEPT !["cash"] = gross, !["ar"] = -gross]

\* The same lines with debit and credit swapped.
Reversed(l) == [a \in Accounts |-> -l[a]]

\* Dr 6100 Impairment / Cr 1190 and 1159 when the allowance grows by delta,
\* the other way round when it shrinks.
ImpairmentLines(deltaAr, deltaCa) ==
    [NoLines EXCEPT !["ecl"] = deltaAr + deltaCa, !["alwAr"] = -deltaAr,
                    !["alwCa"] = -deltaCa]

\* close_period debits the absolute balance of every INCOME account, credits
\* that of every EXPENSE account and sends the difference to 3000.
ClosingLines(bal) ==
    [NoLines EXCEPT !["rev"] = Abs(bal["rev"]), !["ecl"] = -Abs(bal["ecl"]),
                    !["re"] = Abs(bal["ecl"]) - Abs(bal["rev"])]

\* Days overdue -> loss rate of the provision matrix, in thousandths.
LossRate(days) == IF days <= 0 THEN 5
                  ELSE IF days <= 30 THEN 10
                  ELSE IF days <= 60 THEN 20
                  ELSE IF days <= 90 THEN 50 ELSE 200
=============================================================================
