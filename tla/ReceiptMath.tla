----------------------------- MODULE ReceiptMath -----------------------------
(***************************************************************************)
(* What a job costs and how a receipt's amounts are computed: the pure     *)
(* part of services/billing.py and models/billing_store.py.  Money is in   *)
(* satang, times are in seconds, rates are for an hour, memory is in GB, a *)
(* tax rate is Percent in a hundred.                                       *)
(***************************************************************************)
EXTENDS Integers, Sequences, Functions

-----------------------------------------------------------------------------
\* Mutant of HalfUp: the fraction is cut off.
Cut(a, b) == a \div b

\* a / b rounded to the nearest integer, halves up.
HalfUp(a, b) == (2 * a + b) \div (2 * b)

-----------------------------------------------------------------------------
(* compute_costs.  A job row has what sacct reports of the job and of each  *)
(* of its steps; 0 stands for a field that is absent.                       *)
FirstPositive(x, rest) == IF x > 0 THEN x ELSE rest

\* TotalCPU of a step, or its CPUTimeRAW.
StepCores(step) == FirstPositive(step.totalCpu, step.cpuTimeRaw)

StepMemory(step) == step.rss * step.elapsed

\* The sums over the steps; a job without steps has used nothing.
CoresUsed(job) ==
    SumFunctionOnSet([i \in DOMAIN job.steps |-> StepCores(job.steps[i])], DOMAIN job.steps)
MemoryUsed(job) ==
    SumFunctionOnSet([i \in DOMAIN job.steps |-> StepMemory(job.steps[i])], DOMAIN job.steps)

\* The core time measured by the steps, else of the job, else allocated.
CoreTime(job) ==
    FirstPositive(CoresUsed(job),
        FirstPositive(job.totalCpu,
            FirstPositive(job.cpuTimeRaw, job.cpus * job.elapsed)))

\* GPUs are charged as allocated, memory as the steps measured it.
GpuTime(job) == job.gpus * job.elapsed
MemoryTime(job) == FirstPositive(MemoryUsed(job), job.mem * job.elapsed)

SecondsPerHour == 3600

\* a / b rounded to the nearest integer, halves to the even one: round(2).
HalfEven(a, b) ==
    LET q == a \div b
        r == 2 * (a % b)
    IN  IF r > b \/ (r = b /\ q % 2 = 1) THEN q + 1 ELSE q

Cost(job, rate) ==
    HalfEven(CoreTime(job) * rate.cpu + GpuTime(job) * rate.gpu + MemoryTime(job) * rate.mem,
             SecondsPerHour)

-----------------------------------------------------------------------------
(* create_receipt_from_rows.  tax.rate is 0 when tax is not enabled.        *)
IncludedTax(gross, rate) == HalfUp(gross * rate, 100 + rate)
AddedTax(net, rate) == HalfUp(net * rate, 100)

\* Mutant of Amounts: an included tax stays in the subtotal.
AmountsTaxedTwice(cost, tax) ==
    IF tax.inclusive
    THEN [subtotal |-> cost, tax |-> IncludedTax(cost, tax.rate), total |-> cost]
    ELSE LET t == AddedTax(cost, tax.rate) IN [subtotal |-> cost, tax |-> t, total |-> cost + t]

Amounts(cost, tax) ==
    IF tax.inclusive
    THEN LET t == IncludedTax(cost, tax.rate) IN [subtotal |-> cost - t, tax |-> t, total |-> cost]
    ELSE LET t == AddedTax(cost, tax.rate) IN [subtotal |-> cost, tax |-> t, total |-> cost + t]

\* _split_net_vat and _split_vat: the ledger and the exports know only the
\* total, and divide it by 1 + rate.  (They round binary fractions, and a half
\* may go either way; 100 + rate is odd wherever that matters here.)
NetOf(gross, rate) == HalfUp(gross * 100, 100 + rate)
VatOf(gross, rate) == gross - NetOf(gross, rate)
=============================================================================
