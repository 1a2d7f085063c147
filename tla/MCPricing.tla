------------------------------ MODULE MCPricing ------------------------------
(***************************************************************************)
(* A small instance of Pricing: two tiers, one user whose name is written  *)
(* in two ways, one rate to ask for that differs from the defaults in one  *)
(* column and one that differs in all, a job measured by its steps and     *)
(* one that is charged as allocated.                                       *)
(***************************************************************************)
EXTENDS Pricing, TLC

CONSTANTS wA, wB, mu, private, alice, Alice

Price(c, g, m) == [cpu |-> c, gpu |-> g, mem |-> m]

MCRates == {Price(2, 5, 1), Price(3, 4, 2)}
MCDefaultRates == (mu :> Price(1, 5, 1)) @@ (private :> Price(5, 9, 2))
MCUserOf == (alice :> alice) @@ (Alice :> alice)
MCNatural == (alice :> private)

\* Of its two steps only one has a TotalCPU; the cost is no whole satang.
Measured == [steps |-> <<[totalCpu |-> 0, cpuTimeRaw |-> 9000, rss |-> 2, elapsed |-> 5400],
                         [totalCpu |-> 4500, cpuTimeRaw |-> 7200, rss |-> 1, elapsed |-> 3700]>>,
             totalCpu |-> 9900, cpuTimeRaw |-> 9900, cpus |-> 4, gpus |-> 1, mem |-> 8,
             elapsed |-> 7200]
Allocated == [steps |-> << >>, totalCpu |-> 0, cpuTimeRaw |-> 0, cpus |-> 2, gpus |-> 0,
              mem |-> 5, elapsed |-> 18000]

MCJobs == {Measured, Allocated}
MCTaxes == {[rate |-> 7, inclusive |-> FALSE], [rate |-> 7, inclusive |-> TRUE],
            [rate |-> 0, inclusive |-> FALSE]}
Symmetry == Permutations({wA, wB})
=============================================================================
