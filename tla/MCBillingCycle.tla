---------------------------- MODULE MCBillingCycle ----------------------------
(* BillingCycle over a month of one day and one of two, with a subscription    *)
(* billed on the first day and one billed on a day the first month lacks; and  *)
(* over one month of two days, with one subscription and two jobs.             *)
EXTENDS BillingCycle, TLC
CONSTANTS s1, s2, j1, j2
MCLengths == <<1, 2>>
MCBillingDay == (s1 :> 1) @@ (s2 :> 2)
MCMonth == <<2>>
MCFirstDay == s1 :> 1
MCJobs == Permutations({j1, j2})
=============================================================================
