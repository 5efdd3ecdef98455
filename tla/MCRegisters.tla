---------------------------- MODULE MCRegisters ----------------------------
(* Two registers, two platforms, one value of each other table; another        *)
(* customer, like the second register, is yet to be added.                     *)
EXTENDS Registers, TLC

CONSTANTS g1, g2, platform1, platform2, product1, customer1, customer2, deployment1,
          k1, k2, x, y, z, t1, t2

MCValues == {platform1, platform2, product1, customer1, customer2, deployment1}

MCKind ==
  (platform1 :> "platform") @@ (platform2 :> "platform") @@ (product1 :> "product") @@
  (deployment1 :> "deploymentType") @@ (customer1 :> "customer") @@ (customer2 :> "customer")

MCMixes == {{"Template", "Status"}, {"Template", "Lookups", "Rollback"}, {"Codes"}}

MCSymmetry ==
  Permutations({k1, k2}) \cup Permutations({x, y, z}) \cup
  Permutations({t1, t2}) \cup Permutations({platform1, platform2})

=============================================================================
