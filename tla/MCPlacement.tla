----------------------------- MODULE MCPlacement -----------------------------
(* Instances of Placement for TLC. *)
EXTENDS Placement

\* Handlers that write what they have made of what they read only with its
\* generation.
MCAtomic ==
  {resourceProviderInventorySet(amend, aggregate, dryRun) : amend, aggregate, dryRun \in BOOLEAN}
  \cup {resourceProviderInventoryClassSet, resourceProviderInventoryDelete,
        resourceProviderTraitSet, resourceProviderTraitDelete, resourceProviderAllocationDelete,
        resourceProviderAllocationUnset(FALSE)}
  \cup {resourceProviderAggregateSet(old) : old \in BOOLEAN}
  \cup {resourceProviderAllocationSet(old) : old \in BOOLEAN}

MCHandlers == MCAtomic \cup {resourceProviderAllocationUnset(TRUE)}
=============================================================================
