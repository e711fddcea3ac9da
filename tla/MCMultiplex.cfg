CONSTANTS Inputs = {"eti", "udp", "tcp"}
          DabMode = 1
          Ensembles <- Every
          FctModulus = 4
          PhaseModulus = 2
          MaxChanges = 2
SPECIFICATION Spec
INVARIANTS ExitsOnlyFor
PROPERTIES CurrentCif LayoutIsSignalled Recovers
