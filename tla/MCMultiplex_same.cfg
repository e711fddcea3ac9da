CONSTANTS Inputs = {"eti"}
          DabMode = 1
          Ensembles <- SizePreserving
          FctModulus = 4
          PhaseModulus = 2
          MaxChanges = 1
SPECIFICATION Spec
PROPERTY Adapts
