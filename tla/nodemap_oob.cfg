CONSTANTS
  Sizes <- MCPresetSizes
  Configs <- MCNoConfig
  MaxOobReads = 2
SPECIFICATION Spec
INVARIANT NodeMapBijectiveAnyRead
