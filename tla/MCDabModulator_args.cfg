CONSTANTS SecondTicks = 47
          FrameTicks = 3
          Minute = 2
          Day = 2
          Muxes <- SomeMuxes
          Offsets <- SomeOffsets
          Losses <- SomeLosses
          MaxSeconds = 1
          MaxDisturbances = 1
          Cases <- PlainCase
          HaveDexter = TRUE
          CommandLines <- EveryLine
          Files <- PlainFile
          Elements <- TiiInMode2
          MaxFrames = 20
          FrameBytes = 64
          Combs = {0, 1, 22, 23, 24}
          Patterns = {0, 1, 2, 34, 35, 68, 69, 70}
SPECIFICATION ModulatorSpec
INVARIANT CommandLineOverrides
