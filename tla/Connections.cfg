CONSTANTS Scale = 8
          Unit = 2
          Grace = 1
          Sizes = {1, 3}
          IdleTicks = 7
          ConnectTicks = 1
          MaxTicks = 10
          DownMin = 4
          UpMin = 0
          DownBytes = 4
          UpBytes = 1
          BodyScale = 4
          BodyGrace = 2
          BodySizes = {1, 2, 3}
          BodyMaxBytes = 6
          BodyIdleTicks = 4
          WriteTicks = 3
          BodyMin = 5
          Forward = TRUE
SPECIFICATION MCSpec
INVARIANTS TimersExact CompletedDelivers RateFloors
PROPERTIES TransfersEnd
CHECK_DEADLOCK FALSE
