CONSTANTS Workers = {w1, w2}
          MaxRequests = 2
          http = http
          tcp = tcp
          Shards = {1, 2}
          GraceOn = TRUE
          MaxAccepts = 1
SPECIFICATION MCSpec
INVARIANTS PhaseAccounted ProbeExact GreenIsEarned NothingLeftRunning
PROPERTIES ResultFrozen BenchesEnd DaemonEnds
CHECK_DEADLOCK FALSE
