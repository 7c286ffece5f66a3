CONSTANTS MaxEdits = 2
          CLI_AGENTS = {"codex", "claude"}
          API_PROVIDERS = {"openai", "gemini"}
          Values = {"v"}
          EnvKeys = {"gemini"}
          MaxCommands = 3
          Rounds = 2
          MaxOdd = 2
SPECIFICATION MCSpec
INVARIANTS  AcceptedFitsDaemon CasesIsolated GateExact NothingForgotten ProviderSettings
CHECK_DEADLOCK FALSE
