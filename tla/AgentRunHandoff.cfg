CONSTANTS
  Runs = {"r1", "r2"}
  Agents = {"triage", "support", "broken"}
  NoAgent = "nobody"
  Instructed = {"triage"}
  Misconfigured = {"broken"}
  HandoffTo <- MCHandoffTo
  StartAgent <- MCStartAgent
  InputGuards <- MCInputGuards
  OutputGuards <- MCOutputGuards
  Keep = 2
  MaxTurns = 2
  Answers <- MCAnswers
SPECIFICATION Spec
PROPERTIES
  AppendsItsTurn
