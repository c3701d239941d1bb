CONSTANTS
  Rules <- EscapedRules
  MaxRules = 1
SPECIFICATION Spec
PROPERTIES RulesSurviveRestart
