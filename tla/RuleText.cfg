CONSTANTS
  Rules <- PlainRules
  MaxRules = 2
SPECIFICATION Spec
PROPERTIES RulesSurviveRestart
