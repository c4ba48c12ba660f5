CONSTANTS
  Rule <- Rules
  MaxRules = 2
  Performer = {0, 1, 2}
SPECIFICATION Spec
INVARIANTS
  BuildsLanguage
  Diagnosed
  InjectionKeeps
  DanglingOnlyEmpty
  OperandsKept
PROPERTY
  ImplementsInjection
