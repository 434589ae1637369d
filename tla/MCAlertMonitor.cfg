SPECIFICATION Spec
CONSTANTS
  Alerts = {"cpu", "disk"}
  Rules = {0, 1}
  Levels = {0, 1}
INVARIANTS TypeOK NoticesAgree
PROPERTIES KeepsPromise BreachIsTold
