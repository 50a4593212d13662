\* A cart whose notice reaches past the days a quote reads.
SPECIFICATION Spec
CONSTANTS
  Day = 12
  Hour = 1
  MinWindow = 2
  MaxAdvance = 60
  SuggestDays = 2
  SuggestStep = 2
  Bps = 10
  VatBps = 1
  Asks <- AllAsks
  Calendars <- AllCalendars
  Settings <- AllSettings
  Policies <- AllPolicies
  Rules <- AllRules
INVARIANTS
  SuggestionWorks
CHECK_DEADLOCK FALSE
