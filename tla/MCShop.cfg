\* Every ask of a few carts, calendars, settings and policies; and the recipes
\* of a small kitchen, edited a few times.
SPECIFICATION Shop
CONSTANTS
  Day = 12
  Hour = 1
  MinWindow = 2
  MaxAdvance = 60
  SuggestDays = 2
  SuggestStep = 2
  Bps = 10
  VatBps = 1
  Asks <- AllAsks
  Calendars <- AllCalendars
  Settings <- AllSettings
  Policies <- AllPolicies
  Rules <- AllRules
  Method = {"qris", "transfer"}
  Other = {"policy"}
  Sold = {"cake"}
  Default <- Defaults
  FirstPrice <- FirstPrices
  Pack = {"bag", "sack", "box"}
  IngredientOf <- Packs
  Edit <- Sent
  Asked <- Requests
  MaxEdits = 4
  Component = {1, 2}
  Ingredient = {1, 2}
  Variant = {"large", "small"}
  Pieces = {2}
  Price <- Prices
  LineInputs <- Entered
  UsesInputs <- Composed
  Baskets <- Batches
  MaxEvents = 3
INVARIANTS
  PlanOrdered
  TermsHold
  FeeIsLeast
  SuggestionNearest
  MoreNeverLess
  EstimateCovers
  MethodStays
  TrailTells
PROPERTIES
  DefaultStays
CHECK_DEADLOCK FALSE
