SPECIFICATION DeliverySpec
CONSTANTS
    Service = {s1, s2}
    Region = region1
    Nil = Nil
    Budgets <- AllBudgets
INVARIANTS
    OneOutstanding
    RoutesBacked
PROPERTIES
    Converges
CHECK_DEADLOCK FALSE
