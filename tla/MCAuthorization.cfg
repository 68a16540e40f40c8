SPECIFICATION Spec
CONSTANTS
    None = None
    MaxDepth = 2
    Abbreviates <- MCAbbreviates
    PermissionsUri = "permissions"
    Configurer = {h1, h2}
    Handler = {a1, a2}
    Tenant = "alice"
    MaxStops = 1
    Configure <- MCConfigure
    Message <- MCMessage
    Scenario <- MCScenario
    Roles <- MCRoles
INVARIANTS
    AuthTypeOK
    GrantHonoured
    RulesHonoured
    PlacedOnce
    NewestDefinition
    DefinitionSettled
    QueryInPlaceReadable
    ScopedMessagesFound
CHECK_DEADLOCK FALSE
