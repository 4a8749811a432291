CONSTANTS
    Chats = {"a", "b"}
    MaxRestarts = 1
    Tenants <- MCTenants
    IdPrefixes <- MCPrefixes
    Tools <- MCTools
    MaxTurns <- MCMaxTurns
SPECIFICATION MCSpec
CONSTRAINT MCBound
INVARIANTS ShowsTheDialogue RulesOnce TenantsApart DeletedStaysDeleted
CHECK_DEADLOCK FALSE
