SPECIFICATION Spec
CONSTANTS
    Nobody = nobody
    Mail = {1}
    MaxManual = 1
    MaxStops = 1
    Chain <- MCChain
    ProviderOf <- MCProviderOf
    Run = {1, 2}
    Window = 1
    Provider = {"openrouter", "venice", "google"}
    Amounts = {0, 100}
    Limit = 100
    Warn <- MCWarn
    Ttl = 1
INVARIANTS RunsInv CreditInv
PROPERTIES ChannelConverges MailIsRead
CHECK_DEADLOCK FALSE
