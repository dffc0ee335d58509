SPECIFICATION Spec
CONSTANTS
    Sizes = {1, 3, 6, 7, 9, 12}
    BootstrapSize = 3
    RngBytes = 1
    Budgets = {0, 2, 3, 9}
    Payloads = {0, 1, 3}
    ApiReads = {1, 2}
    MaxTokens = 2
INVARIANTS LayoutKept ClockConnected
