SPECIFICATION Spec
CONSTANTS
    Extension = "toml"
    Names = {"s", "u"}
    Bases <- OneBase
    Records <- MCRecords
    Texts = {"x"}
    Attachments <- MCAttachments
    MaxCalls = 2
    MaxDepth = 2
INVARIANT RejectedIsNotWritten
CHECK_DEADLOCK FALSE
