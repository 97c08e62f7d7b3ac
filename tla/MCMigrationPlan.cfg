SPECIFICATION Spec
CONSTANTS
    Table = {"posts", "users"}
    IndexName = {"x"}
    ColumnOrder <- MCColumnOrder
    Col <- MCCol
    Push <- MCPush
INVARIANTS AcceptedHasSchema KeptColumnsKeepData RenamesKeepData
