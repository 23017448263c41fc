SPECIFICATION Spec
CONSTANTS
  Databases <- MCDatabases
  TablesOf <- MCTablesOf
  ColumnsOf <- MCColumnsOf
  Upper <- MCUpper
  Calls <- MCCalls
  Null = Null
  Empty = ""
  Percent = "%"
  TableType = TableType
  OtherType = OtherType
  Faults = {"execute", "page", "cancel"}
INVARIANTS
  ListsOnlyWhatWasAsked
  ListsComplete
  FetchGivesAnswer
PROPERTIES
  CallReturns
