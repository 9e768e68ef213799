CONSTANTS
  UserNames <- Users
  TenantNames <- Tenants
  Bases <- Arguments
  Chars = {"A", "a", "c", "_", "-"}
  Alnum = {"A", "a", "c"}
  Under = "_"
  Lower <- LowerCase
  Tables = {t1}
  NoDatabase = NoDatabase
  NoEntry = NoEntry
  NoName = NoName
  MaxDatabases = 2
  MaxChanges = 3
SPECIFICATION Spec
INVARIANT NamespaceIsInWarehouse
