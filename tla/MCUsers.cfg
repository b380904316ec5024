CONSTANTS
  Names = {"root", "ann", "bob", "eve"}
  Passwords = {"root", "p"}
  LongNames = {"long"}
  LongPasswords = {}
  MAX_USERS = 3
SPECIFICATION Spec
INVARIANTS TypeOK RootFirst UniqueNames
PROPERTIES ImplementsAccounts
