SPECIFICATION Spec
CONSTANTS
  Threads = {"t1", "t2"}
  SystemClasses = {"Object", "String", "List"}
  UserFiles = {"Main", "Shape", "Circle"}
  Packaged = {}
  AnonClasses = {"Lambda"}
  Supers <- MCSupers
  Strings = {"text"}
  Self = "Main"
  Entries <- MCEntries
  Asked <- MCAsked
  MaxRequests = 2
PROPERTIES ImplementsClassTable LoadsReturn
CHECK_DEADLOCK FALSE
