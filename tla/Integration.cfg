SPECIFICATION FairSpec
CONSTANTS
  Did = {"hall", "yard"}
  Lists <- Published
  Ticks <- Sets
  Asking = 3
  MaxChanges = 3
INVARIANTS WhatIsMadeIsKept BareKeepsPicture
PROPERTY Settles
CHECK_DEADLOCK FALSE
