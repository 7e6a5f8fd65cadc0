SPECIFICATION Spec
CONSTANTS
  Instances = {0, 1, 3, 5}
  Defined = {0, 3}
INVARIANTS
  TypeOK
  RoleTellsModule
PROPERTIES
  RolesAgree
  
