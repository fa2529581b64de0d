SPECIFICATION Spec
CONSTANTS
  Object = Object
  A = A
  B = B
  I = I
  J = J
  x = x
  y = y
  m = m
  ClassNames <- MCClasses
  InterfaceNames <- MCInterfaces
  ArrayInterfaces = {I}
  FieldSigs = {x, y}
  MethodSigs = {m}
  Bodies <- MCBodies
  NoKlass = NoKlass
  NoMethod = NoMethod
  Garbage = Garbage
INVARIANTS
  LayoutSound
  FieldsResolve
  SelectionRight
  InstanceOfRight
SYMMETRY Symmetry
CHECK_DEADLOCK FALSE
