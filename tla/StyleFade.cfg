SPECIFICATION Spec
CONSTANT
  Scale = 100
PROPERTY Fades
