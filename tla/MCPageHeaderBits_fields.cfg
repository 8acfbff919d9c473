SPECIFICATION Spec
CONSTANT Args <- MCArgs
PROPERTY ImplementsHeaderFields
