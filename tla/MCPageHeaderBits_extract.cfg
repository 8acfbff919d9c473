SPECIFICATION Spec
CONSTANT Args <- MCArgs
INVARIANT ExtractsWhatIsSet
