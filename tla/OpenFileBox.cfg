\* Two files; the names of the second cannot be read.
CONSTANT MaxOpens = 2
SPECIFICATION Spec
INVARIANT SymbolsAreOfOpenFile
