\* Scripts that combine two terms, on the machine and by their meaning.
SPECIFICATION Spec
CONSTANT Programs <- MCPrograms
INVARIANT ComputesAsWritten
PROPERTY CallersKeepTheirSlots
