SPECIFICATION Spec

INVARIANT ConfigurationFinal
INVARIANT SlotsMatchTable
