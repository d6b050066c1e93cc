------------------------ MODULE MCMeasurersOnThreads ------------------------
EXTENDS MeasurersOnThreads, TLC

CONSTANTS p, w
============================================================================
