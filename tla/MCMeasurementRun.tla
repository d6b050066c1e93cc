-------------------------- MODULE MCMeasurementRun --------------------------
EXTENDS MeasurementRun, TLC

CONSTANTS m, l, k

MCRule(event, of, action, target) ==
  [event |-> event, of |-> of, action |-> action, target |-> target]

\* DistributionControllerBase.measure(): all kernels start at once.
Distribution ==
  [rules |-> <<MCRule("KernelStart", m, "waitForPressureBarrier", None),
               MCRule("KernelStart", l, "waitForPressureBarrier", None),
               MCRule("KernelStart", k, "waitForPressureBarrier", None)>>,
   endless |-> {}]

\* ExpTime1MeasurementController.createMeasurement(), without its rule for waiting.
SystemLoad ==
  [rules |-> <<MCRule("Stop", m, "stopKernel", l)>>, endless |-> {l}]

\* A workload that waits for another one, which ends.
Sequence ==
  [rules |-> <<MCRule("Start", m, "waitForWorkload", l), MCRule("RunStart", None, "stopKernel", l)>>,
   endless |-> {}]

MCMeasurements == {Distribution, SystemLoad, Sequence}

\* ExpTime1MeasurementController.createMeasurement().
MCExpTime1 ==
  {[rules |-> <<MCRule("Stop", m, "stopKernel", l), MCRule("Start", m, "waitForWorkload", l)>>,
    endless |-> {l}]}
============================================================================
