CONSTANTS
    LogicalCpus = 16
    CpuIds = {0, 15, 16, 255}
    DataPtrs = {p1}
SPECIFICATION CpuSpec
INVARIANTS
    IpiAgreesWithCpuGuard
PROPERTIES
    PerCpuDataOnlySetExplicitly
