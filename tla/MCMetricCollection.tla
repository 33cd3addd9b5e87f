------------------------- MODULE MCMetricCollection --------------------------
EXTENDS MetricCollection, TLC

MCCollected == {"cpu", "ram"}
MCSwitched == {"ram"}
MCSymmetry == Permutations(Worker)
=============================================================================
