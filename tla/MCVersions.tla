------------------------------ MODULE MCVersions -------------------------------
EXTENDS MCReconciler, WorkloadVersions
================================================================================
