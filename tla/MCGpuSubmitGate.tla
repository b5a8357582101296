---------------------------- MODULE MCGpuSubmitGate ----------------------------
(* Model values for GpuSubmitGate are given in MCGpuSubmitGate.cfg.        *)
EXTENDS GpuSubmitGate
===============================================================================
