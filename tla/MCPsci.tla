------------------------------- MODULE MCPsci -------------------------------
(***************************************************************************)
(* Small instances of Psci, one per class of SoC port: the SOC_* flags of  *)
(* its soc.h decide which PSCI services the monitor offers.                *)
(***************************************************************************)
EXTENDS Psci

\* soc-lx2160, soc-ls1028, soc-la1575: secondary cores can only be started.
BootFeatures == {"CORE_RELEASE"}

\* soc-ls2080, soc-la17xx: cores can also be turned off and restarted.
HotplugFeatures == {"CORE_RELEASE", "CORE_RESTART", "CORE_OFF"}

\* soc-ls1043: everything.
AllFeatures == Feature

=============================================================================
