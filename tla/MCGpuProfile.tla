---------------------------- MODULE MCGpuProfile ----------------------------
EXTENDS GpuProfile, TLC

CONSTANTS offset, plain

TwoProfiles == {offset, plain}
\* One profile with every kind of step, one that locks the memory clocks only.
OpsOfTwo ==
    (offset :> {"pm", "pl", "rgc", "lgc", "offsets"}) @@ (plain :> {"pl", "rmc", "lmc"})
=============================================================================
