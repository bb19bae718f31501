---------------------------- MODULE MCBootSwitch ----------------------------
\* BootSwitch needs no model values; the bounds are in the configurations.
EXTENDS BootSwitch
=============================================================================
