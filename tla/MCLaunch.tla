------------------------------ MODULE MCLaunch ------------------------------
EXTENDS Launch
CONSTANTS h1
MCHosts == {h1}
MCVersions == {1, 3}
MCNews == {2, 3}
=============================================================================
